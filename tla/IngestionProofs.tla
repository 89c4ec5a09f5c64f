--------------------------- MODULE IngestionProofs --------------------------
(***************************************************************************)
(* Theorems about WebhookIngestion for every set of events, deliveries,    *)
(* handlers and row ids, and every number of repetitions and losses.       *)
(***************************************************************************)
EXTENDS WebhookIngestion, FiniteSetTheorems, TLAPS

(* A handler that has its row, in the tables or in its own transaction.    *)
Inserting(h) == job[h].pc = "inserted"
Holding(h) == job[h].pc \in {"conflict", "answer"}

(* The row that id names is e's.                                           *)
Stored(id, e) == \E r \in rows : r.id = id /\ r.ev = e

RowsApart == \A r, q \in rows : (r.ev = q.ev \/ r.id = q.id) => r = q

(* An uncommitted insert is the only one of its event, and its id is new:  *)
(* this is what the unique index and the wait for it give.                 *)
InsertsFresh == \A h \in Handlers : Inserting(h) =>
    /\ \A r \in rows : r.ev # Event(h) /\ r.id # job[h].id
    /\ \A g \in Handlers \ {h} :
          /\ Inserting(g) => Event(g) # Event(h)
          /\ job[g].id # job[h].id

HoldersStored == \A h \in Handlers : Holding(h) => Stored(job[h].id, Event(h))

ToldStored == \A e \in Events : \A a \in told[e] : Stored(a.id, e)

Receipts == \A id \in RowIds :
    trail[id]["webhook.received"] = IF \E r \in rows : r.id = id THEN 1 ELSE 0

IngestInv == TypeOK /\ RowsApart /\ InsertsFresh /\ HoldersStored /\ ToldStored /\ Receipts

-----------------------------------------------------------------------------
(* Type correctness.                                                       *)

LEMMA IdleTyped == IdleHandler \in Handler /\ NoRequest \in Request
  BY DEF IdleHandler, Handler, NoRequest, Request

(* A genuine delivery names an event.                                      *)
LEMMA GenuineEvent ==
    ASSUME NEW req \in Requests \cup {NoRequest}, Genuine(req)
    PROVE  req \in Requests /\ req.ev \in Events
  BY IngestionAssumption DEF Genuine, NoRequest, Request

(* A handler past the checks works on an event, and is no idle one.        *)
LEMMA AtWork ==
    ASSUME TypeOK, NEW h \in Handlers,
           job[h].pc \in {"insert", "inserted", "conflict", "answer"}
    PROVE  Event(h) \in Events
  BY GenuineEvent DEF TypeOK, Handler, Event

LEMMA TypeInit == Init => TypeOK
  <1> SUFFICES ASSUME Init PROVE TypeOK
    OBVIOUS
  <1>1. job \in [Handlers -> Handler] /\ \A h \in Handlers : job[h].pc = "idle"
    BY IdleTyped DEF Init, IdleHandler
  <1>2. /\ trail \in [RowIds -> [Entry -> Nat]]
        /\ told \in [Events -> SUBSET [id : RowIds, duplicate : BOOLEAN]]
        /\ sent \in [Events -> Nat] /\ acked \in [Events -> Nat]
    BY DEF Init
  <1> QED
    BY <1>1, <1>2 DEF Init, TypeOK

(* One handler's local variables are replaced by well-typed ones.          *)
LEMMA SetTyped ==
    ASSUME TypeOK, NEW h \in Handlers, NEW j \in Handler, Set(h, j),
           j.pc \in {"insert", "inserted", "conflict", "answer"} => Genuine(j.req),
           j.pc \in {"inserted", "conflict", "answer"} => j.id \in RowIds
    PROVE  /\ job' \in [Handlers -> Handler] /\ job'[h] = j
           /\ \A g \in Handlers \ {h} : job'[g] = job[g]
           /\ \A g \in Handlers :
                 /\ job'[g].pc \in {"insert", "inserted", "conflict", "answer"} =>
                       Genuine(job'[g].req)
                 /\ job'[g].pc \in {"inserted", "conflict", "answer"} => job'[g].id \in RowIds
  BY DEF TypeOK, Set

LEMMA TypeStep == TypeOK /\ [Next]_vars => TypeOK'
  <1> SUFFICES ASSUME TypeOK, [Next]_vars PROVE TypeOK'
    OBVIOUS
  <1>i. /\ IdleHandler.pc = "idle" /\ IdleHandler \in Handler
        /\ \A h \in Handlers : job[h] \in Handler
    BY IdleTyped DEF IdleHandler, TypeOK
  <1>1. ASSUME NEW h \in Handlers, NEW req \in Requests, Deliver(h, req) PROVE TypeOK'
    <2> DEFINE j == [IdleHandler EXCEPT !.pc = "verify", !.req = req]
    <2>1. j \in Handler /\ j.pc = "verify"
      BY <1>i DEF IdleHandler, Handler
    <2>2. Set(h, j)
      BY <1>1 DEF Deliver
    <2> HIDE DEF j
    <2> QED
      BY <1>1, <2>1, <2>2, SetTyped DEF Deliver, TypeOK
  <1>2. ASSUME NEW h \in Handlers, Refuse(h) \/ Lose(h) PROVE TypeOK'
    BY <1>2, <1>i, SetTyped DEF Refuse, Lose, TypeOK
  <1>3. ASSUME NEW h \in Handlers, Accept(h) PROVE TypeOK'
    <2> DEFINE j == [job[h] EXCEPT !.pc = "insert"]
    <2>1. j \in Handler /\ j.pc = "insert" /\ Genuine(j.req)
      BY <1>i, <1>3 DEF Handler, Accept
    <2>2. Set(h, j) /\ Genuine(job[h].req) /\ job[h].req \in Requests \cup {NoRequest}
      BY <1>3, <1>i DEF Accept, Handler
    <2>3. sent' \in [Events -> Nat]
      <3>1. Event(h) \in Events
        BY <2>2, GenuineEvent DEF Event
      <3> QED
        BY <1>3, <3>1 DEF Accept, TypeOK
    <2> HIDE DEF j
    <2> QED
      BY <1>3, <2>1, <2>2, <2>3, SetTyped DEF Accept, TypeOK
  <1>4. ASSUME NEW h \in Handlers, Insert(h) PROVE TypeOK'
    <2>1. PICK id \in RowIds : Set(h, [job[h] EXCEPT !.pc = "inserted", !.id = id])
      BY <1>4 DEF Insert
    <2> DEFINE j == [job[h] EXCEPT !.pc = "inserted", !.id = id]
    <2>2. j \in Handler /\ j.pc = "inserted" /\ j.id \in RowIds /\ j.req = job[h].req
      BY <1>i DEF Handler
    <2>3. Set(h, j) /\ Genuine(job[h].req)
      BY <1>4, <2>1 DEF Insert, TypeOK
    <2> HIDE DEF j
    <2> QED
      BY <1>4, <2>2, <2>3, SetTyped DEF Insert, TypeOK
  <1>5. ASSUME NEW h \in Handlers, Conflict(h) PROVE TypeOK'
    <2>1. PICK r \in RowsOf(Event(h)) :
            Set(h, [job[h] EXCEPT !.pc = "conflict", !.id = r.id, !.duplicate = TRUE])
      BY <1>5 DEF Conflict
    <2> DEFINE j == [job[h] EXCEPT !.pc = "conflict", !.id = r.id, !.duplicate = TRUE]
    <2>2. r.id \in RowIds
      BY DEF RowsOf, TypeOK, EventRow
    <2>3. j \in Handler /\ j.pc = "conflict" /\ j.id \in RowIds /\ j.req = job[h].req
      BY <1>i, <2>2 DEF Handler
    <2>4. Set(h, j) /\ Genuine(job[h].req)
      BY <1>5, <2>1 DEF Conflict, TypeOK
    <2> HIDE DEF j
    <2> QED
      BY <1>5, <2>3, <2>4, SetTyped DEF Conflict, TypeOK
  <1>6. ASSUME NEW h \in Handlers, CommitInsert(h) \/ CommitDuplicate(h) PROVE TypeOK'
    <2> DEFINE j == [job[h] EXCEPT !.pc = "answer"]
    <2>1. job[h].id \in RowIds /\ Genuine(job[h].req) /\ Event(h) \in Events
      BY <1>6, AtWork DEF CommitInsert, CommitDuplicate, TypeOK
    <2>2. j \in Handler /\ j.pc = "answer" /\ j.id \in RowIds /\ j.req = job[h].req
      BY <1>i, <2>1 DEF Handler
    <2>3. Set(h, j)
      BY <1>6 DEF CommitInsert, CommitDuplicate
    <2>4. rows' \subseteq EventRow
      BY <1>6, <2>1 DEF CommitInsert, CommitDuplicate, TypeOK, EventRow
    <2>5. \A n \in Entry : Audit(h, n) => trail' \in [RowIds -> [Entry -> Nat]]
      BY <2>1 DEF Audit, TypeOK
    <2>6. trail' \in [RowIds -> [Entry -> Nat]]
      BY <1>6, <2>5 DEF CommitInsert, CommitDuplicate, Entry
    <2> HIDE DEF j
    <2> QED
      BY <1>6, <2>1, <2>2, <2>3, <2>4, <2>6, SetTyped DEF CommitInsert, CommitDuplicate, TypeOK
  <1>7. ASSUME NEW h \in Handlers, Answer(h) PROVE TypeOK'
    <2>1. Event(h) \in Events /\ job[h].id \in RowIds /\ job[h].duplicate \in BOOLEAN
      BY <1>7, <1>i, AtWork DEF Answer, TypeOK, Handler
    <2>2. told' \in [Events -> SUBSET [id : RowIds, duplicate : BOOLEAN]]
      BY <1>7, <2>1 DEF Answer, TypeOK
    <2>3. acked' \in [Events -> Nat]
      BY <1>7, <2>1 DEF Answer, TypeOK
    <2> QED
      BY <1>7, <1>i, <2>2, <2>3, SetTyped DEF Answer, TypeOK
  <1>8. CASE SetSecret
    BY <1>8, <1>i DEF SetSecret, TypeOK
  <1>9. ASSUME NEW r \in rows, Handle(r) PROVE TypeOK'
    <2>1. rows' \subseteq EventRow
      BY <1>9 DEF Handle, TypeOK, EventRow
    <2> QED
      BY <1>9, <2>1 DEF Handle, TypeOK
  <1>10. CASE UNCHANGED vars
    BY <1>10 DEF vars, TypeOK
  <1> QED
    BY <1>1, <1>2, <1>3, <1>4, <1>5, <1>6, <1>7, <1>8, <1>9, <1>10 DEF Next, HandlerStep

(* Every table and every handler's local variables keep their domains.     *)
THEOREM IngestionTyped == Spec => []TypeOK
  <1>1. Init => TypeOK
    BY TypeInit
  <1>2. TypeOK /\ [Next]_vars => TypeOK'
    BY TypeStep
  <1> QED
    BY <1>1, <1>2, PTL DEF Spec

-----------------------------------------------------------------------------
(* The inductive invariant.                                                *)

LEMMA InvInit == Init => IngestInv
  <1> SUFFICES ASSUME Init PROVE IngestInv
    OBVIOUS
  <1>1. TypeOK
    BY TypeInit
  <1>2. \A h \in Handlers : job[h].pc = "idle"
    BY DEF Init, IdleHandler
  <1>3. rows = {} /\ \A e \in Events : told[e] = {}
    BY DEF Init
  <1>4. \A id \in RowIds : trail[id]["webhook.received"] = 0
    BY DEF Init, Entry
  <1> QED
    BY <1>1, <1>2, <1>3, <1>4
    DEF IngestInv, RowsApart, InsertsFresh, HoldersStored, ToldStored, Receipts,
        Inserting, Holding

(* A handler moves on, and no row of the table changes.                    *)
LEMMA RowsUntouched ==
    ASSUME IngestInv, TypeOK', ToldStored', Receipts', UNCHANGED rows,
           NEW h \in Handlers, NEW j, Set(h, j), j.pc # "inserted",
           j.pc \in {"conflict", "answer"} => Stored(j.id, j.req.ev),
           \A g \in Handlers \ {h} : Inserting(g) => job[g].id # j.id
    PROVE  IngestInv'
  <1>1. job'[h] = j /\ \A g \in Handlers \ {h} : job'[g] = job[g]
    BY DEF Set, IngestInv, TypeOK
  <1>2. RowsApart'
    BY DEF IngestInv, RowsApart
  <1>3. InsertsFresh'
    <2> SUFFICES ASSUME NEW g \in Handlers, Inserting(g)'
                 PROVE  /\ \A r \in rows : r.ev # Event(g)' /\ r.id # job'[g].id
                        /\ \A k \in Handlers \ {g} :
                              /\ Inserting(k)' => Event(k)' # Event(g)'
                              /\ job'[k].id # job'[g].id
      BY DEF InsertsFresh, Event
    <2>1. g # h /\ job'[g] = job[g] /\ Inserting(g)
      BY <1>1 DEF Inserting
    <2>2. \A r \in rows : r.ev # Event(g) /\ r.id # job[g].id
      BY <2>1 DEF IngestInv, InsertsFresh
    <2>3. ASSUME NEW k \in Handlers \ {g}
          PROVE  /\ Inserting(k)' => Event(k)' # Event(g)'
                 /\ job'[k].id # job'[g].id
      BY <1>1, <2>1, <2>3 DEF IngestInv, InsertsFresh, Inserting, Event
    <2> QED
      BY <2>1, <2>2, <2>3 DEF Event
  <1>4. HoldersStored'
    <2> SUFFICES ASSUME NEW g \in Handlers, Holding(g)' PROVE Stored(job[g].id, Event(g))'
      BY DEF HoldersStored
    <2> QED
      BY <1>1 DEF IngestInv, HoldersStored, Holding, Stored, Event
  <1> QED
    BY <1>2, <1>3, <1>4 DEF IngestInv

(* The steps at which a handler neither writes a row nor begins to.        *)
LEMMA HandlerTurns ==
    ASSUME IngestInv, TypeOK', NEW h \in Handlers,
           \/ \E req \in Requests : Deliver(h, req)
           \/ Refuse(h) \/ Accept(h) \/ Lose(h) \/ Conflict(h) \/ Answer(h)
           \/ CommitDuplicate(h)
    PROVE  IngestInv'
  <1>i. /\ IdleHandler.pc = "idle" /\ IdleHandler.id = None
        /\ job[h] \in Handler
    BY DEF IdleHandler, IngestInv, TypeOK
  <1>n. \A g \in Handlers : Inserting(g) => job[g].id # None
    BY IngestionAssumption DEF IngestInv, TypeOK, Inserting
  <1>o. \A g \in Handlers \ {h} : Inserting(g) => job[g].id # job[h].id
    BY DEF IngestInv, InsertsFresh
  <1>k. rows' = rows /\ told' = told => ToldStored'
    BY DEF IngestInv, ToldStored, Stored
  <1>t. rows' = rows /\ trail' = trail => Receipts'
    BY DEF IngestInv, Receipts
  <1>1. ASSUME NEW req \in Requests, Deliver(h, req) PROVE IngestInv'
    <2> DEFINE j == [IdleHandler EXCEPT !.pc = "verify", !.req = req]
    <2>1. j.pc = "verify" /\ j.id = None
      BY DEF IdleHandler
    <2>2. Set(h, j) /\ UNCHANGED <<rows, trail, told>>
      BY <1>1 DEF Deliver
    <2> HIDE DEF j
    <2> QED
      BY <2>1, <2>2, <1>n, <1>k, <1>t, RowsUntouched
  <1>2. ASSUME Refuse(h) \/ Lose(h) PROVE IngestInv'
    <2>1. Set(h, IdleHandler) /\ UNCHANGED <<rows, trail, told>>
      BY <1>2 DEF Refuse, Lose
    <2> QED
      BY <2>1, <1>i, <1>n, <1>k, <1>t, RowsUntouched
  <1>3. ASSUME Accept(h) PROVE IngestInv'
    <2> DEFINE j == [job[h] EXCEPT !.pc = "insert"]
    <2>1. j.pc = "insert" /\ j.id = job[h].id
      BY <1>i DEF Handler
    <2>2. Set(h, j) /\ UNCHANGED <<rows, trail, told>>
      BY <1>3 DEF Accept
    <2> HIDE DEF j
    <2> QED
      BY <2>1, <2>2, <1>o, <1>k, <1>t, RowsUntouched
  <1>4. ASSUME Conflict(h) PROVE IngestInv'
    <2>1. PICK r \in RowsOf(Event(h)) :
            Set(h, [job[h] EXCEPT !.pc = "conflict", !.id = r.id, !.duplicate = TRUE])
      BY <1>4 DEF Conflict
    <2> DEFINE j == [job[h] EXCEPT !.pc = "conflict", !.id = r.id, !.duplicate = TRUE]
    <2>2. j.pc = "conflict" /\ j.id = r.id /\ j.req = job[h].req
      BY <1>i DEF Handler
    <2>3. r \in rows /\ Stored(r.id, Event(h))
      BY DEF RowsOf, Stored
    <2>4. \A g \in Handlers : Inserting(g) => job[g].id # r.id
      BY <2>3 DEF IngestInv, InsertsFresh
    <2>5. Set(h, j) /\ UNCHANGED <<rows, trail, told>>
      BY <1>4, <2>1 DEF Conflict
    <2>6. Stored(j.id, j.req.ev)
      BY <2>2, <2>3 DEF Event
    <2> HIDE DEF j
    <2> QED
      BY <2>2, <2>4, <2>5, <2>6, <1>k, <1>t, RowsUntouched
  <1>5. ASSUME Answer(h) PROVE IngestInv'
    <2>1. Set(h, IdleHandler) /\ UNCHANGED <<rows, trail>>
      BY <1>5 DEF Answer
    <2>2. Event(h) \in Events /\ Stored(job[h].id, Event(h))
      BY <1>5, AtWork DEF Answer, IngestInv, HoldersStored, Holding
    <2>3. ToldStored'
      <3> SUFFICES ASSUME NEW e \in Events, NEW a \in told'[e] PROVE Stored(a.id, e)
        BY <2>1 DEF ToldStored, Stored
      <3>1. CASE e # Event(h)
        BY <1>5, <3>1 DEF Answer, IngestInv, ToldStored, TypeOK
      <3>2. CASE e = Event(h)
        <4>1. a \in told[e] \/ a = [id |-> job[h].id, duplicate |-> job[h].duplicate]
          BY <1>5, <3>2 DEF Answer, IngestInv, TypeOK
        <4> QED
          BY <4>1, <3>2, <2>2 DEF IngestInv, ToldStored
      <3> QED
        BY <3>1, <3>2
    <2> QED
      BY <2>1, <2>3, <1>i, <1>n, <1>t, RowsUntouched
  <1>6. ASSUME CommitDuplicate(h) PROVE IngestInv'
    <2> DEFINE j == [job[h] EXCEPT !.pc = "answer"]
    <2>1. j.pc = "answer" /\ j.id = job[h].id /\ j.req = job[h].req
      BY <1>i DEF Handler
    <2>2. Set(h, j) /\ UNCHANGED <<rows, told>> /\ Audit(h, "webhook.duplicate")
      BY <1>6 DEF CommitDuplicate
    <2>3. Stored(j.id, j.req.ev)
      BY <1>6, <2>1 DEF CommitDuplicate, IngestInv, HoldersStored, Holding, Event
    <2>4. Receipts'
      BY <2>2 DEF Audit, IngestInv, TypeOK, Receipts, Entry
    <2> HIDE DEF j
    <2> QED
      BY <2>1, <2>2, <2>3, <2>4, <1>o, <1>k, RowsUntouched
  <1> QED
    BY <1>1, <1>2, <1>3, <1>4, <1>5, <1>6

(* The row is in the handler's transaction.                                *)
LEMMA InsertFresh ==
    ASSUME IngestInv, TypeOK', NEW h \in Handlers, Insert(h)
    PROVE  IngestInv'
  <1>1. PICK id \in RowIds :
          Unused(id) /\ Set(h, [job[h] EXCEPT !.pc = "inserted", !.id = id])
    BY DEF Insert
  <1>2. /\ job'[h].pc = "inserted" /\ job'[h].id = id /\ job'[h].req = job[h].req
        /\ \A g \in Handlers \ {h} : job'[g] = job[g]
    BY <1>1 DEF Set, IngestInv, TypeOK, Handler
  <1>3. /\ \A r \in rows : r.id # id /\ r.ev # Event(h)
        /\ \A g \in Handlers \ {h} : job[g].id # id
        /\ \A g \in Handlers \ {h} : Inserting(g) => Event(g) # Event(h)
    BY <1>1 DEF Insert, Unused, RowsOf, Blocked, Inserting
  <1>4. InsertsFresh'
    <2> SUFFICES ASSUME NEW g \in Handlers, Inserting(g)'
                 PROVE  /\ \A r \in rows : r.ev # Event(g)' /\ r.id # job'[g].id
                        /\ \A k \in Handlers \ {g} :
                              /\ Inserting(k)' => Event(k)' # Event(g)'
                              /\ job'[k].id # job'[g].id
      BY DEF InsertsFresh, Event, Insert
    <2>1. CASE g = h
      BY <1>2, <1>3, <2>1 DEF Inserting, Event
    <2>2. CASE g # h
      <3>1. Inserting(g) /\ job'[g] = job[g]
        BY <1>2, <2>2 DEF Inserting
      <3>2. /\ \A r \in rows : r.ev # Event(g) /\ r.id # job[g].id
            /\ \A k \in Handlers \ {g} :
                  /\ Inserting(k) => Event(k) # Event(g)
                  /\ job[k].id # job[g].id
        BY <3>1 DEF IngestInv, InsertsFresh
      <3>3. Event(g) # Event(h) /\ job[g].id # id
        BY <1>3, <2>2, <3>1
      <3> QED
        BY <1>2, <2>2, <3>1, <3>2, <3>3 DEF Inserting, Event
    <2> QED
      BY <2>1, <2>2
  <1>5. HoldersStored'
    BY <1>2 DEF Insert, IngestInv, HoldersStored, Holding, Stored, Event
  <1>6. RowsApart' /\ ToldStored' /\ Receipts'
    BY DEF Insert, IngestInv, RowsApart, ToldStored, Stored, Receipts
  <1> QED
    BY <1>4, <1>5, <1>6 DEF IngestInv

(* The transaction that inserted the row commits.                          *)
LEMMA InsertCommits ==
    ASSUME IngestInv, TypeOK', NEW h \in Handlers, CommitInsert(h)
    PROVE  IngestInv'
  <1> DEFINE new == [id |-> job[h].id, ev |-> Event(h), state |-> "pending"]
  <1>1. /\ job'[h].pc = "answer" /\ job'[h].id = job[h].id /\ job'[h].req = job[h].req
        /\ \A g \in Handlers \ {h} : job'[g] = job[g]
    BY DEF CommitInsert, Set, IngestInv, TypeOK, Handler
  <1>2. /\ rows' = rows \cup {new} /\ told' = told
        /\ Inserting(h) /\ Audit(h, "webhook.received") /\ job[h].id \in RowIds
    BY DEF CommitInsert, Inserting, IngestInv, TypeOK
  <1>3. /\ \A r \in rows : r.ev # Event(h) /\ r.id # job[h].id
        /\ \A g \in Handlers \ {h} :
              /\ Inserting(g) => Event(g) # Event(h)
              /\ job[g].id # job[h].id
    BY <1>2 DEF IngestInv, InsertsFresh
  <1>4. new.id = job[h].id /\ new.ev = Event(h)
    OBVIOUS
  <1>5. RowsApart'
    BY <1>2, <1>3, <1>4 DEF IngestInv, RowsApart
  <1>6. InsertsFresh'
    <2> SUFFICES ASSUME NEW g \in Handlers, Inserting(g)'
                 PROVE  /\ \A r \in rows' : r.ev # Event(g)' /\ r.id # job'[g].id
                        /\ \A k \in Handlers \ {g} :
                              /\ Inserting(k)' => Event(k)' # Event(g)'
                              /\ job'[k].id # job'[g].id
      BY DEF InsertsFresh, Event
    <2>1. g # h /\ job'[g] = job[g] /\ Inserting(g)
      BY <1>1 DEF Inserting
    <2>2. /\ \A r \in rows : r.ev # Event(g) /\ r.id # job[g].id
          /\ \A k \in Handlers \ {g} :
                /\ Inserting(k) => Event(k) # Event(g)
                /\ job[k].id # job[g].id
      BY <2>1 DEF IngestInv, InsertsFresh
    <2>3. new.ev # Event(g) /\ new.id # job[g].id
      BY <1>3, <1>4, <2>1
    <2> HIDE DEF new
    <2>4. \A r \in rows' : r.ev # Event(g) /\ r.id # job[g].id
      BY <1>2, <2>2, <2>3
    <2>5. ASSUME NEW k \in Handlers \ {g}
          PROVE  /\ Inserting(k)' => Event(k)' # Event(g)
                 /\ job'[k].id # job[g].id
      BY <1>1, <2>2, <2>5 DEF Inserting, Event
    <2> QED
      BY <2>1, <2>4, <2>5 DEF Event
  <1>7. \A id, e : Stored(id, e) => Stored(id, e)'
    BY <1>2 DEF Stored
  <1>8. Stored(job[h].id, Event(h))'
    BY <1>1, <1>2, <1>4 DEF Stored, Event
  <1>9. HoldersStored'
    <2> SUFFICES ASSUME NEW g \in Handlers, Holding(g)' PROVE Stored(job[g].id, Event(g))'
      BY DEF HoldersStored
    <2>1. CASE g # h
      <3>1. Holding(g) /\ job'[g] = job[g]
        BY <1>1, <2>1 DEF Holding
      <3>2. \E r \in rows : r.id = job[g].id /\ r.ev = Event(g)
        BY <3>1 DEF IngestInv, HoldersStored, Stored
      <3> QED
        BY <3>1, <3>2, <1>2 DEF Stored, Event
    <2> QED
      BY <2>1, <1>8
  <1>10. ToldStored'
    BY <1>2, <1>7 DEF IngestInv, ToldStored
  <1>11. Receipts'
    <2> SUFFICES ASSUME NEW id \in RowIds
                 PROVE  trail'[id]["webhook.received"]
                            = IF \E r \in rows' : r.id = id THEN 1 ELSE 0
      BY DEF Receipts
    <2>1. CASE id = job[h].id
      <3>1. trail[id]["webhook.received"] = 0
        BY <1>3, <2>1 DEF IngestInv, Receipts
      <3>2. trail'[id]["webhook.received"] = 1
        BY <1>2, <2>1, <3>1 DEF Audit, IngestInv, TypeOK, Entry
      <3> QED
        BY <1>2, <1>4, <2>1, <3>2
    <2>2. CASE id # job[h].id
      <3>1. trail'[id] = trail[id]
        BY <1>2, <2>2 DEF Audit, IngestInv, TypeOK
      <3> QED
        BY <1>2, <1>4, <2>2, <3>1 DEF IngestInv, Receipts
    <2> QED
      BY <2>1, <2>2
  <1> QED
    BY <1>5, <1>6, <1>9, <1>10, <1>11 DEF IngestInv

(* The recovery loop settles a row.                                        *)
LEMMA HandleKeeps ==
    ASSUME IngestInv, TypeOK', NEW row \in rows, Handle(row)
    PROVE  IngestInv'
  <1> DEFINE new == [row EXCEPT !.state = "handled"]
  <1>1. new.id = row.id /\ new.ev = row.ev
    BY DEF IngestInv, TypeOK, EventRow
  <1>2. rows' = (rows \ {row}) \cup {new} /\ UNCHANGED <<trail, told, job>>
    BY DEF Handle
  <1> HIDE DEF new
  <1>3. \A r \in rows' : \E q \in rows : q.id = r.id /\ q.ev = r.ev
    BY <1>1, <1>2
  <1>4. \A q \in rows : \E r \in rows' : q.id = r.id /\ q.ev = r.ev
    BY <1>1, <1>2
  <1>5. RowsApart'
    BY <1>1, <1>2 DEF IngestInv, RowsApart
  <1>6. InsertsFresh'
    <2> SUFFICES ASSUME NEW g \in Handlers, Inserting(g)
                 PROVE  /\ \A r \in rows' : r.ev # Event(g) /\ r.id # job[g].id
                        /\ \A k \in Handlers \ {g} :
                              /\ Inserting(k) => Event(k) # Event(g)
                              /\ job[k].id # job[g].id
      BY <1>2 DEF InsertsFresh, Inserting, Event
    <2> QED
      BY <1>3 DEF IngestInv, InsertsFresh
  <1>7. \A id, e : Stored(id, e) <=> Stored(id, e)'
    BY <1>3, <1>4 DEF Stored
  <1>8. HoldersStored' /\ ToldStored'
    BY <1>2, <1>4 DEF IngestInv, HoldersStored, ToldStored, Holding, Stored, Event
  <1>9. Receipts'
    BY <1>2, <1>3, <1>4 DEF IngestInv, Receipts
  <1> QED
    BY <1>5, <1>6, <1>8, <1>9 DEF IngestInv

LEMMA InvStep == IngestInv /\ [Next]_vars => IngestInv'
  <1> SUFFICES ASSUME IngestInv, [Next]_vars PROVE IngestInv'
    OBVIOUS
  <1>t. TypeOK'
    BY TypeStep DEF IngestInv
  <1>1. ASSUME NEW h \in Handlers, HandlerStep(h) \/ Lose(h) PROVE IngestInv'
    BY <1>1, <1>t, HandlerTurns, InsertFresh, InsertCommits DEF HandlerStep
  <1>2. ASSUME NEW h \in Handlers, NEW req \in Requests, Deliver(h, req) PROVE IngestInv'
    BY <1>2, <1>t, HandlerTurns
  <1>3. CASE SetSecret
    <2>1. \A h \in Handlers : job'[h].pc = "idle"
      BY <1>3 DEF SetSecret, IdleHandler
    <2> QED
      BY <1>3, <1>t, <2>1
      DEF SetSecret, IngestInv, RowsApart, InsertsFresh, HoldersStored, ToldStored, Receipts,
          Inserting, Holding, Stored
  <1>4. ASSUME NEW r \in rows, Handle(r) PROVE IngestInv'
    BY <1>4, <1>t, HandleKeeps
  <1>5. CASE UNCHANGED vars
    BY <1>5, <1>t
    DEF vars, IngestInv, RowsApart, InsertsFresh, HoldersStored, ToldStored, Receipts,
        Inserting, Holding, Stored, Event
  <1> QED
    BY <1>1, <1>2, <1>3, <1>4, <1>5 DEF Next

(* The invariant holds of every reachable state.                           *)
THEOREM IngestInvariant == Spec => []IngestInv
  <1> QED
    BY InvInit, InvStep, PTL DEF Spec

-----------------------------------------------------------------------------
(* What is promised.                                                       *)

(* ingestion.py 3-7: an event has one row and one receipt, whatever number *)
(* of its deliveries run together, die or are repeated.                    *)
THEOREM EventStoredOnce == Spec => []StoredOnce
  <1>1. IngestInv => StoredOnce
    <2> SUFFICES ASSUME IngestInv PROVE StoredOnce
      OBVIOUS
    <2>1. \A r, q \in rows : r.ev = q.ev => r = q
      BY DEF IngestInv, RowsApart
    <2>2. \A id \in RowIds :
            trail[id]["webhook.received"] = IF \E r \in rows : r.id = id THEN 1 ELSE 0
      BY DEF IngestInv, Receipts
    <2> QED
      BY <2>1, <2>2 DEF StoredOnce
  <1> QED
    BY <1>1, IngestInvariant, PTL

(* Whatever Razorpay is told of an event, it is told of the event's row.   *)
THEOREM AnswersOfOneRow == Spec => []AnswersAgree
  <1>1. IngestInv => AnswersAgree
    <2> SUFFICES ASSUME IngestInv, NEW e \in Events, NEW a \in told[e]
                 PROVE  /\ \E r \in rows : r.id = a.id /\ r.ev = e
                        /\ \A b \in told[e] : a.id = b.id
      BY DEF AnswersAgree
    <2>1. \A b \in told[e] : \E r \in rows : r.id = b.id /\ r.ev = e
      BY DEF IngestInv, ToldStored, Stored
    <2> QED
      BY <2>1 DEF IngestInv, RowsApart
  <1> QED
    BY <1>1, IngestInvariant, PTL

-----------------------------------------------------------------------------
(* The audit: the answers received, and those on their way, have an entry  *)
(* each.                                                                   *)

Answering(e) == {h \in Handlers : job[h].pc = "answer" /\ Event(h) = e}

Entries(id) == trail[id]["webhook.received"] + trail[id]["webhook.duplicate"]

Accounted == \A e \in Events :
    /\ RowsOf(e) = {} => acked[e] = 0
    /\ \A r \in RowsOf(e) : acked[e] + Cardinality(Answering(e)) <= Entries(r.id)

(* What a step may do to them.                                             *)
MoreEntries ==
    /\ \A id \in RowIds : Entries(id) <= Entries(id)'
    /\ \A e \in Events : \A r \in RowsOf(e)' : \E q \in RowsOf(e) : q.id = r.id
    /\ \A e \in Events : RowsOf(e)' = {} => RowsOf(e) = {}

LEMMA EntriesTyped ==
    ASSUME TypeOK, NEW id \in RowIds
    PROVE  Entries(id) \in Nat
  BY DEF TypeOK, Entries, Entry

LEMMA AnswerCounts ==
    ASSUME NEW e
    PROVE  /\ IsFiniteSet(Answering(e)) /\ Cardinality(Answering(e)) \in Nat
           /\ IsFiniteSet(Answering(e)') /\ Cardinality(Answering(e)') \in Nat
  <1>1. Answering(e) \subseteq Handlers /\ Answering(e)' \subseteq Handlers
    BY DEF Answering
  <1>2. IsFiniteSet(Answering(e)) /\ IsFiniteSet(Answering(e)')
    BY <1>1, IngestionAssumption, FS_Subset
  <1> QED
    BY <1>2, FS_CardinalityType

(* No answer is added: none, or fewer, are on their way.                   *)
LEMMA FewerAnswers ==
    ASSUME TypeOK, TypeOK', Accounted, MoreEntries, UNCHANGED acked,
           \A e \in Events : Answering(e)' \subseteq Answering(e)
    PROVE  Accounted'
  <1> SUFFICES ASSUME NEW e \in Events
               PROVE  /\ RowsOf(e)' = {} => acked[e] = 0
                      /\ \A r \in RowsOf(e)' :
                            acked[e] + Cardinality(Answering(e)') <= Entries(r.id)'
    BY DEF Accounted
  <1>1. Cardinality(Answering(e)') <= Cardinality(Answering(e))
    BY AnswerCounts, FS_Subset
  <1>2. ASSUME NEW r \in RowsOf(e)'
        PROVE  acked[e] + Cardinality(Answering(e)') <= Entries(r.id)'
    <2>1. PICK q \in RowsOf(e) : q.id = r.id
      BY <1>2 DEF MoreEntries
    <2>2. q.id \in RowIds
      BY DEF RowsOf, TypeOK, EventRow
    <2>3. /\ Entries(q.id) \in Nat /\ Entries(q.id)' \in Nat
          /\ Entries(q.id) <= Entries(q.id)' /\ acked[e] \in Nat
      <3>1. \A id \in RowIds : Entries(id)' \in Nat
        BY DEF TypeOK, Entries, Entry
      <3> QED
        BY <2>2, <3>1, EntriesTyped DEF MoreEntries, TypeOK
    <2>4. acked[e] + Cardinality(Answering(e)) <= Entries(q.id)
      BY DEF Accounted
    <2>5. acked[e] + Cardinality(Answering(e)') <= Entries(q.id)'
      BY <1>1, <2>3, <2>4, AnswerCounts
    <2> QED
      BY <2>1, <2>5
  <1> QED
    BY <1>2 DEF Accounted, MoreEntries

(* One answer more is on its way, and one entry more is committed with it. *)
LEMMA EntryCommits ==
    ASSUME IngestInv, TypeOK', Accounted, NEW h \in Handlers,
           CommitInsert(h) \/ CommitDuplicate(h)
    PROVE  Accounted'
  <1>1. /\ Event(h) \in Events /\ job[h].id \in RowIds /\ TypeOK /\ UNCHANGED acked
        /\ job[h].pc \in {"inserted", "conflict"}
    BY AtWork DEF IngestInv, TypeOK, CommitInsert, CommitDuplicate
  <1>2. /\ job'[h].pc = "answer" /\ job'[h].req = job[h].req
        /\ \A g \in Handlers \ {h} : job'[g] = job[g]
    BY <1>1 DEF CommitInsert, CommitDuplicate, Set, TypeOK, Handler
  <1>3. PICK n \in Entry : Audit(h, n)
    BY DEF CommitInsert, CommitDuplicate, Entry
  <1>k. PICK key \in RowIds : key = job[h].id
    BY <1>1
  <1>4. /\ Entries(key)' = Entries(key) + 1
        /\ \A id \in RowIds \ {key} : Entries(id)' = Entries(id)
    <2>1. /\ trail' = [trail EXCEPT ![key][n] = @ + 1]
          /\ trail \in [RowIds -> [Entry -> Nat]]
      BY <1>1, <1>3, <1>k DEF Audit, TypeOK
    <2>2. \A id \in RowIds \ {key} : trail'[id] = trail[id]
      BY <2>1
    <2>3. /\ n = "webhook.received" =>
                /\ trail'[key]["webhook.received"] = trail[key]["webhook.received"] + 1
                /\ trail'[key]["webhook.duplicate"] = trail[key]["webhook.duplicate"]
          /\ n = "webhook.duplicate" =>
                /\ trail'[key]["webhook.received"] = trail[key]["webhook.received"]
                /\ trail'[key]["webhook.duplicate"] = trail[key]["webhook.duplicate"] + 1
          /\ trail[key]["webhook.received"] \in Nat /\ trail[key]["webhook.duplicate"] \in Nat
      BY <2>1 DEF Entry
    <2> QED
      BY <2>2, <2>3 DEF Entries, Entry
  <1>5. /\ \A e \in Events \ {Event(h)} : Answering(e)' = Answering(e)
        /\ \A e \in Events : e = Event(h) => Answering(e)' = Answering(e) \cup {h}
        /\ \A e \in Events : h \notin Answering(e)
    BY <1>1, <1>2 DEF Answering, Event
  <1>6. ASSUME NEW e \in Events, NEW r \in RowsOf(e)
        PROVE  acked[e] + Cardinality(Answering(e)) <= Entries(r.id)
    BY <1>6 DEF Accounted
  <1>7. CASE CommitDuplicate(h)
    <2>1. \A e \in Events : RowsOf(e)' = RowsOf(e)
      BY <1>7 DEF CommitDuplicate, RowsOf
    <2>2. ASSUME NEW e \in Events, NEW r \in RowsOf(e)
          PROVE  acked[e] + Cardinality(Answering(e)') <= Entries(r.id)'
      <3>1. /\ r.id \in RowIds /\ acked[e] \in Nat /\ Entries(r.id) \in Nat
        BY <1>1, <2>2, EntriesTyped DEF RowsOf, TypeOK, EventRow
      <3>2. CASE e # Event(h)
        <4>1. r.id # key
          <5>1. Stored(job[h].id, Event(h))
            BY <1>7 DEF CommitDuplicate, IngestInv, HoldersStored, Holding
          <5> QED
            BY <1>k, <2>2, <3>2, <5>1 DEF Stored, RowsOf, IngestInv, RowsApart
        <4> QED
          BY <1>4, <1>5, <1>6, <3>1, <3>2, <4>1
      <3>3. CASE e = Event(h)
        <4>1. r.id = key
          <5>1. Stored(job[h].id, Event(h))
            BY <1>7 DEF CommitDuplicate, IngestInv, HoldersStored, Holding
          <5> QED
            BY <1>k, <2>2, <3>3, <5>1 DEF Stored, RowsOf, IngestInv, RowsApart
        <4>2. Cardinality(Answering(e)') = Cardinality(Answering(e)) + 1
          BY <1>5, <3>3, AnswerCounts, FS_AddElement
        <4>3. Entries(r.id)' = Entries(r.id) + 1
          BY <1>4, <4>1
        <4> QED
          BY <1>6, <3>1, <4>2, <4>3, AnswerCounts
      <3> QED
        BY <3>2, <3>3
    <2> QED
      BY <1>1, <2>1, <2>2 DEF Accounted
  <1>8. CASE CommitInsert(h)
    <2>1. PICK new : /\ new.id = key /\ new.ev = Event(h)
                     /\ rows' = rows \cup {new}
      BY <1>8, <1>k DEF CommitInsert
    <2>2. \A r \in rows : r.ev # Event(h) /\ r.id # key
      BY <1>8, <1>k DEF CommitInsert, Inserting, IngestInv, InsertsFresh
    <2>3. /\ \A e \in Events \ {Event(h)} : RowsOf(e)' = RowsOf(e)
          /\ \A e \in Events : e = Event(h) => RowsOf(e)' = {new} /\ RowsOf(e) = {}
      BY <2>1, <2>2 DEF RowsOf
    <2>4. ASSUME NEW e \in Events, e # Event(h), NEW r \in RowsOf(e)
          PROVE  acked[e] + Cardinality(Answering(e)') <= Entries(r.id)'
      <3>1. r.id \in RowIds /\ r.id # key
        BY <1>1, <2>2, <2>4 DEF RowsOf, TypeOK, EventRow
      <3> QED
        BY <1>4, <1>5, <1>6, <2>4, <3>1
    <2>5. ASSUME NEW e \in Events, e = Event(h)
          PROVE  acked[e] + Cardinality(Answering(e)') <= Entries(key)'
      <3>1. acked[e] = 0
        BY <2>3, <2>5 DEF Accounted
      <3>2. Answering(e) = {}
        <4>1. \A g \in Handlers : Holding(g) => Event(g) # e
          BY <2>2, <2>5 DEF IngestInv, HoldersStored, Stored
        <4> QED
          BY <4>1 DEF Answering, Holding
      <3>3. Cardinality(Answering(e)') = 1
        <4>1. Answering(e)' = {h}
          BY <1>5, <2>5, <3>2
        <4> QED
          BY <4>1, FS_Singleton
      <3>4. Entries(key) \in Nat /\ Entries(key)' = Entries(key) + 1
        BY <1>1, <1>4, EntriesTyped
      <3> QED
        BY <3>1, <3>3, <3>4
    <2>6. ASSUME NEW e \in Events
          PROVE  /\ RowsOf(e)' = {} => acked[e] = 0
                 /\ \A r \in RowsOf(e)' :
                       acked[e] + Cardinality(Answering(e)') <= Entries(r.id)'
      <3>1. CASE e # Event(h)
        BY <2>3, <2>4, <3>1 DEF Accounted
      <3>2. CASE e = Event(h)
        BY <2>1, <2>3, <2>5, <3>2
      <3> QED
        BY <3>1, <3>2
    <2> QED
      BY <1>1, <2>6 DEF Accounted
  <1> QED
    BY <1>1, <1>7, <1>8 DEF CommitInsert, CommitDuplicate

(* An answer on its way arrives.                                           *)
LEMMA AnswerArrives ==
    ASSUME IngestInv, TypeOK', Accounted, NEW h \in Handlers, Answer(h)
    PROVE  Accounted'
  <1>1. /\ Event(h) \in Events /\ TypeOK /\ UNCHANGED <<rows, trail>>
        /\ job[h].pc = "answer" /\ Stored(job[h].id, Event(h))
    BY AtWork DEF IngestInv, HoldersStored, Holding, Answer
  <1>2. /\ job'[h].pc = "idle" /\ \A g \in Handlers \ {h} : job'[g] = job[g]
        /\ acked' = [acked EXCEPT ![Event(h)] = @ + 1]
    BY <1>1 DEF Answer, Set, TypeOK, IdleHandler
  <1>3. \A e \in Events : RowsOf(e)' = RowsOf(e) /\ \A id \in RowIds : Entries(id)' = Entries(id)
    BY <1>1 DEF RowsOf, Entries
  <1>4. RowsOf(Event(h)) # {}
    BY <1>1 DEF Stored, RowsOf
  <1>5. ASSUME NEW e \in Events
        PROVE  acked'[e] + Cardinality(Answering(e)') = acked[e] + Cardinality(Answering(e))
    <2>1. acked[e] \in Nat
      BY <1>1 DEF TypeOK
    <2>2. CASE e # Event(h)
      <3>1. Answering(e)' = Answering(e)
        BY <1>1, <1>2, <2>2 DEF Answering, Event
      <3>2. acked'[e] = acked[e]
        BY <1>1, <1>2, <2>2 DEF TypeOK
      <3> QED
        BY <3>1, <3>2
    <2>3. CASE e = Event(h)
      <3>1. h \in Answering(e) /\ Answering(e)' = Answering(e) \ {h}
        BY <1>1, <1>2, <2>3 DEF Answering, Event
      <3>2. Cardinality(Answering(e)') = Cardinality(Answering(e)) - 1
        BY <3>1, AnswerCounts, FS_RemoveElement
      <3>3. acked'[e] = acked[e] + 1
        BY <1>1, <1>2, <2>3 DEF TypeOK
      <3> QED
        BY <2>1, <3>2, <3>3, AnswerCounts
    <2> QED
      BY <2>2, <2>3
  <1>6. \A e \in Events : RowsOf(e) = {} => acked'[e] = acked[e]
    BY <1>1, <1>2, <1>4 DEF TypeOK
  <1>7. \A e \in Events : \A r \in RowsOf(e) : r.id \in RowIds
    BY <1>1 DEF RowsOf, TypeOK, EventRow
  <1> QED
    BY <1>3, <1>5, <1>6, <1>7 DEF Accounted

LEMMA AccountedStep == IngestInv /\ Accounted /\ [Next]_vars => Accounted'
  <1> SUFFICES ASSUME IngestInv, Accounted, [Next]_vars PROVE Accounted'
    OBVIOUS
  <1>1. TypeOK /\ TypeOK'
    BY TypeStep DEF IngestInv
  <1>2. ASSUME UNCHANGED <<rows, trail>> PROVE MoreEntries
    <2>1. \A id \in RowIds : Entries(id) \in Nat /\ Entries(id)' = Entries(id)
      BY <1>1, <1>2, EntriesTyped DEF Entries
    <2> QED
      BY <1>2, <2>1 DEF MoreEntries, RowsOf
  <1>3. ASSUME NEW h \in Handlers, NEW j, Set(h, j), j.pc # "answer",
               UNCHANGED <<rows, trail, acked>>
        PROVE  Accounted'
    <2>1. \A e \in Events : Answering(e)' \subseteq Answering(e)
      BY <1>1, <1>3 DEF Set, TypeOK, Answering, Event
    <2> QED
      BY <1>1, <1>2, <1>3, <2>1, FewerAnswers
  <1>4. ASSUME NEW h \in Handlers, HandlerStep(h) \/ Lose(h) PROVE Accounted'
    <2>1. CASE Refuse(h) \/ Lose(h)
      BY <1>3, <2>1 DEF Refuse, Lose, IdleHandler
    <2>2. CASE Accept(h)
      <3>1. [job[h] EXCEPT !.pc = "insert"].pc # "answer"
        BY <1>1 DEF TypeOK, Handler
      <3> QED
        BY <1>3, <2>2, <3>1 DEF Accept
    <2>3. CASE Insert(h)
      <3>1. PICK id \in RowIds : Set(h, [job[h] EXCEPT !.pc = "inserted", !.id = id])
        BY <2>3 DEF Insert
      <3>2. [job[h] EXCEPT !.pc = "inserted", !.id = id].pc # "answer"
        BY <1>1 DEF TypeOK, Handler
      <3>3. UNCHANGED <<rows, trail, acked>>
        BY <2>3 DEF Insert
      <3> QED
        BY <1>3, <3>1, <3>2, <3>3
    <2>4. CASE Conflict(h)
      <3>1. PICK r \in RowsOf(Event(h)) :
              Set(h, [job[h] EXCEPT !.pc = "conflict", !.id = r.id, !.duplicate = TRUE])
        BY <2>4 DEF Conflict
      <3>2. [job[h] EXCEPT !.pc = "conflict", !.id = r.id, !.duplicate = TRUE].pc # "answer"
        BY <1>1 DEF TypeOK, Handler
      <3>3. UNCHANGED <<rows, trail, acked>>
        BY <2>4 DEF Conflict
      <3> QED
        BY <1>3, <3>1, <3>2, <3>3
    <2> QED
      BY <1>1, <1>4, <2>1, <2>2, <2>3, <2>4, EntryCommits, AnswerArrives DEF HandlerStep
  <1>5. ASSUME NEW h \in Handlers, NEW req \in Requests, Deliver(h, req) PROVE Accounted'
    <2>1. [IdleHandler EXCEPT !.pc = "verify", !.req = req].pc # "answer"
      BY DEF IdleHandler
    <2> QED
      BY <1>3, <1>5, <2>1 DEF Deliver
  <1>6. CASE SetSecret
    <2>1. \A e \in Events : Answering(e)' \subseteq Answering(e)
      BY <1>6 DEF SetSecret, Answering, IdleHandler
    <2> QED
      BY <1>1, <1>2, <1>6, <2>1, FewerAnswers DEF SetSecret
  <1>7. ASSUME NEW row \in rows, Handle(row) PROVE Accounted'
    <2> DEFINE new == [row EXCEPT !.state = "handled"]
    <2>1. /\ rows' = (rows \ {row}) \cup {new} /\ UNCHANGED <<trail, job, acked>>
          /\ new.id = row.id /\ new.ev = row.ev
      BY <1>1, <1>7 DEF Handle, TypeOK, EventRow
    <2> HIDE DEF new
    <2>2. \A id \in RowIds : Entries(id) <= Entries(id)'
      <3>1. \A id \in RowIds : Entries(id) \in Nat /\ Entries(id)' = Entries(id)
        BY <1>1, <2>1, EntriesTyped DEF Entries
      <3> QED
        BY <3>1
    <2>3. MoreEntries
      BY <2>1, <2>2 DEF MoreEntries, RowsOf
    <2>4. \A e \in Events : Answering(e)' = Answering(e)
      BY <2>1 DEF Answering, Event
    <2> QED
      BY <1>1, <2>1, <2>3, <2>4, FewerAnswers
  <1>8. CASE UNCHANGED vars
    <2>1. \A e \in Events : Answering(e)' = Answering(e)
      BY <1>8 DEF vars, Answering, Event
    <2> QED
      BY <1>1, <1>2, <1>8, <2>1, FewerAnswers DEF vars
  <1> QED
    BY <1>4, <1>5, <1>6, <1>7, <1>8 DEF Next

(* ingestion.py 93-108: no delivery is answered with a 200 before an audit *)
(* entry of its own is committed, whatever dies and whatever is repeated.  *)
THEOREM AnswersAudited == Spec => []EveryAnswerAudited
  <1>1. Init => Accounted
    BY DEF Init, Accounted, RowsOf
  <1>2. IngestInv /\ Accounted => EveryAnswerAudited
    <2> SUFFICES ASSUME IngestInv, Accounted, NEW e \in Events, NEW r \in RowsOf(e)
                 PROVE  acked[e] <= Entries(r.id)
      BY DEF EveryAnswerAudited, Entries
    <2>1. acked[e] \in Nat /\ Entries(r.id) \in Nat
      BY EntriesTyped DEF IngestInv, TypeOK, RowsOf, EventRow
    <2>2. acked[e] + Cardinality(Answering(e)) <= Entries(r.id)
      BY DEF Accounted
    <2> QED
      BY <2>1, <2>2, AnswerCounts
  <1> QED
    BY <1>1, <1>2, AccountedStep, IngestInvariant, PTL DEF Spec

-----------------------------------------------------------------------------
(* The refinement: what the loop sees is the abstract inbox.               *)

inboxes == [e \in Events |-> InboxOf(e)]

LEMMA InboxInit == Init => inboxes = [e \in Events |-> "unknown"]
  BY DEF Init, inboxes, InboxOf, RowsOf

(* A new row brings its event from unknown to pending, and no other.       *)
LEMMA CommitStores ==
    ASSUME IngestInv, NEW h \in Handlers, CommitInsert(h)
    PROVE  Event(h) \in Events /\ Inbox!Store(Event(h))
  <1> DEFINE new == [id |-> job[h].id, ev |-> Event(h), state |-> "pending"]
  <1>1. Event(h) \in Events /\ Inserting(h) /\ rows' = rows \cup {new}
    BY AtWork DEF CommitInsert, IngestInv, Inserting
  <1>2. RowsOf(Event(h)) = {}
    BY <1>1 DEF IngestInv, InsertsFresh, RowsOf
  <1>3. {r \in rows' : r.ev = Event(h)} = {new} /\ new.state = "pending"
    BY <1>1, <1>2 DEF RowsOf
  <1>4. \A e \in Events : e # Event(h) => {r \in rows' : r.ev = e} = {r \in rows : r.ev = e}
    BY <1>1
  <1>5. \A e \in Events : e # Event(h) => InboxOf(e)' = InboxOf(e)
    BY <1>4 DEF InboxOf, RowsOf
  <1>6. InboxOf(Event(h)) = "unknown"
    BY <1>2 DEF InboxOf
  <1>7. ASSUME NEW e \in Events, e = Event(h) PROVE InboxOf(e)' = "pending"
    BY <1>3, <1>7 DEF InboxOf, RowsOf
  <1>8. inboxes' = [inboxes EXCEPT ![Event(h)] = "pending"]
    BY <1>5, <1>7 DEF inboxes
  <1> QED
    BY <1>1, <1>6, <1>8 DEF Inbox!Store, inboxes

(* A settled row brings its event from pending to handled, since it is the *)
(* only row of it.                                                         *)
LEMMA HandleHandles ==
    ASSUME IngestInv, NEW row \in rows, Handle(row)
    PROVE  row.ev \in Events /\ Inbox!Handle(row.ev)
  <1> DEFINE new == [row EXCEPT !.state = "handled"]
  <1>1. /\ row.ev \in Events /\ row.state = "pending"
        /\ new.ev = row.ev /\ new.state = "handled" /\ rows' = (rows \ {row}) \cup {new}
    BY DEF Handle, IngestInv, TypeOK, EventRow
  <1> HIDE DEF new
  <1>2. {r \in rows : r.ev = row.ev} = {row}
    BY DEF IngestInv, RowsApart
  <1>3. {r \in rows' : r.ev = row.ev} = {new}
    BY <1>1, <1>2
  <1>4. \A e \in Events : e # row.ev => {r \in rows' : r.ev = e} = {r \in rows : r.ev = e}
    BY <1>1
  <1>5. InboxOf(row.ev) = "pending" /\ InboxOf(row.ev)' = "handled"
    BY <1>1, <1>2, <1>3 DEF InboxOf, RowsOf
  <1>6. \A e \in Events : e # row.ev => InboxOf(e)' = InboxOf(e)
    BY <1>4 DEF InboxOf, RowsOf
  <1>7. inboxes' = [inboxes EXCEPT ![row.ev] = "handled"]
    BY <1>5, <1>6 DEF inboxes
  <1> QED
    BY <1>1, <1>5, <1>7 DEF Inbox!Handle, inboxes

LEMMA InboxStep ==
    IngestInv /\ [Next]_vars => [Inbox!Next]_inboxes
  <1> SUFFICES ASSUME IngestInv, [Next]_vars PROVE [Inbox!Next]_inboxes
    OBVIOUS
  <1>1. ASSUME NEW h \in Handlers, CommitInsert(h) PROVE Inbox!Next
    BY <1>1, CommitStores DEF Inbox!Next
  <1>2. ASSUME NEW r \in rows, Handle(r) PROVE Inbox!Next
    BY <1>2, HandleHandles DEF Inbox!Next
  <1>3. UNCHANGED rows => UNCHANGED inboxes
    BY DEF inboxes, InboxOf, RowsOf
  <1>4. CASE UNCHANGED rows
    BY <1>3, <1>4
  <1> QED
    BY <1>1, <1>2, <1>4
    DEF Next, HandlerStep, vars, Deliver, Refuse, Accept, Insert, Conflict, CommitDuplicate,
        Answer, Lose, SetSecret

(* webhooks.py 10-14: to the recovery loop, the table of events is an inbox*)
(* to which each event comes once and from which none returns.             *)
THEOREM InboxRefined == Spec => InboxImplemented
  <1>1. Init => Inbox!Init
    BY InboxInit DEF Inbox!Init, inboxes
  <1>2. IngestInv /\ [Next]_vars => [Inbox!Next]_inboxes
    BY InboxStep
  <1> QED
    BY <1>1, <1>2, IngestInvariant, PTL DEF Spec, InboxImplemented, Inbox!Spec, inboxes
=============================================================================
