----------------------------- MODULE BoundProofs -----------------------------
(***************************************************************************)
(* How many links and outcomes one failed payment can have, whether or not *)
(* the caller hands it to one session at a time. Every session that takes  *)
(* a pending event starts one ladder of it, and a ladder ends in one row:  *)
(* who adds a row to it is its session, which had none before, or a worker *)
(* whose own retry fails with the same commit. A session lost at Razorpay  *)
(* leaves its row behind while the event is still pending for another.     *)
(* Then what a session leaves behind: the executing rows that are nobody's,*)
(* and the row that accounts for an event when it has been handled.        *)
(***************************************************************************)
EXTENDS HistoryProofs

LinkPC == {"link", "linked", "linkerror"}

(* The last row of every ladder of e, but for those that a failed retry    *)
(* has ended; and the ones that may come to an outcome.                    *)
Ladders(e) == {id \in ActionIds :
    /\ actions[id].ev = e /\ actions[id].status # "absent"
    /\ ~(actions[id].type = "retry_charge" /\ actions[id].status = "failed")}

Charges(e) == {id \in Ladders(e) : actions[id].type # "send_payment_link"}

(* The runners that have e, and those of them that have added no row.      *)
Holders(e) == {r \in Runners : job[r].pc # "idle" /\ job[r].ev = e}

Undecided(e) == {r \in Holders(e) : job[r].pc \in {"handed", "history", "decide"}}

LadderCount(e) == Cardinality(Ladders(e)) + Cardinality(Undecided(e))
ChargeCount(e) == Cardinality(Charges(e)) + Cardinality(Holders(e))

Strands == \A e \in Events :
    /\ Charges(e) # {} => Handled(e)
    /\ ChargeCount(e) <= HandOvers
    /\ LadderCount(e) <= HandOvers + faults
    /\ ~Handled(e) => LadderCount(e) <= Cardinality(Holders(e)) + faults

HandedOnce == ExclusiveHandOver => \A q, r \in Runners :
    job[q].pc # "idle" /\ job[r].pc # "idle" /\ job[q].ev = job[r].ev => q = r

LinksAsked ==
    /\ \A a \in Actors : job[a].pc \in LinkPC =>
          actions[job[a].act].type = "send_payment_link"
    /\ \A id \in links :
          actions[id].status # "absent" /\ actions[id].type = "send_payment_link"

OutcomeRows ==
    /\ \A i \in 1 .. Len(outcomes) :
          /\ actions[outcomes[i].act].status = "executed"
          /\ actions[outcomes[i].act].ev = outcomes[i].ev
          /\ actions[outcomes[i].act].type # "send_payment_link"
    /\ \A i, j \in 1 .. Len(outcomes) : outcomes[i].act = outcomes[j].act => i = j

StrandInv ==
    /\ TypeInv /\ Ownership /\ Handling /\ WorkersRetry
    /\ HandedOnce /\ LinksAsked /\ OutcomeRows /\ Strands

-----------------------------------------------------------------------------
(* Counting.                                                               *)

LEMMA Counts ==
    ASSUME NEW e
    PROVE  /\ IsFiniteSet(Ladders(e)) /\ IsFiniteSet(Charges(e))
           /\ IsFiniteSet(Holders(e)) /\ IsFiniteSet(Undecided(e))
           /\ Cardinality(Ladders(e)) \in Nat /\ Cardinality(Charges(e)) \in Nat
           /\ Cardinality(Holders(e)) \in Nat /\ Cardinality(Undecided(e)) \in Nat
  <1>1. /\ Ladders(e) \subseteq ActionIds /\ Charges(e) \subseteq ActionIds
        /\ Holders(e) \subseteq Actors /\ Undecided(e) \subseteq Actors
    BY DEF Ladders, Charges, Holders, Undecided, Actors
  <1>2. /\ IsFiniteSet(Ladders(e)) /\ IsFiniteSet(Charges(e))
        /\ IsFiniteSet(Holders(e)) /\ IsFiniteSet(Undecided(e))
    BY <1>1, Constants, FS_Subset
  <1> QED
    BY <1>2, FS_CardinalityType

(* The same of the next state.                                             *)
LEMMA CountsAfter ==
    ASSUME NEW e
    PROVE  /\ IsFiniteSet(Ladders(e)') /\ IsFiniteSet(Charges(e)')
           /\ IsFiniteSet(Holders(e)') /\ IsFiniteSet(Undecided(e)')
           /\ Cardinality(Ladders(e)') \in Nat /\ Cardinality(Charges(e)') \in Nat
           /\ Cardinality(Holders(e)') \in Nat /\ Cardinality(Undecided(e)') \in Nat
  <1>1. /\ Ladders(e)' \subseteq ActionIds /\ Charges(e)' \subseteq ActionIds
        /\ Holders(e)' \subseteq Actors /\ Undecided(e)' \subseteq Actors
    BY DEF Ladders, Charges, Holders, Undecided, Actors
  <1>2. /\ IsFiniteSet(Ladders(e)') /\ IsFiniteSet(Charges(e)')
        /\ IsFiniteSet(Holders(e)') /\ IsFiniteSet(Undecided(e)')
    BY <1>1, Constants, FS_Subset
  <1> QED
    BY <1>2, FS_CardinalityType

LEMMA AddedAtMostOne ==
    ASSUME NEW S, IsFiniteSet(S), NEW T, NEW y, T \subseteq S \cup {y}
    PROVE  /\ Cardinality(T) <= Cardinality(S) + 1
           /\ Cardinality(T) \in Nat /\ Cardinality(S) \in Nat
  <1> DEFINE U == S \cup {y}
  <1>1. /\ IsFiniteSet(U)
        /\ Cardinality(U) = IF y \in S THEN Cardinality(S) ELSE Cardinality(S) + 1
    BY FS_AddElement
  <1>2. T \in SUBSET U
    OBVIOUS
  <1> HIDE DEF U
  <1>3. IsFiniteSet(T) /\ Cardinality(T) <= Cardinality(U)
    BY <1>1, <1>2, FS_Subset
  <1>4. Cardinality(T) \in Nat /\ Cardinality(S) \in Nat /\ Cardinality(U) \in Nat
    BY <1>1, <1>3, FS_CardinalityType
  <1> QED
    BY <1>1, <1>3, <1>4

LEMMA Exchanged ==
    ASSUME NEW S, IsFiniteSet(S), NEW T, NEW x \in S, NEW y, T \subseteq (S \ {x}) \cup {y}
    PROVE  Cardinality(T) <= Cardinality(S)
  <1> DEFINE R == S \ {x}
  <1>1. IsFiniteSet(R) /\ Cardinality(R) = Cardinality(S) - 1 /\ Cardinality(S) \in Nat
    BY FS_RemoveElement, FS_CardinalityType
  <1>2. T \subseteq R \cup {y}
    OBVIOUS
  <1> HIDE DEF R
  <1>3. /\ Cardinality(T) <= Cardinality(R) + 1
        /\ Cardinality(T) \in Nat /\ Cardinality(R) \in Nat
    BY <1>1, <1>2, AddedAtMostOne
  <1> QED
    BY <1>1, <1>3

(* As many sessions have an event as the caller may hand it to.            *)
LEMMA HoldersBound ==
    ASSUME HandedOnce, NEW e \in Events
    PROVE  Cardinality(Holders(e)) <= HandOvers
  <1>1. CASE ExclusiveHandOver
    <2>1. CASE Holders(e) = {}
      BY <1>1, <2>1, FS_EmptySet DEF HandOvers
    <2>2. CASE Holders(e) # {}
      <3>1. PICK r : r \in Holders(e)
        BY <2>2
      <3>2. Holders(e) = {r}
        BY <1>1, <3>1 DEF HandedOnce, Holders
      <3>3. Cardinality({r}) = 1
        BY FS_Singleton
      <3> QED
        BY <1>1, <3>2, <3>3 DEF HandOvers
    <2> QED
      BY <2>1, <2>2
  <1>2. CASE ~ExclusiveHandOver
    <2>1. IsFiniteSet(Runners) /\ Holders(e) \subseteq Runners
      BY Constants, FS_Subset DEF Actors, Holders
    <2> QED
      BY <1>2, <2>1, FS_Subset DEF HandOvers
  <1> QED
    BY <1>1, <1>2

HoldersBounded == \A e \in Events : Cardinality(Holders(e)) <= HandOvers

LEMMA HoldersBoundAll == HandedOnce => HoldersBounded
  BY HoldersBound DEF HoldersBounded

LEMMA HoldersBoundAfter ==
    ASSUME HandedOnce', NEW e \in Events
    PROVE  Cardinality(Holders(e)') <= HandOvers
  <1>1. HoldersBounded'
    BY HoldersBoundAll, PTL
  <1> QED
    BY <1>1 DEF HoldersBounded, HandOvers

-----------------------------------------------------------------------------
(* What a step does to the ladders of an event.                            *)

(* Rows are exchanged, or nothing happens.                                 *)
Kept(e) ==
    /\ LadderCount(e)' <= LadderCount(e) /\ ChargeCount(e)' <= ChargeCount(e)
    /\ Holders(e)' = Holders(e) /\ faults' = faults
    /\ Handled(e) => Handled(e)'
    /\ Charges(e)' # {} => Handled(e)

(* A runner ends its work.                                                 *)
HandedBack(e) ==
    /\ LadderCount(e)' <= LadderCount(e) /\ ChargeCount(e)' <= ChargeCount(e)
    /\ faults' = faults /\ Handled(e)'

(* A session is lost.                                                      *)
Lost(e) ==
    /\ Ladders(e)' = Ladders(e) /\ Charges(e)' = Charges(e)
    /\ \E r : Holders(e)' = Holders(e) \ {r} /\ Undecided(e)' = Undecided(e) \ {r}
    /\ faults' = faults + 1
    /\ Handled(e)' <=> Handled(e)

(* A runner takes a pending event.                                         *)
Taken(e) ==
    /\ Ladders(e)' = Ladders(e) /\ Charges(e)' = Charges(e)
    /\ \E r : /\ r \notin Holders(e)
              /\ Holders(e)' = Holders(e) \cup {r}
              /\ Undecided(e)' \subseteq Undecided(e) \cup {r}
    /\ ~Handled(e) /\ ~Handled(e)' /\ faults' = faults

StrandMove == \A e \in Events : Kept(e) \/ HandedBack(e) \/ Lost(e) \/ Taken(e)

LEMMA StrandsKept ==
    ASSUME TypeInv, Strands, HandedOnce, HandedOnce', StrandMove
    PROVE  Strands'
  <1> SUFFICES ASSUME NEW e \in Events
               PROVE  /\ Charges(e)' # {} => Handled(e)'
                      /\ ChargeCount(e)' <= HandOvers
                      /\ LadderCount(e)' <= HandOvers + faults'
                      /\ ~Handled(e)' =>
                            LadderCount(e)' <= Cardinality(Holders(e)') + faults'
    BY DEF Strands, HandOvers
  <1>1. /\ Charges(e) # {} => Handled(e)
        /\ ChargeCount(e) <= HandOvers
        /\ LadderCount(e) <= HandOvers + faults
        /\ ~Handled(e) => LadderCount(e) <= Cardinality(Holders(e)) + faults
    BY DEF Strands
  <1>2. /\ faults \in Nat /\ HandOvers \in Nat
        /\ IsFiniteSet(Holders(e)) /\ IsFiniteSet(Undecided(e))
        /\ IsFiniteSet(Holders(e)') /\ IsFiniteSet(Undecided(e)')
        /\ Cardinality(Ladders(e)) \in Nat /\ Cardinality(Charges(e)) \in Nat
        /\ Cardinality(Holders(e)) \in Nat /\ Cardinality(Undecided(e)) \in Nat
        /\ Cardinality(Ladders(e)') \in Nat /\ Cardinality(Charges(e)') \in Nat
        /\ Cardinality(Holders(e)') \in Nat /\ Cardinality(Undecided(e)') \in Nat
    <2>1. HandOvers \in Nat
      BY Constants, FS_Subset, FS_CardinalityType DEF HandOvers, Actors
    <2> QED
      BY <2>1, TypeParts, Counts, CountsAfter DEF RestTyped
  <1>3. /\ LadderCount(e) \in Nat /\ ChargeCount(e) \in Nat
        /\ LadderCount(e)' \in Nat /\ ChargeCount(e)' \in Nat
    BY <1>2 DEF LadderCount, ChargeCount
  <1>4. CASE Kept(e)
    BY <1>1, <1>2, <1>3, <1>4 DEF Kept
  <1>5. CASE HandedBack(e)
    BY <1>1, <1>2, <1>3, <1>5 DEF HandedBack
  <1>6. CASE Lost(e)
    <2>1. PICK r : Holders(e)' = Holders(e) \ {r} /\ Undecided(e)' = Undecided(e) \ {r}
      BY <1>6 DEF Lost
    <2>2. /\ Cardinality(Undecided(e)') <= Cardinality(Undecided(e))
          /\ Cardinality(Holders(e)') <= Cardinality(Holders(e))
          /\ Cardinality(Holders(e)) <= Cardinality(Holders(e)') + 1
      <3>1. CASE r \in Holders(e)
        BY <1>2, <2>1, <3>1, FS_RemoveElement, FS_Subset
      <3>2. CASE r \notin Holders(e)
        BY <1>2, <2>1, <3>2, FS_Subset
      <3> QED
        BY <3>1, <3>2
    <2>3. LadderCount(e)' <= LadderCount(e) /\ ChargeCount(e)' <= ChargeCount(e)
      BY <1>2, <1>6, <2>2 DEF Lost, LadderCount, ChargeCount
    <2> QED
      BY <1>1, <1>2, <1>3, <1>6, <2>2, <2>3 DEF Lost
  <1>7. CASE Taken(e)
    <2>1. PICK r : /\ r \notin Holders(e) /\ Holders(e)' = Holders(e) \cup {r}
                   /\ Undecided(e)' \subseteq Undecided(e) \cup {r}
      BY <1>7 DEF Taken
    <2>2. /\ Cardinality(Holders(e)') = Cardinality(Holders(e)) + 1
          /\ Cardinality(Undecided(e)') <= Cardinality(Undecided(e)) + 1
      BY <1>2, <2>1, FS_AddElement, AddedAtMostOne
    <2>3. Cardinality(Holders(e)') <= HandOvers
      BY HoldersBoundAfter
    <2>4. Charges(e)' = {} /\ Cardinality(Charges(e)') = 0
      BY <1>1, <1>7, FS_EmptySet DEF Taken
    <2>5. LadderCount(e)' <= LadderCount(e) + 1 /\ ChargeCount(e)' = Cardinality(Holders(e)')
      BY <1>2, <1>7, <2>2, <2>4 DEF Taken, LadderCount, ChargeCount
    <2> QED
      BY <1>1, <1>2, <1>3, <1>7, <2>2, <2>3, <2>4, <2>5 DEF Taken
  <1> QED
    BY <1>4, <1>5, <1>6, <1>7 DEF StrandMove

-----------------------------------------------------------------------------
(* What a step does to the rows and to the holders.                        *)

LEMMA ThinnerLadders ==
    ASSUME Strands, NEW e \in Events,
           Ladders(e)' \subseteq Ladders(e), Charges(e)' \subseteq Charges(e),
           Holders(e)' = Holders(e), Undecided(e)' \subseteq Undecided(e),
           faults' = faults, Handled(e) => Handled(e)'
    PROVE  Kept(e)
  <1>1. /\ Cardinality(Ladders(e)') <= Cardinality(Ladders(e))
        /\ Cardinality(Charges(e)') <= Cardinality(Charges(e))
        /\ Cardinality(Undecided(e)') <= Cardinality(Undecided(e))
    BY Counts, FS_Subset
  <1>2. /\ Cardinality(Ladders(e)) \in Nat /\ Cardinality(Charges(e)) \in Nat
        /\ Cardinality(Holders(e)) \in Nat /\ Cardinality(Undecided(e)) \in Nat
        /\ Cardinality(Ladders(e)') \in Nat /\ Cardinality(Charges(e)') \in Nat
        /\ Cardinality(Undecided(e)') \in Nat
    BY Counts, CountsAfter
  <1>3. LadderCount(e)' <= LadderCount(e) /\ ChargeCount(e)' <= ChargeCount(e)
    BY <1>1, <1>2 DEF LadderCount, ChargeCount
  <1>4. Charges(e)' # {} => Handled(e)
    BY DEF Strands
  <1> QED
    BY <1>3, <1>4 DEF Kept

(* Steps of workers, and steps between which a runner keeps its event.     *)
LEMMA SameHolders ==
    ASSUME \A r \in Runners : \/ job'[r] = job[r]
                              \/ /\ job[r].pc # "idle" /\ job'[r].pc # "idle"
                                 /\ job'[r].ev = job[r].ev
                                 /\ job'[r].pc \in {"handed", "history", "decide"}
                                       => job[r].pc \in {"handed", "history", "decide"}
    PROVE  \A e \in Events : Holders(e)' = Holders(e) /\ Undecided(e)' \subseteq Undecided(e)
  BY DEF Holders, Undecided

LEMMA FinishHolders ==
    ASSUME TypeInv, Ownership, NEW a \in Actors, Finish(a), NEW e \in Events
    PROVE  /\ Holders(e)' = Holders(e) \ {a}
           /\ Undecided(e)' = Undecided(e) \ {a}
  <1>1. \A b \in Actors \ {a} : job'[b] = job[b]
    BY FinishLeaves
  <1>2. a \in Runners => job'[a].pc = "idle"
    BY TypeParts DEF Ownership, RunnersClaimNone, Finish, Set, IdleJob, JobsTyped
  <1> QED
    BY <1>1, <1>2 DEF Holders, Undecided, Actors

(* A result is written: no row is added to a ladder.                       *)
LEMMA SettleLadders ==
    ASSUME TypeInv, Ownership, NEW a \in Actors, AtHand(a) = {job[a].act}, job[a].pc # "claim",
           NEW status \in ActionStatus, NEW exec \in Time,
           NEW entries, entries \subseteq AuditAction, NEW response \in {None, "answer"},
           actions' = Settle(a, status, exec, entries, response)
    PROVE  /\ Keeps
           /\ \A e \in Events : /\ Ladders(e)' \subseteq Ladders(e)
                                /\ Charges(e)' \subseteq Charges(e)
           /\ job[a].act \in ActionIds /\ actions[job[a].act].status = "executing"
           /\ actions'[job[a].act].status = status
           /\ actions'[job[a].act].type = actions[job[a].act].type
           /\ actions'[job[a].act].ev = actions[job[a].act].ev
  <1>1. /\ job[a].act \in ActionIds /\ actions[job[a].act].status = "executing"
    BY OwnedRows DEF Ownership, OwnedExecuting, Owned
  <1>2. /\ actions'[job[a].act].status = status
        /\ \A id \in ActionIds \ {job[a].act} : actions'[id] = actions[id]
        /\ SameSubject(actions')
    BY SettleSteps
  <1>3. \A e \in Events : Ladders(e)' \subseteq Ladders(e) /\ Charges(e)' \subseteq Charges(e)
    BY <1>1, <1>2 DEF SameSubject, Ladders, Charges
  <1> QED
    BY <1>1, <1>2, <1>3 DEF SameSubject, Keeps

(* A decision adds its row, and ends the ladder row of a worker's retry.   *)
LEMMA InsertLadders ==
    ASSUME StrandInv, NEW a \in Actors, job[a].pc = "decide", NEW id \in ActionIds,
           NEW status \in ActionStatus, NEW sched \in Time, NEW exec \in Time,
           NEW entries, entries \subseteq AuditAction,
           Insert(a, id, NewRow(a, status, sched, exec, entries)),
           NEW e \in Events, e = job[a].ev
    PROVE  /\ Keeps
           /\ actions[id].status = "absent"
           /\ actions'[id].status = status /\ actions'[id].ev = e
           /\ actions'[id].type = Choice(a).type
           /\ \A f \in Events \ {e} : /\ Ladders(f)' \subseteq Ladders(f)
                                      /\ Charges(f)' \subseteq Charges(f)
           /\ Ladders(e)' \subseteq Ladders(e) \cup {id}
           /\ Charges(e)' \subseteq Charges(e) \cup {id}
           /\ Choice(a).type = "send_payment_link" => Charges(e)' \subseteq Charges(e)
           /\ a \in Workers => /\ job[a].act \in Charges(e)
                               /\ job[a].act \notin Ladders(e)'
  <1>1. /\ actions[id].status = "absent"
        /\ actions'[id] = NewRow(a, status, sched, exec, entries)
        /\ a \in Workers => actions'[job[a].act].status = "failed"
        /\ \A y \in ActionIds \ {id} :
              /\ actions'[y].type = actions[y].type /\ actions'[y].ev = actions[y].ev
              /\ y # job[a].act \/ a \notin Workers => actions'[y] = actions[y]
    BY InsertSteps DEF StrandInv
  <1>2. /\ actions'[id].ev = e /\ actions'[id].type = Choice(a).type
        /\ actions'[id].status = status
    BY <1>1 DEF NewRow
  <1>3. a \in Workers =>
           /\ job[a].act \in ActionIds /\ job[a].act # id
           /\ actions[job[a].act].status = "executing"
           /\ actions[job[a].act].type = "retry_charge" /\ actions[job[a].act].ev = e
    <2> SUFFICES ASSUME a \in Workers
                 PROVE  /\ job[a].act \in ActionIds /\ job[a].act # id
                        /\ actions[job[a].act].status = "executing"
                        /\ actions[job[a].act].type = "retry_charge"
                        /\ actions[job[a].act].ev = e
      OBVIOUS
    <2>1. AtHand(a) = {job[a].act} /\ job[a].act \in Owned(a)
      BY DEF AtHand, Owned
    <2>2. job[a].act \in ActionIds /\ actions[job[a].act].status = "executing"
      BY <2>1, OwnedRows DEF StrandInv, Ownership, OwnedExecuting
    <2>3. actions[job[a].act].type = "retry_charge" /\ actions[job[a].act].ev = e
      BY DEF StrandInv, WorkersRetry, RetryPC
    <2> QED
      BY <1>1, <2>2, <2>3
  <1>4. \A y \in ActionIds \ {id} : y = job[a].act /\ a \in Workers =>
           actions'[y].type = "retry_charge" /\ actions'[y].status = "failed"
    BY <1>1, <1>3
  <1>5. \A f \in Events : /\ \A y \in Ladders(f)' : y # id => y \in Ladders(f)
                          /\ \A y \in Charges(f)' : y # id => y \in Charges(f)
    BY <1>1, <1>4 DEF Ladders, Charges
  <1>6. \A f \in Events \ {e} : id \notin Ladders(f)' /\ id \notin Charges(f)'
    BY <1>2 DEF Ladders, Charges
  <1>7. Choice(a).type = "send_payment_link" => id \notin Charges(e)'
    BY <1>2 DEF Charges
  <1>8. a \in Workers => job[a].act \in Charges(e) /\ job[a].act \notin Ladders(e)'
    BY <1>3, <1>4 DEF Charges, Ladders
  <1>9. Keeps
    BY <1>1 DEF Keeps
  <1> QED
    BY <1>1, <1>2, <1>5, <1>6, <1>7, <1>8, <1>9

-----------------------------------------------------------------------------
(* How a decision moves the strands.                                       *)

(* A worker's row takes the place of its retry.                            *)
LEMMA WorkerInserts ==
    ASSUME StrandInv, NEW w \in Workers, NEW id, NEW e \in Events, faults' = faults,
           UNCHANGED events,
           \A f \in Events : Holders(f)' = Holders(f) /\ Undecided(f)' = Undecided(f),
           \A f \in Events \ {e} : /\ Ladders(f)' \subseteq Ladders(f)
                                   /\ Charges(f)' \subseteq Charges(f),
           Ladders(e)' \subseteq Ladders(e) \cup {id},
           Charges(e)' \subseteq Charges(e) \cup {id},
           job[w].act \in Charges(e), job[w].act \notin Ladders(e)'
    PROVE  StrandMove
  <1>1. \A f \in Events : Handled(f)' <=> Handled(f)
    BY DEF Handled
  <1>2. \A f \in Events \ {e} : Kept(f)
    BY <1>1, ThinnerLadders DEF StrandInv
  <1>3. /\ job[w].act \in Ladders(e) /\ job[w].act \notin Charges(e)'
        /\ Ladders(e)' \subseteq (Ladders(e) \ {job[w].act}) \cup {id}
        /\ Charges(e)' \subseteq (Charges(e) \ {job[w].act}) \cup {id}
    BY DEF Charges
  <1>4. /\ Cardinality(Ladders(e)') <= Cardinality(Ladders(e))
        /\ Cardinality(Charges(e)') <= Cardinality(Charges(e))
    BY <1>3, Counts, Exchanged
  <1>5. /\ Cardinality(Ladders(e)) \in Nat /\ Cardinality(Charges(e)) \in Nat
        /\ Cardinality(Holders(e)) \in Nat /\ Cardinality(Undecided(e)) \in Nat
        /\ Cardinality(Ladders(e)') \in Nat /\ Cardinality(Charges(e)') \in Nat
    BY Counts, CountsAfter
  <1>6. LadderCount(e)' <= LadderCount(e) /\ ChargeCount(e)' <= ChargeCount(e)
    BY <1>4, <1>5 DEF LadderCount, ChargeCount
  <1>7. Handled(e)
    BY DEF StrandInv, Strands
  <1>8. Kept(e)
    BY <1>1, <1>6, <1>7 DEF Kept
  <1> QED
    BY <1>2, <1>8 DEF StrandMove

(* A runner's row takes the place of the runner, which ends its work.      *)
LEMMA RunnerInserts ==
    ASSUME StrandInv, NEW r \in Runners, job[r].pc = "decide", NEW id,
           NEW e \in Events, e = job[r].ev, faults' = faults,
           \A f \in Events : Holders(f)' = Holders(f) \ {r} /\ Undecided(f)' = Undecided(f) \ {r},
           \A f \in Events \ {e} : /\ Ladders(f)' \subseteq Ladders(f)
                                   /\ Charges(f)' \subseteq Charges(f)
                                   /\ Handled(f) => Handled(f)',
           Handled(e)',
           Ladders(e)' \subseteq Ladders(e) \cup {id},
           Charges(e)' \subseteq Charges(e) \cup {id}
    PROVE  StrandMove
  <1>1. /\ r \in Holders(e) /\ r \in Undecided(e)
        /\ \A f \in Events \ {e} : r \notin Holders(f) /\ r \notin Undecided(f)
    BY DEF Holders, Undecided
  <1>2. ASSUME NEW f \in Events \ {e} PROVE Kept(f)
    <2>1. f \in Events /\ r \notin Holders(f) /\ r \notin Undecided(f)
      BY <1>1
    <2>2. Holders(f)' = Holders(f) \ {r} /\ Undecided(f)' = Undecided(f) \ {r}
      BY <2>1
    <2>3. Holders(f)' = Holders(f) /\ Undecided(f)' \subseteq Undecided(f)
      BY <2>1, <2>2
    <2> QED
      BY <2>1, <2>3, ThinnerLadders DEF StrandInv
  <1>3. /\ Cardinality(Ladders(e)') <= Cardinality(Ladders(e)) + 1
        /\ Cardinality(Charges(e)') <= Cardinality(Charges(e)) + 1
    BY Counts, AddedAtMostOne
  <1>4. /\ Cardinality(Holders(e)') = Cardinality(Holders(e)) - 1
        /\ Cardinality(Undecided(e)') = Cardinality(Undecided(e)) - 1
    BY <1>1, Counts, FS_RemoveElement
  <1>5. /\ Cardinality(Ladders(e)) \in Nat /\ Cardinality(Charges(e)) \in Nat
        /\ Cardinality(Holders(e)) \in Nat /\ Cardinality(Undecided(e)) \in Nat
        /\ Cardinality(Ladders(e)') \in Nat /\ Cardinality(Charges(e)') \in Nat
    BY Counts, CountsAfter
  <1>6. LadderCount(e)' <= LadderCount(e) /\ ChargeCount(e)' <= ChargeCount(e)
    BY <1>3, <1>4, <1>5 DEF LadderCount, ChargeCount
  <1>7. HandedBack(e)
    BY <1>6 DEF HandedBack
  <1> QED
    BY <1>2, <1>7 DEF StrandMove

(* A runner that requests a link has a row, and goes on.                   *)
LEMMA RunnerRequests ==
    ASSUME StrandInv, NEW r \in Runners, job[r].pc = "decide", NEW id,
           NEW e \in Events, e = job[r].ev, faults' = faults, UNCHANGED events,
           \A f \in Events : Holders(f)' = Holders(f) /\ Undecided(f)' = Undecided(f) \ {r},
           \A f \in Events : Charges(f)' \subseteq Charges(f),
           \A f \in Events \ {e} : Ladders(f)' \subseteq Ladders(f),
           Ladders(e)' \subseteq Ladders(e) \cup {id}
    PROVE  StrandMove
  <1>1. \A f \in Events : Handled(f)' <=> Handled(f)
    BY DEF Handled
  <1>2. \A f \in Events \ {e} : Kept(f)
    BY <1>1, ThinnerLadders DEF StrandInv
  <1>3. r \in Undecided(e)
    BY DEF Holders, Undecided
  <1>4. /\ Cardinality(Ladders(e)') <= Cardinality(Ladders(e)) + 1
        /\ Cardinality(Charges(e)') <= Cardinality(Charges(e))
        /\ Cardinality(Undecided(e)') = Cardinality(Undecided(e)) - 1
    <2>1. Cardinality(Ladders(e)') <= Cardinality(Ladders(e)) + 1
      BY Counts, AddedAtMostOne
    <2>2. Cardinality(Charges(e)') <= Cardinality(Charges(e))
      BY Counts, FS_Subset
    <2>3. Undecided(e)' = Undecided(e) \ {r}
      OBVIOUS
    <2>4. IsFiniteSet(Undecided(e))
      BY Counts
    <2>5. Cardinality(Undecided(e) \ {r}) = Cardinality(Undecided(e)) - 1
      BY <1>3, <2>4, FS_RemoveElement
    <2> QED
      BY <2>1, <2>2, <2>3, <2>5
  <1>5. /\ Cardinality(Ladders(e)) \in Nat /\ Cardinality(Charges(e)) \in Nat
        /\ Cardinality(Holders(e)) \in Nat /\ Cardinality(Undecided(e)) \in Nat
        /\ Cardinality(Ladders(e)') \in Nat /\ Cardinality(Charges(e)') \in Nat
    BY Counts, CountsAfter
  <1>6. LadderCount(e)' <= LadderCount(e) /\ ChargeCount(e)' <= ChargeCount(e)
    BY <1>4, <1>5 DEF LadderCount, ChargeCount
  <1>7. Charges(e)' # {} => Handled(e)
    BY DEF StrandInv, Strands
  <1>8. Kept(e)
    BY <1>1, <1>6, <1>7 DEF Kept
  <1> QED
    BY <1>2, <1>8 DEF StrandMove

-----------------------------------------------------------------------------
(* What a session's step does to links, outcomes and sessions.             *)

LinkMove(a) ==
    /\ job'[a].pc \in LinkPC =>
          \/ job[a].pc \in LinkPC /\ job'[a].act = job[a].act
          \/ /\ job'[a].act \in ActionIds
             /\ actions'[job'[a].act].type = "send_payment_link"
    /\ links' \subseteq links \cup (IF job[a].pc = "link" THEN {job[a].act} ELSE {})

OutcomeRowMove ==
    \/ outcomes' = outcomes
    \/ \E o \in OutcomeRow :
          /\ outcomes' = Append(outcomes, o)
          /\ actions[o.act].status # "executed" /\ actions'[o.act].status = "executed"
          /\ actions'[o.act].ev = o.ev /\ actions'[o.act].type # "send_payment_link"

(* No runner takes an event.                                               *)
HandsOn == \A q \in Runners : job'[q].pc # "idle" =>
    job[q].pc # "idle" /\ job'[q].ev = job[q].ev

SessionMove(a) == Keeps /\ WorkMove(a) /\ LinkMove(a) /\ OutcomeRowMove /\ StrandMove

LEMMA LinksAskedKept ==
    ASSUME TypeInv, LinksAsked, Keeps, RowsStay, NEW a \in Actors, WorkMove(a), LinkMove(a)
    PROVE  LinksAsked'
  <1>1. \A b \in Actors : job[b].pc \in LinkPC =>
           /\ job[b].act \in ActionIds /\ actions[job[b].act].status # "absent"
           /\ actions[job[b].act].type = "send_payment_link"
    BY TypeParts DEF JobsTyped, LinkPC, RowsExist, LinksAsked
  <1>2. ASSUME NEW b \in Actors, job'[b].pc \in LinkPC
        PROVE  actions'[job'[b].act].type = "send_payment_link"
    BY <1>1, <1>2 DEF WorkMove, LinkMove, Keeps
  <1>3. ASSUME NEW id \in links'
        PROVE  actions'[id].status # "absent" /\ actions'[id].type = "send_payment_link"
    <2>1. /\ id \in ActionIds /\ actions[id].status # "absent"
          /\ actions[id].type = "send_payment_link"
      BY <1>1, <1>3, TypeParts DEF LinkMove, LinksAsked, LinkPC, RestTyped
    <2> QED
      BY <2>1 DEF Keeps, RowsStay
  <1> QED
    BY <1>2, <1>3 DEF LinksAsked

LEMMA OutcomeRowsKept ==
    ASSUME TypeInv, OutcomeRows, FinalRows, OutcomeRowMove
    PROVE  OutcomeRows'
  <1>1. outcomes \in Seq(OutcomeRow)
    BY TypeParts DEF RestTyped
  <1>2. ASSUME NEW i \in 1 .. Len(outcomes)
        PROVE  actions'[outcomes[i].act] = actions[outcomes[i].act]
    <2>1. outcomes[i] \in OutcomeRow
      BY <1>1
    <2>2. outcomes[i].act \in ActionIds
      BY <2>1 DEF OutcomeRow
    <2>3. actions[outcomes[i].act].status = "executed"
      BY DEF OutcomeRows
    <2> QED
      BY <2>2, <2>3 DEF FinalRows, Settlements
  <1>3. CASE outcomes' = outcomes
    BY <1>2, <1>3 DEF OutcomeRows
  <1>4. ASSUME NEW o \in OutcomeRow, outcomes' = Append(outcomes, o),
               actions[o.act].status # "executed", actions'[o.act].status = "executed",
               actions'[o.act].ev = o.ev, actions'[o.act].type # "send_payment_link"
        PROVE  OutcomeRows'
    <2>1. /\ Len(outcomes') = Len(outcomes) + 1 /\ Len(outcomes) \in Nat
          /\ \A i \in 1 .. Len(outcomes) : outcomes'[i] = outcomes[i]
          /\ outcomes'[Len(outcomes) + 1] = o
      BY <1>1, <1>4
    <2>2. \A i \in 1 .. Len(outcomes') : i \in 1 .. Len(outcomes) \/ i = Len(outcomes) + 1
      BY <2>1
    <2>3. \A i \in 1 .. Len(outcomes) : outcomes[i].act # o.act
      BY <1>4 DEF OutcomeRows
    <2>4. ASSUME NEW i \in 1 .. Len(outcomes')
          PROVE  /\ actions'[outcomes'[i].act].status = "executed"
                 /\ actions'[outcomes'[i].act].ev = outcomes'[i].ev
                 /\ actions'[outcomes'[i].act].type # "send_payment_link"
      BY <1>2, <1>4, <2>1, <2>2 DEF OutcomeRows
    <2>5. ASSUME NEW i \in 1 .. Len(outcomes'), NEW j \in 1 .. Len(outcomes'),
                 outcomes'[i].act = outcomes'[j].act
          PROVE  i = j
      BY <2>1, <2>2, <2>3, <2>5 DEF OutcomeRows
    <2> QED
      BY <2>4, <2>5 DEF OutcomeRows
  <1> QED
    BY <1>3, <1>4 DEF OutcomeRowMove

LEMMA HandsOnKeeps ==
    ASSUME HandedOnce, HandsOn
    PROVE  HandedOnce'
  BY DEF HandedOnce, HandsOn

-----------------------------------------------------------------------------
(* The steps of the ladder.                                                *)

LEMMA LadderWork ==
    ASSUME TypeInv, Ownership, NEW a \in Actors, LadderStep(a)
    PROVE  WorkMove(a) /\ HandsOn
  <1>1. job \in [Actors -> Job]
    BY TypeParts DEF JobsTyped
  <1>2. CASE /\ UNCHANGED events /\ job'[a].ev = job[a].ev
             /\ job'[a].queue = job[a].queue
             /\ job'[a].pc \in RetryPC =>
                   job[a].pc \in RetryPC /\ job'[a].act = job[a].act
             /\ \A b \in Actors \ {a} : job'[b] = job[b]
    BY <1>1, <1>2, LadderEnds DEF HandsOn, WorkMove, Actors
  <1>3. CASE MarkHandled(a) /\ Finish(a)
    <2>1. /\ job'[a].pc \in {"idle", "next"} /\ job'[a].queue = job[a].queue
          /\ \A b \in Actors \ {a} : job'[b] = job[b]
      BY <1>1, <1>3, FinishJob
    <2>2. a \in Runners => job'[a].pc = "idle"
      BY <1>1, <1>3 DEF Ownership, RunnersClaimNone, Finish, Set, IdleJob
    <2> QED
      BY <2>1, <2>2 DEF WorkMove, HandsOn, RetryPC, Actors
  <1> QED
    BY <1>2, <1>3, LadderEnds

(* A runner's event is handled when it ends; a worker's is already.        *)
LEMMA MarksHandled ==
    ASSUME TypeInv, Handling, NEW a \in Actors, MarkHandled(a), job[a].pc # "idle"
    PROVE  /\ \A e \in Events : Handled(e) => Handled(e)'
           /\ a \in Runners => \A e \in Events : e = job[a].ev => Handled(e)'
  <1>1. /\ a \notin Runners => events' = events
        /\ a \in Runners /\ job[a].ev \in Events => events'[job[a].ev].state = "processed"
        /\ \A e \in Events \ {job[a].ev} : events'[e] = events[e]
    BY TypeParts, MarkedRow
  <1> QED
    BY <1>1 DEF Handled

LEMMA DecisionEnds ==
    ASSUME StrandInv, NEW a \in Actors, job[a].pc = "decide", NEW id \in ActionIds,
           NEW status \in ActionStatus, NEW sched \in Time, NEW exec \in Time,
           NEW entries, entries \subseteq AuditAction,
           Insert(a, id, NewRow(a, status, sched, exec, entries)),
           MarkHandled(a), Finish(a), faults' = faults
    PROVE  Keeps /\ StrandMove
  <1>1. /\ TypeInv /\ Ownership /\ Handling /\ JobsTyped /\ (a \in Workers <=> a \notin Runners)
    BY TypeParts, ExecutorAssumption DEF StrandInv, Actors
  <1>2. PICK e \in Events : e = job[a].ev
    BY <1>1 DEF JobsTyped
  <1>3. /\ Keeps
        /\ \A f \in Events \ {e} : /\ Ladders(f)' \subseteq Ladders(f)
                                   /\ Charges(f)' \subseteq Charges(f)
        /\ Ladders(e)' \subseteq Ladders(e) \cup {id}
        /\ Charges(e)' \subseteq Charges(e) \cup {id}
        /\ a \in Workers => /\ job[a].act \in Charges(e)
                            /\ job[a].act \notin Ladders(e)'
    <2>1. e = job[a].ev
      BY <1>2
    <2> QED
      BY <2>1, InsertLadders, SMTT(40)
  <1>4. \A f \in Events : /\ Holders(f)' = Holders(f) \ {a}
                          /\ Undecided(f)' = Undecided(f) \ {a}
    BY <1>1, FinishHolders
  <1>5. /\ \A f \in Events : Handled(f) => Handled(f)'
        /\ a \in Runners => Handled(e)'
    BY <1>1, <1>2, MarksHandled
  <1>6. CASE a \in Workers
    <2>1. \A f \in Events : Holders(f)' = Holders(f) /\ Undecided(f)' = Undecided(f)
      BY <1>1, <1>4, <1>6 DEF Holders, Undecided
    <2>2. UNCHANGED events
      BY <1>1, <1>6 DEF MarkHandled
    <2>3. StrandMove
      BY <1>3, <1>6, <2>1, <2>2, WorkerInserts
    <2> QED
      BY <1>3, <2>3
  <1>7. CASE a \notin Workers
    <2>1. StrandMove
      BY <1>1, <1>2, <1>3, <1>4, <1>5, <1>7, RunnerInserts
    <2> QED
      BY <1>3, <2>1
  <1> QED
    BY <1>6, <1>7

(* A runner ends its work and adds no row.                                 *)
LEMMA HandsBack ==
    ASSUME NEW e \in Events, NEW a, faults' = faults, Handled(e)',
           Ladders(e)' \subseteq Ladders(e), Charges(e)' \subseteq Charges(e),
           Holders(e)' = Holders(e) \ {a}, Undecided(e)' = Undecided(e) \ {a}
    PROVE  HandedBack(e)
  <1>1. /\ Cardinality(Ladders(e)') <= Cardinality(Ladders(e))
        /\ Cardinality(Charges(e)') <= Cardinality(Charges(e))
        /\ Cardinality(Holders(e)') <= Cardinality(Holders(e))
        /\ Cardinality(Undecided(e)') <= Cardinality(Undecided(e))
    BY Counts, FS_Subset
  <1>2. /\ Cardinality(Ladders(e)) \in Nat /\ Cardinality(Charges(e)) \in Nat
        /\ Cardinality(Holders(e)) \in Nat /\ Cardinality(Undecided(e)) \in Nat
        /\ Cardinality(Ladders(e)') \in Nat /\ Cardinality(Charges(e)') \in Nat
        /\ Cardinality(Holders(e)') \in Nat /\ Cardinality(Undecided(e)') \in Nat
    BY Counts, CountsAfter
  <1> QED
    BY <1>1, <1>2 DEF HandedBack, LadderCount, ChargeCount

(* A session is back from Razorpay and ends its work.                      *)
LEMMA CallEnds ==
    ASSUME StrandInv, NEW a \in Actors, job[a].pc \in LinkPC,
           \A e \in Events : /\ Ladders(e)' \subseteq Ladders(e)
                             /\ Charges(e)' \subseteq Charges(e),
           MarkHandled(a), Finish(a), faults' = faults
    PROVE  StrandMove
  <1>1. /\ TypeInv /\ Ownership /\ Handling /\ Strands /\ job[a].pc # "idle"
        /\ job[a].pc \notin {"handed", "history", "decide"}
    BY DEF StrandInv, LinkPC
  <1>2. \A e \in Events : /\ Holders(e)' = Holders(e) \ {a}
                          /\ Undecided(e)' = Undecided(e) \ {a}
    BY <1>1, FinishHolders
  <1>3. \A e \in Events : a \notin Undecided(e)
    BY <1>1 DEF Undecided
  <1>4. /\ \A e \in Events : Handled(e) => Handled(e)'
        /\ a \in Runners => \A e \in Events : e = job[a].ev => Handled(e)'
    BY <1>1, MarksHandled
  <1>5. ASSUME NEW e \in Events PROVE Kept(e) \/ HandedBack(e)
    <2>1. CASE a \notin Holders(e)
      <3>1. Holders(e)' = Holders(e) /\ Undecided(e)' \subseteq Undecided(e)
        BY <1>2, <2>1
      <3> QED
        BY <1>1, <1>4, <3>1, ThinnerLadders
    <2>2. CASE a \in Holders(e)
      <3>1. Handled(e)'
        BY <1>4, <2>2 DEF Holders
      <3> QED
        BY <1>2, <3>1, HandsBack
    <2> QED
      BY <2>1, <2>2
  <1> QED
    BY <1>5 DEF StrandMove

(* A step that writes no row, while every runner keeps its event.          *)
LEMMA NoRowWritten ==
    ASSUME Strands, UNCHANGED actions, faults' = faults,
           \A e \in Events : Handled(e) => Handled(e)',
           \A e \in Events : Holders(e)' = Holders(e) /\ Undecided(e)' \subseteq Undecided(e)
    PROVE  Keeps /\ StrandMove
  <1>1. \A e \in Events : Ladders(e)' = Ladders(e) /\ Charges(e)' = Charges(e)
    BY DEF Ladders, Charges
  <1>2. \A e \in Events : Kept(e)
    BY <1>1, ThinnerLadders
  <1> QED
    BY <1>2 DEF Keeps, StrandMove

(* What the decisions write is in the domains of the rows.                 *)
LEMMA Written ==
    ASSUME TypeInv, NEW a \in Actors
    PROVE  /\ JobsTyped /\ job[a] \in Job /\ job[a].n \in Nat
           /\ job[a].cat \in DiagnosisCategory
           /\ None \in Time /\ job[a].now \in Time
           /\ job[a].now + Choice(a).delay \in Time
           /\ {"planned", "executed", "failed", "skipped", "scheduled", "executing"}
                 \subseteq ActionStatus
           /\ {} \subseteq AuditAction
           /\ {"razorpay.payment_link.created"} \subseteq AuditAction
           /\ {"razorpay.payment_link.failed"} \subseteq AuditAction
           /\ {"razorpay.payment_link.requested"} \subseteq AuditAction
           /\ {"recovery.retry.scheduled"} \subseteq AuditAction
           /\ {"recovery.retry.failed"} \subseteq AuditAction
           /\ {"recovery.retry.recovered"} \subseteq AuditAction
           /\ \A type \in DOMAIN TerminalOutcome : {TerminalEntry[type]} \subseteq AuditAction
  <1>1. /\ JobsTyped /\ job[a] \in Job /\ job[a].n \in Nat
        /\ job[a].cat \in DiagnosisCategory
        /\ None \in Time /\ job[a].now \in Time /\ job[a].now \in Nat
    BY TypeParts DEF JobsTyped, Job, Time
  <1>2. job[a].now + Choice(a).delay \in Time
    BY <1>1, DecideType DEF Choice, Time
  <1> QED
    BY <1>1, <1>2 DEF ActionStatus, AuditAction, TerminalOutcome, TerminalEntry

(* The decisions that end the work of the session.                         *)
LEMMA DecisionSession ==
    ASSUME StrandInv, NEW a \in Actors, faults' = faults,
           Skip(a) \/ ScheduleRetry(a) \/ LinkWithoutAmount(a) \/ Conclude(a)
    PROVE  Keeps /\ StrandMove /\ LinkMove(a) /\ OutcomeRowMove
  <1>1. TypeInv
    BY DEF StrandInv
  <1>2. /\ job[a].pc = "decide" /\ MarkHandled(a) /\ Finish(a) /\ UNCHANGED links
    BY DEF Skip, ScheduleRetry, LinkWithoutAmount, Conclude, Proposes, EndDecision
  <1>3. LinkMove(a)
    <2>1. job'[a].pc \in {"idle", "next"}
      BY <1>1, <1>2, Written, FinishJob DEF JobsTyped
    <2> QED
      BY <1>2, <2>1 DEF LinkMove, LinkPC
  <1>4. CASE Skip(a) \/ ScheduleRetry(a) \/ LinkWithoutAmount(a)
    <2>1. PICK id \in ActionIds, status \in ActionStatus, sched \in Time,
               entries \in SUBSET AuditAction :
            Insert(a, id, NewRow(a, status, sched, None, entries))
      <3>1. CASE Skip(a)
        BY <1>1, <3>1, Written DEF Skip
      <3>2. CASE ScheduleRetry(a)
        BY <1>1, <3>2, Written DEF ScheduleRetry
      <3>3. CASE LinkWithoutAmount(a)
        BY <1>1, <3>3, Written DEF LinkWithoutAmount
      <3> QED
        BY <1>4, <3>1, <3>2, <3>3
    <2>2. Keeps /\ StrandMove
      BY <1>1, <1>2, <2>1, Written, DecisionEnds, SMTT(40)
    <2>3. UNCHANGED outcomes
      BY <1>4 DEF Skip, ScheduleRetry, LinkWithoutAmount
    <2> QED
      BY <1>3, <2>2, <2>3 DEF OutcomeRowMove
  <1>5. CASE Conclude(a)
    <2>1. PICK type \in DOMAIN TerminalOutcome, id \in ActionIds :
            /\ Proposes(a, type)
            /\ Insert(a, id, NewRow(a, "executed", None, job[a].now, {TerminalEntry[type]}))
            /\ outcomes' = Append(outcomes, [act |-> id, ev |-> job[a].ev,
                                             kind |-> TerminalOutcome[type]])
      BY <1>5 DEF Conclude
    <2> DEFINE entries == {TerminalEntry[type]}
               o == [act |-> id, ev |-> job[a].ev, kind |-> TerminalOutcome[type]]
    <2>2. /\ entries \subseteq AuditAction /\ "executed" \in ActionStatus
          /\ job[a].now \in Time /\ None \in Time /\ JobsTyped
          /\ Insert(a, id, NewRow(a, "executed", None, job[a].now, entries))
      BY <1>1, <2>1, Written
    <2>3. PICK e \in Events : e = job[a].ev
      BY <1>2, <2>2 DEF JobsTyped
    <2>4. /\ o \in OutcomeRow /\ o.act = id /\ o.ev = e /\ outcomes' = Append(outcomes, o)
          /\ Choice(a).type # "send_payment_link"
      BY <2>1, <2>3 DEF OutcomeRow, TerminalOutcome, OutcomeStatus, Proposes
    <2> HIDE DEF entries, o
    <2>5. Keeps /\ StrandMove
      BY <1>2, <2>2, DecisionEnds, SMTT(40)
    <2>6. /\ actions[id].status = "absent" /\ actions'[id].status = "executed"
          /\ actions'[id].ev = e /\ actions'[id].type = Choice(a).type
      BY <1>2, <2>2, <2>3, InsertLadders, SMTT(40)
    <2>7. OutcomeRowMove
      BY <2>4, <2>6 DEF OutcomeRowMove
    <2> QED
      BY <1>3, <2>5, <2>7
  <1> QED
    BY <1>4, <1>5

(* A link is requested: its row is a strand of its own.                    *)
LEMMA RequestSession ==
    ASSUME StrandInv, NEW a \in Actors, faults' = faults, RequestLink(a)
    PROVE  Keeps /\ StrandMove /\ LinkMove(a) /\ OutcomeRowMove
  <1>1. /\ TypeInv /\ (a \in Workers <=> a \notin Runners)
    BY ExecutorAssumption DEF StrandInv, Actors
  <1>2. /\ job[a].pc = "decide" /\ Choice(a).type = "send_payment_link"
        /\ UNCHANGED <<events, outcomes, links>>
    BY DEF RequestLink, Proposes
  <1>3. PICK id \in ActionIds :
          /\ Insert(a, id, NewRow(a, "executing", None, None,
                                  {"razorpay.payment_link.requested"}))
          /\ Set(a, [job[a] EXCEPT !.pc = "link", !.act = id, !.dirty = FALSE])
    BY DEF RequestLink
  <1>4. /\ job'[a].pc = "link" /\ job'[a].ev = job[a].ev /\ job'[a].act = id
        /\ \A b \in Actors \ {a} : job'[b] = job[b]
    BY <1>1, <1>3, Written DEF Set, JobsTyped, Job
  <1>5. PICK e \in Events : e = job[a].ev
    BY <1>1, <1>2, Written DEF JobsTyped
  <1> DEFINE entries == {"razorpay.payment_link.requested"}
  <1>6. /\ entries \subseteq AuditAction /\ "executing" \in ActionStatus /\ None \in Time
        /\ Insert(a, id, NewRow(a, "executing", None, None, entries))
    BY <1>1, <1>3, Written
  <1> HIDE DEF entries
  <1>7. /\ Keeps /\ actions'[id].type = Choice(a).type
        /\ \A f \in Events \ {e} : /\ Ladders(f)' \subseteq Ladders(f)
                                   /\ Charges(f)' \subseteq Charges(f)
        /\ Ladders(e)' \subseteq Ladders(e) \cup {id}
        /\ Charges(e)' \subseteq Charges(e)
        /\ a \in Workers => /\ job[a].act \in Charges(e)
                            /\ job[a].act \notin Ladders(e)'
    BY <1>2, <1>5, <1>6, InsertLadders, SMTT(40)
  <1>8. LinkMove(a) /\ OutcomeRowMove
    BY <1>2, <1>4, <1>7 DEF LinkMove, OutcomeRowMove
  <1>9. CASE a \in Workers
    <2>1. \A f \in Events : Holders(f)' = Holders(f) /\ Undecided(f)' = Undecided(f)
      BY <1>1, <1>4, <1>9 DEF Holders, Undecided, Actors
    <2>2. StrandMove
      BY <1>2, <1>7, <1>9, <2>1, WorkerInserts
    <2> QED
      BY <1>7, <1>8, <2>2
  <1>10. CASE a \in Runners
    <2>1. \A f \in Events : Holders(f)' = Holders(f) /\ Undecided(f)' = Undecided(f) \ {a}
      BY <1>2, <1>4, <1>10 DEF Holders, Undecided, Actors
    <2>2. \A f \in Events : Charges(f)' \subseteq Charges(f)
      BY <1>7
    <2>3. StrandMove
      BY <1>2, <1>5, <1>7, <1>10, <2>1, <2>2, RunnerRequests
    <2> QED
      BY <1>7, <1>8, <2>3
  <1> QED
    BY <1>1, <1>9, <1>10

LEMMA LadderSession ==
    ASSUME StrandInv, NEW a \in Actors, LadderStep(a), faults' = faults
    PROVE  SessionMove(a) /\ HandsOn
  <1>1. TypeInv /\ Ownership /\ Strands
    BY DEF StrandInv
  <1>2. WorkMove(a) /\ HandsOn
    BY <1>1, LadderWork
  <1>3. CASE ReadHistory(a)
    <2>1. PICK n, last : Set(a, [job[a] EXCEPT !.pc = "decide", !.n = n, !.last = last])
      BY <1>3 DEF ReadHistory
    <2>2. job[a].pc = "history" /\ UNCHANGED <<events, actions, outcomes, links>>
      BY <1>3 DEF ReadHistory, tables
    <2>3. /\ job'[a].pc = "decide" /\ job'[a].ev = job[a].ev
          /\ \A b \in Actors \ {a} : job'[b] = job[b]
      BY <1>1, <2>1, Written DEF Set, JobsTyped, Job
    <2>4. \A e \in Events : Holders(e)' = Holders(e) /\ Undecided(e)' \subseteq Undecided(e)
      BY <2>2, <2>3 DEF Holders, Undecided, Actors
    <2>5. \A e \in Events : Handled(e) => Handled(e)'
      BY <2>2 DEF Handled
    <2>6. Keeps /\ StrandMove
      BY <1>1, <2>2, <2>4, <2>5, NoRowWritten
    <2> QED
      BY <1>2, <2>2, <2>3, <2>6 DEF SessionMove, LinkMove, LinkPC, OutcomeRowMove
  <1>4. CASE LinkCreated(a) \/ LinkError(a)
    <2>1. PICK pc \in {"linked", "linkerror"} : Set(a, [job[a] EXCEPT !.pc = pc])
      BY <1>4 DEF LinkCreated, LinkError
    <2>2. /\ job[a].pc = "link" /\ UNCHANGED <<events, actions, outcomes>>
          /\ links' \subseteq links \cup {job[a].act}
      BY <1>4 DEF LinkCreated, LinkError, tables
    <2>3. /\ job'[a].pc = pc /\ job'[a].ev = job[a].ev /\ job'[a].act = job[a].act
          /\ \A b \in Actors \ {a} : job'[b] = job[b]
      BY <1>1, <2>1, Written DEF Set, JobsTyped, Job
    <2>4. \A e \in Events : Holders(e)' = Holders(e) /\ Undecided(e)' \subseteq Undecided(e)
      BY <2>2, <2>3 DEF Holders, Undecided, Actors
    <2>5. \A e \in Events : Handled(e) => Handled(e)'
      BY <2>2 DEF Handled
    <2>6. Keeps /\ StrandMove
      BY <1>1, <2>2, <2>4, <2>5, NoRowWritten
    <2> QED
      BY <1>2, <2>2, <2>3, <2>6 DEF SessionMove, LinkMove, LinkPC, OutcomeRowMove
  <1>5. CASE Skip(a) \/ ScheduleRetry(a) \/ LinkWithoutAmount(a) \/ Conclude(a)
    BY <1>2, <1>5, DecisionSession DEF SessionMove
  <1>6. CASE RequestLink(a)
    BY <1>2, <1>6, RequestSession DEF SessionMove
  <1>7. CASE DeferLink(a) \/ RecordLink(a) \/ RecordLinkError(a)
    <2>1. /\ job[a].pc \in LinkPC /\ UNCHANGED <<outcomes, links>>
          /\ MarkHandled(a) /\ Finish(a)
      BY <1>7 DEF DeferLink, RecordLink, RecordLinkError, EndLink, LinkPC
    <2>2. PICK status \in {"planned", "executed", "failed"}, exec \in Time,
               entries \in SUBSET AuditAction, response \in {None, "answer"} :
            actions' = Settle(a, status, exec, entries, response)
      BY <1>1, <1>7, Written DEF DeferLink, RecordLink, RecordLinkError, EndLink
    <2>3. /\ AtHand(a) = {job[a].act} /\ job[a].pc # "claim" /\ status \in ActionStatus
      BY <2>1 DEF AtHand, LinkPC, ActionStatus
    <2>4. /\ Keeps
          /\ \A e \in Events : /\ Ladders(e)' \subseteq Ladders(e)
                               /\ Charges(e)' \subseteq Charges(e)
      BY <1>1, <2>2, <2>3, SettleLadders, SMTT(40)
    <2>5. StrandMove
      BY <2>1, <2>4, CallEnds
    <2>6. job'[a].pc \in {"idle", "next"}
      BY <1>1, <2>1, Written, FinishJob DEF JobsTyped
    <2> QED
      BY <1>2, <2>1, <2>4, <2>5, <2>6 DEF SessionMove, LinkMove, LinkPC, OutcomeRowMove
  <1> QED
    BY <1>3, <1>4, <1>5, <1>6, <1>7 DEF LadderStep

LEMMA WorkerSession ==
    ASSUME StrandInv, NEW w \in Workers, WorkerStep(w), faults' = faults
    PROVE  SessionMove(w) /\ HandsOn
  <1>1. /\ w \in Actors /\ w \notin Runners /\ TypeInv /\ Ownership /\ Strands
        /\ JobsTyped /\ RowsTyped /\ None \in Time /\ job[w].now \in Time
        /\ job[w].queue \subseteq ActionIds
    BY TypeParts, Written, ExecutorAssumption DEF StrandInv, Actors, Job
  <1>2. CASE LadderStep(w)
    BY <1>1, <1>2, LadderSession
  <1>3. ASSUME UNCHANGED events, \A b \in Actors \ {w} : job'[b] = job[b]
        PROVE  /\ \A e \in Events : Holders(e)' = Holders(e) /\ Undecided(e)' = Undecided(e)
               /\ \A e \in Events : Handled(e) <=> Handled(e)'
               /\ HandsOn
    BY <1>1, <1>3 DEF Holders, Undecided, Handled, HandsOn, Actors
  <1>4. ASSUME UNCHANGED <<events, actions, outcomes, links>>, job'[w].pc \notin LinkPC,
               \A b \in Actors \ {w} : job'[b] = job[b]
        PROVE  Keeps /\ StrandMove /\ LinkMove(w) /\ OutcomeRowMove /\ HandsOn
    <2>1. Keeps /\ StrandMove /\ HandsOn
      BY <1>1, <1>3, <1>4, NoRowWritten
    <2> QED
      BY <1>4, <2>1 DEF LinkMove, OutcomeRowMove
  <1>5. ASSUME UNCHANGED <<events, links>>, Keeps, job'[w].pc \notin LinkPC,
               \A e \in Events : /\ Ladders(e)' \subseteq Ladders(e)
                                 /\ Charges(e)' \subseteq Charges(e),
               \A b \in Actors \ {w} : job'[b] = job[b]
        PROVE  StrandMove /\ LinkMove(w) /\ HandsOn
    <2>1. HandsOn /\ \A e \in Events : Kept(e)
      BY <1>1, <1>3, <1>5, ThinnerLadders
    <2> QED
      BY <1>5, <2>1 DEF StrandMove, LinkMove
  <1>6. ASSUME Finish(w)
        PROVE  /\ job'[w].pc \in {"idle", "next"} /\ job'[w].pc \notin LinkPC /\ WorkMove(w)
               /\ \A b \in Actors \ {w} : job'[b] = job[b]
    BY <1>1, <1>6, FinishJob DEF JobsTyped, WorkMove, RetryPC, LinkPC
  <1>7. CASE ClaimSelect(w)
    <2>1. PICK B \in SUBSET (Due \ LockedRows) :
            Set(w, [IdleJob EXCEPT !.pc = "claim", !.now = clock, !.queue = B])
      BY <1>7 DEF ClaimSelect
    <2>2. /\ job'[w].pc = "claim" /\ job'[w].queue \subseteq Due
          /\ \A b \in Actors \ {w} : job'[b] = job[b]
      BY <1>1, <2>1 DEF Set, IdleJob, JobsTyped
    <2>3. UNCHANGED <<events, actions, outcomes, links>>
      BY <1>7 DEF ClaimSelect, tables
    <2> QED
      BY <1>4, <2>2, <2>3 DEF SessionMove, WorkMove, RetryPC, LinkPC
  <1>8. CASE ClaimCommit(w)
    <2>1. /\ job'[w].pc = "next" /\ job'[w].queue = job[w].queue
          /\ \A b \in Actors \ {w} : job'[b] = job[b]
      BY <1>1, <1>8 DEF ClaimCommit, Set, JobsTyped, Job
    <2>2. \A id \in ActionIds :
             /\ actions'[id].type = actions[id].type /\ actions'[id].ev = actions[id].ev
             /\ id \notin job[w].queue => actions'[id] = actions[id]
      BY <1>1, <1>8 DEF ClaimCommit, RowsTyped, ActionRow
    <2>3. \A id \in job[w].queue : actions[id].status = "scheduled"
      BY <1>1, <1>8 DEF Ownership, OwnedExecuting, Owned, ClaimCommit
    <2>4. /\ Keeps
          /\ \A e \in Events : /\ Ladders(e)' \subseteq Ladders(e)
                               /\ Charges(e)' \subseteq Charges(e)
      BY <2>2, <2>3 DEF Keeps, Ladders, Charges
    <2>5. UNCHANGED <<events, outcomes, links>>
      BY <1>8 DEF ClaimCommit
    <2> QED
      BY <1>5, <2>1, <2>4, <2>5 DEF SessionMove, OutcomeRowMove, WorkMove, RetryPC, LinkPC
  <1>9. CASE StartRetry(w)
    <2>1. PICK id, sub, cat, status :
            /\ id \in job[w].queue
            /\ actions' = [actions EXCEPT ![id].aud = @ \cup {"recovery.retry.attempted"}]
            /\ Set(w, [IdleJob EXCEPT !.pc = "fetch", !.act = id, !.ev = actions[id].ev,
                                      !.sub = sub, !.cat = cat, !.status = status,
                                      !.now = job[w].now, !.queue = job[w].queue \ {id}])
      BY <1>9 DEF StartRetry
    <2>2. /\ job'[w].pc = "fetch" /\ job'[w].act = id /\ job'[w].ev = actions[id].ev
          /\ id \in job[w].queue /\ job'[w].queue \subseteq job[w].queue
          /\ \A b \in Actors \ {w} : job'[b] = job[b]
      BY <1>1, <2>1 DEF IdleJob, Set, JobsTyped
    <2>3. \A y \in ActionIds : /\ actions'[y].status = actions[y].status
                               /\ actions'[y].type = actions[y].type
                               /\ actions'[y].ev = actions[y].ev
      BY <1>1, <2>1 DEF RowsTyped, ActionRow
    <2>4. /\ Keeps
          /\ \A e \in Events : /\ Ladders(e)' \subseteq Ladders(e)
                               /\ Charges(e)' \subseteq Charges(e)
      BY <2>3 DEF Keeps, Ladders, Charges
    <2>5. UNCHANGED <<events, outcomes, links>>
      BY <1>9 DEF StartRetry
    <2> QED
      BY <1>5, <2>2, <2>4, <2>5 DEF SessionMove, OutcomeRowMove, WorkMove, LinkPC
  <1>10. CASE Fetch(w) \/ Relapse(w)
    <2>1. /\ job[w].pc \in RetryPC /\ job'[w].act = job[w].act
          /\ job'[w].ev = job[w].ev /\ job'[w].queue = job[w].queue
          /\ job'[w].pc \notin LinkPC
          /\ \A b \in Actors \ {w} : job'[b] = job[b]
      <3>1. CASE Fetch(w)
        <4>1. PICK status, dirty :
                Set(w, [job[w] EXCEPT !.pc = "fetched", !.status = status, !.dirty = dirty])
          BY <3>1 DEF Fetch
        <4> QED
          BY <1>1, <3>1, <4>1 DEF Fetch, Call, Set, JobsTyped, Job, RetryPC, LinkPC
      <3>2. CASE Relapse(w)
        BY <1>1, <3>2 DEF Relapse, MayFlush, Set, JobsTyped, Job, RetryPC, LinkPC
      <3> QED
        BY <1>10, <3>1, <3>2
    <2>2. UNCHANGED <<events, actions, outcomes, links>>
      BY <1>10 DEF Fetch, Relapse, tables
    <2> QED
      BY <1>4, <2>1, <2>2 DEF SessionMove, WorkMove
  <1>11. CASE DeferRetry(w) \/ FetchError(w)
    <2>1. job[w].pc = "fetch" /\ Finish(w) /\ UNCHANGED <<events, outcomes, links>>
      BY <1>11 DEF DeferRetry, FetchError, Call, EndRetry
    <2>2. AtHand(w) = {job[w].act} /\ job[w].pc # "claim"
      BY <2>1 DEF AtHand
    <2>3. PICK status \in {"planned", "failed"}, exec \in Time,
               entries \in SUBSET AuditAction, response \in {None, "answer"} :
            actions' = Settle(w, status, exec, entries, response)
      <3>1. {"recovery.retry.failed"} \subseteq AuditAction
        BY DEF AuditAction
      <3> QED
        BY <1>1, <1>11, <3>1 DEF DeferRetry, FetchError, EndRetry
    <2>4. status \in ActionStatus
      BY DEF ActionStatus
    <2>5. /\ Keeps
          /\ \A e \in Events : /\ Ladders(e)' \subseteq Ladders(e)
                               /\ Charges(e)' \subseteq Charges(e)
      BY <1>1, <2>2, <2>3, <2>4, SettleLadders, SMTT(40)
    <2> QED
      BY <1>5, <1>6, <2>1, <2>5 DEF SessionMove, OutcomeRowMove
  <1>12. CASE Recover(w)
    <2>1. job[w].pc = "fetched" /\ Finish(w) /\ UNCHANGED <<events, links>>
      BY <1>12 DEF Recover, MayFlush, EndRetry
    <2>2. AtHand(w) = {job[w].act} /\ job[w].pc # "claim"
      BY <2>1 DEF AtHand
    <2>3. PICK e \in Events : e = job[w].ev
      BY <1>1, <2>1 DEF JobsTyped
    <2>4. /\ {"recovery.retry.recovered"} \subseteq AuditAction
          /\ "executed" \in ActionStatus /\ "answer" \in {None, "answer"}
      BY DEF AuditAction, ActionStatus
    <2>5. actions' = Settle(w, "executed", job[w].now, {"recovery.retry.recovered"}, "answer")
      BY <1>12 DEF Recover, EndRetry
    <2>6. /\ Keeps
          /\ \A f \in Events : /\ Ladders(f)' \subseteq Ladders(f)
                               /\ Charges(f)' \subseteq Charges(f)
          /\ job[w].act \in ActionIds /\ actions[job[w].act].status = "executing"
          /\ actions'[job[w].act].status = "executed"
          /\ actions'[job[w].act].type = actions[job[w].act].type
          /\ actions'[job[w].act].ev = actions[job[w].act].ev
      BY <1>1, <2>2, <2>4, <2>5, SettleLadders, SMTT(40)
    <2>7. actions[job[w].act].type = "retry_charge" /\ actions[job[w].act].ev = e
      BY <2>1, <2>3 DEF StrandInv, WorkersRetry, RetryPC
    <2> DEFINE o == [act |-> job[w].act, ev |-> job[w].ev, kind |-> "recovered"]
    <2>8. /\ o \in OutcomeRow /\ o.ev = e /\ o.act = job[w].act
          /\ outcomes' = Append(outcomes, o)
      BY <1>12, <2>3, <2>6 DEF Recover, OutcomeRow, OutcomeStatus
    <2> HIDE DEF o
    <2>9. OutcomeRowMove
      BY <2>6, <2>7, <2>8 DEF OutcomeRowMove
    <2> QED
      BY <1>5, <1>6, <2>1, <2>6, <2>9 DEF SessionMove
  <1> QED
    BY <1>2, <1>7, <1>8, <1>9, <1>10, <1>11, <1>12 DEF WorkerStep

(* A runner takes an event, gives it back, or goes on; who has it may      *)
(* differ, but not, if the caller hands it to one session at a time, how   *)
(* many have it.                                                           *)
LEMMA RunnerSession ==
    ASSUME StrandInv, NEW r \in Runners, RunnerStep(r), faults' = faults
    PROVE  SessionMove(r) /\ HandedOnce'
  <1>1. /\ r \in Actors /\ r \notin Workers /\ TypeInv /\ Strands /\ HandedOnce
        /\ JobsTyped /\ RestTyped
    BY TypeParts, ExecutorAssumption DEF StrandInv, Actors
  <1>2. ASSUME Begins(r), StrandMove
        PROVE  SessionMove(r)
    <2>1. Keeps /\ WorkMove(r)
      BY <1>1, <1>2 DEF Begins, Keeps, WorkMove
    <2>2. LinkMove(r) /\ OutcomeRowMove
      BY <1>2 DEF Begins, LinkMove, LinkPC, OutcomeRowMove
    <2> QED
      BY <1>2, <2>1, <2>2 DEF SessionMove
  <1>3. ASSUME Begins(r)
        PROVE  /\ \A f \in Events : Ladders(f)' = Ladders(f) /\ Charges(f)' = Charges(f)
               /\ \A q \in Runners : q # r => job'[q] = job[q]
    BY <1>3 DEF Begins, Ladders, Charges, Actors
  <1>4. ASSUME NEW e \in Events, HandOver(r, e) PROVE SessionMove(r) /\ HandedOnce'
    <2>1. /\ Begins(r) /\ events' = events /\ job[r].pc = "idle"
          /\ events[e].state = "pending" /\ job'[r].pc = "handed" /\ job'[r].ev = e
      BY <1>1, <1>4, HandOverBegins
    <2>2. ExclusiveHandOver => \A q \in Runners : job[q].pc # "idle" => job[q].ev # e
      BY <1>4 DEF HandOver, Handed
    <2>3. /\ r \notin Holders(e) /\ Holders(e)' = Holders(e) \cup {r}
          /\ Undecided(e)' = Undecided(e) \cup {r}
          /\ \A f \in Events \ {e} :
                Holders(f)' = Holders(f) /\ Undecided(f)' = Undecided(f)
      BY <1>3, <2>1 DEF Holders, Undecided
    <2>4. Taken(e)
      BY <1>3, <2>1, <2>3 DEF Taken, Handled
    <2>5. \A f \in Events : Handled(f) => Handled(f)'
      BY <2>1 DEF Handled
    <2>6. \A f \in Events \ {e} : Kept(f)
      BY <1>1, <1>3, <2>1, <2>3, <2>5, ThinnerLadders
    <2>7. StrandMove
      BY <2>4, <2>6 DEF StrandMove
    <2>8. HandedOnce'
      BY <1>1, <1>3, <2>1, <2>2 DEF HandedOnce
    <2> QED
      BY <1>2, <2>1, <2>7, <2>8
  <1>5. CASE SkipRun(r)
    <2>1. PICK e \in Events : e = job[r].ev
      BY <1>1, <1>5, SkipRunBegins
    <2>2. /\ Begins(r) /\ job[r].pc = "handed" /\ job'[r] = IdleJob
          /\ events'[e].state = "failed"
          /\ \A f \in Events \ {e} : events'[f] = events[f]
      BY <1>1, <1>5, <2>1, SkipRunBegins
    <2>3. job'[r].pc = "idle"
      BY <2>2 DEF IdleJob
    <2>4. \A f \in Events : /\ Holders(f)' = Holders(f) \ {r}
                            /\ Undecided(f)' = Undecided(f) \ {r}
      BY <1>3, <2>2, <2>3 DEF Holders, Undecided
    <2>5. Handled(e)' /\ \A f \in Events : Handled(f) => Handled(f)'
      BY <2>2 DEF Handled
    <2>6. HandedBack(e)
      BY <1>3, <2>2, <2>4, <2>5, HandsBack
    <2>7. ASSUME NEW f \in Events \ {e} PROVE Kept(f)
      <3>1. r \notin Holders(f) /\ r \notin Undecided(f)
        BY <2>1 DEF Holders, Undecided
      <3>2. Holders(f)' = Holders(f) /\ Undecided(f)' = Undecided(f)
        BY <2>4, <3>1
      <3> QED
        BY <1>1, <1>3, <2>2, <2>5, <3>2, ThinnerLadders
    <2>8. StrandMove
      BY <2>6, <2>7 DEF StrandMove
    <2>9. HandsOn
      BY <1>3, <2>2, <2>3 DEF HandsOn
    <2> QED
      BY <1>1, <1>2, <2>2, <2>8, <2>9, HandsOnKeeps
  <1>6. CASE StartRun(r)
    <2>1. /\ Begins(r) /\ events' = events /\ job[r].pc = "handed"
          /\ job'[r].pc = "history" /\ job'[r].ev = job[r].ev
      BY <1>1, <1>6, StartRunBegins
    <2>2. HandsOn /\ \A f \in Events : Holders(f)' = Holders(f) /\ Undecided(f)' = Undecided(f)
      BY <1>3, <2>1 DEF HandsOn, Holders, Undecided
    <2>3. \A f \in Events : Handled(f) => Handled(f)'
      BY <2>1 DEF Handled
    <2>4. UNCHANGED actions
      BY <2>1 DEF Begins
    <2>5. StrandMove
      BY <1>1, <2>2, <2>3, <2>4, NoRowWritten
    <2> QED
      BY <1>1, <1>2, <2>1, <2>2, <2>5, HandsOnKeeps
  <1>7. CASE LadderStep(r)
    BY <1>1, <1>7, LadderSession, HandsOnKeeps
  <1> QED
    BY <1>4, <1>5, <1>6, <1>7 DEF RunnerStep

(* A session is lost: its row stays, and so may another take its event.    *)
LEMMA AbortSession ==
    ASSUME StrandInv, NEW a \in Actors, Abort(a)
    PROVE  SessionMove(a) /\ HandsOn
  <1>1. TypeInv /\ JobsTyped
    BY TypeParts DEF StrandInv
  <1>2. /\ job'[a].pc = "idle" /\ job'[a].queue = {} /\ faults' = faults + 1
        /\ UNCHANGED <<events, actions, outcomes, links>>
        /\ \A b \in Actors \ {a} : job'[b] = job[b]
    BY <1>1 DEF Abort, Set, JobsTyped, IdleJob, tables
  <1>3. WorkMove(a) /\ HandsOn /\ Keeps
    BY <1>2 DEF HandsOn, WorkMove, RetryPC, Keeps, Actors
  <1>4. ASSUME NEW e \in Events PROVE Lost(e)
    <2>1. Ladders(e)' = Ladders(e) /\ Charges(e)' = Charges(e)
      BY <1>2 DEF Ladders, Charges
    <2>2. Holders(e)' = Holders(e) \ {a} /\ Undecided(e)' = Undecided(e) \ {a}
      BY <1>2 DEF Holders, Undecided, Actors
    <2>3. Handled(e)' <=> Handled(e)
      BY <1>2 DEF Handled
    <2> QED
      BY <1>2, <2>1, <2>2, <2>3 DEF Lost
  <1> QED
    BY <1>2, <1>3, <1>4 DEF SessionMove, StrandMove, LinkMove, LinkPC, OutcomeRowMove

LEMMA EnvironmentSession ==
    ASSUME StrandInv,
           \/ \E e \in Events : Ingest(e)
           \/ Tick
           \/ \E s \in Subs : LiveChange(s)
           \/ WireClient
           \/ UNCHANGED vars
    PROVE  (\E a \in Actors : SessionMove(a)) /\ HandsOn
  <1>1. /\ Strands /\ events \in [Events -> EventRow] /\ Actors # {}
    BY TypeParts, Constants DEF StrandInv, RestTyped
  <1>2. UNCHANGED <<actions, outcomes, links, job, faults>>
    BY DEF Ingest, Tick, LiveChange, WireClient, vars, tables
  <1>3. \A e \in Events : Handled(e) => Handled(e)'
    <2>1. ASSUME NEW e \in Events, Ingest(e) PROVE \A f \in Events : Handled(f) => Handled(f)'
      BY <1>1, <2>1 DEF Ingest, Handled
    <2>2. ASSUME UNCHANGED events PROVE \A f \in Events : Handled(f) => Handled(f)'
      BY <2>2 DEF Handled
    <2> QED
      BY <2>1, <2>2 DEF Tick, LiveChange, WireClient, vars, tables
  <1>4. \A e \in Events : Holders(e)' = Holders(e) /\ Undecided(e)' = Undecided(e)
    BY <1>2 DEF Holders, Undecided
  <1>5. Keeps /\ StrandMove
    BY <1>1, <1>2, <1>3, <1>4, NoRowWritten
  <1> QED
    BY <1>1, <1>2, <1>5 DEF SessionMove, WorkMove, LinkMove, OutcomeRowMove, HandsOn

-----------------------------------------------------------------------------
(* The invariant.                                                          *)

LEMMA StrandInit == Init => StrandInv
  <1> SUFFICES ASSUME Init PROVE StrandInv
    OBVIOUS
  <1>1. /\ \A a \in Actors : job[a].pc = "idle" /\ job[a].queue = {}
        /\ \A id \in ActionIds : actions[id].status = "absent"
        /\ outcomes = << >> /\ links = {} /\ faults = 0
    BY DEF Init, IdleJob, AbsentRow
  <1>2. ASSUME NEW e \in Events
        PROVE  /\ Charges(e) = {} /\ ChargeCount(e) = 0 /\ LadderCount(e) = 0
               /\ Cardinality(Holders(e)) = 0
    <2>1. Ladders(e) = {} /\ Charges(e) = {} /\ Holders(e) = {} /\ Undecided(e) = {}
      BY <1>1 DEF Ladders, Charges, Holders, Undecided, Actors
    <2> QED
      BY <2>1, FS_EmptySet DEF ChargeCount, LadderCount
  <1>3. HandOvers \in Nat
    BY Constants, FS_Subset, FS_CardinalityType DEF HandOvers, Actors
  <1>4. Strands
    BY <1>1, <1>2, <1>3 DEF Strands
  <1>5. HandedOnce /\ WorkersRetry /\ LinksAsked /\ OutcomeRows
    BY <1>1 DEF HandedOnce, WorkersRetry, RetryPC, LinksAsked, LinkPC, OutcomeRows, Actors
  <1> QED
    BY <1>4, <1>5, TypeInit, OwnershipInit, HandlingInit DEF StrandInv

LEMMA StrandStep ==
    ASSUME StrandInv, [Next]_vars
    PROVE  StrandInv'
  <1>1. HandedOnce' /\ \E a \in Actors : SessionMove(a)
    <2>1. ASSUME NEW r \in Runners, RunnerNext(r)
          PROVE  HandedOnce' /\ \E a \in Actors : SessionMove(a)
      BY <2>1, RunnerSession DEF RunnerNext, Actors
    <2>2. ASSUME NEW w \in Workers, WorkerNext(w)
          PROVE  HandedOnce' /\ \E a \in Actors : SessionMove(a)
      BY <2>2, WorkerSession, HandsOnKeeps DEF WorkerNext, StrandInv, Actors
    <2>3. ASSUME NEW a \in Actors, Abort(a)
          PROVE  HandedOnce' /\ \E b \in Actors : SessionMove(b)
      BY <2>3, AbortSession, HandsOnKeeps DEF StrandInv
    <2>4. ASSUME \/ \E e \in Events : Ingest(e)
                 \/ Tick
                 \/ \E s \in Subs : LiveChange(s)
                 \/ WireClient
                 \/ UNCHANGED vars
          PROVE  HandedOnce' /\ \E b \in Actors : SessionMove(b)
      BY <2>4, EnvironmentSession, HandsOnKeeps DEF StrandInv
    <2> QED
      BY <2>1, <2>2, <2>3, <2>4 DEF Next
  <1>2. /\ TypeInv' /\ Ownership' /\ FinalRows
    BY TypeStep, OwnershipNext, RowsAreFinal DEF StrandInv
  <1>3. RowsStay
    <2>1. UNCHANGED actions \/ \E a \in Actors : RowStep(a)
      BY OwnershipNext DEF StrandInv
    <2> QED
      BY <2>1 DEF RowStep, RowsStay
  <1>4. Handling'
    BY HandlingNext, HandlingKept DEF StrandInv
  <1>5. PICK a \in Actors : SessionMove(a)
    BY <1>1
  <1>6. WorkersRetry' /\ LinksAsked' /\ OutcomeRows' /\ Strands'
    <2>1. WorkersRetry'
      BY <1>5, WorkersRetryKept DEF StrandInv, SessionMove
    <2>2. LinksAsked'
      BY <1>3, <1>5, LinksAskedKept DEF StrandInv, SessionMove
    <2>3. OutcomeRows'
      BY <1>2, <1>5, OutcomeRowsKept DEF StrandInv, SessionMove
    <2>4. Strands'
      BY <1>1, <1>5, StrandsKept DEF StrandInv, SessionMove
    <2> QED
      BY <2>1, <2>2, <2>3, <2>4
  <1> QED
    BY <1>1, <1>2, <1>4, <1>6 DEF StrandInv

-----------------------------------------------------------------------------
(* The bounds.                                                             *)

LEMMA LinksWithin == StrandInv => LinkBound
  <1> SUFFICES ASSUME StrandInv, NEW e \in Events
               PROVE  Cardinality({id \in links : actions[id].ev = e}) <= HandOvers + faults
    BY DEF LinkBound
  <1> DEFINE asked == {id \in links : actions[id].ev = e}
  <1>1. asked \subseteq Ladders(e)
    <2>1. links \subseteq ActionIds
      BY TypeParts DEF StrandInv, RestTyped
    <2> QED
      BY <2>1 DEF StrandInv, LinksAsked, Ladders
  <1> HIDE DEF asked
  <1>2. Cardinality(asked) <= Cardinality(Ladders(e)) /\ Cardinality(asked) \in Nat
    BY <1>1, Counts, FS_Subset, FS_CardinalityType
  <1>3. LadderCount(e) <= HandOvers + faults
    BY DEF StrandInv, Strands
  <1>4. HandOvers \in Nat /\ faults \in Nat
    BY TypeParts, Constants, FS_Subset, FS_CardinalityType
    DEF StrandInv, RestTyped, HandOvers, Actors
  <1>5. Cardinality(asked) <= HandOvers + faults
    BY <1>2, <1>3, <1>4, Counts DEF LadderCount
  <1> QED
    BY <1>5 DEF asked

LEMMA OutcomesWithin == StrandInv => OutcomeBound
  <1> SUFFICES ASSUME StrandInv, NEW e \in Events
               PROVE  Cardinality({i \in 1 .. Len(outcomes) : outcomes[i].ev = e})
                         <= HandOvers
    BY DEF OutcomeBound
  <1> DEFINE ended == {i \in 1 .. Len(outcomes) : outcomes[i].ev = e}
             row == [i \in ended |-> outcomes[i].act]
  <1>1. outcomes \in Seq(OutcomeRow)
    BY TypeParts DEF StrandInv, RestTyped
  <1>2. IsFiniteSet(ended) /\ Cardinality(ended) \in Nat
    <2>1. IsFiniteSet(1 .. Len(outcomes))
      BY <1>1, FS_Interval
    <2>2. IsFiniteSet(ended)
      BY <2>1, FS_Subset
    <2> QED
      BY <2>2, FS_CardinalityType
  <1>3. row \in [ended -> Charges(e)]
    <2> SUFFICES ASSUME NEW i \in ended PROVE outcomes[i].act \in Charges(e)
      OBVIOUS
    <2>1. i \in 1 .. Len(outcomes) /\ outcomes[i].ev = e /\ outcomes[i] \in OutcomeRow
      BY <1>1
    <2>2. /\ outcomes[i].act \in ActionIds
          /\ actions[outcomes[i].act].status = "executed"
          /\ actions[outcomes[i].act].ev = e
          /\ actions[outcomes[i].act].type # "send_payment_link"
      BY <2>1 DEF StrandInv, OutcomeRows, OutcomeRow
    <2> QED
      BY <2>2 DEF Charges, Ladders
  <1>4. \A i, j \in ended : row[i] = row[j] => i = j
    BY DEF StrandInv, OutcomeRows
  <1> HIDE DEF ended, row
  <1>5. Cardinality(ended) <= Cardinality(Charges(e))
    <2>1. IsFiniteSet(Charges(e)) /\ Cardinality(Charges(e)) \in Nat
      BY Counts
    <2>2. ~(Cardinality(Charges(e)) < Cardinality(ended))
      BY <1>2, <1>3, <1>4, <2>1, FS_PigeonHole
    <2> QED
      BY <1>2, <2>1, <2>2
  <1>6. ChargeCount(e) <= HandOvers
    BY DEF StrandInv, Strands
  <1>7. HandOvers \in Nat
    BY Constants, FS_Subset, FS_CardinalityType DEF HandOvers, Actors
  <1>8. Cardinality(ended) <= HandOvers
    BY <1>2, <1>5, <1>6, <1>7, Counts DEF ChargeCount
  <1> QED
    BY <1>8 DEF ended

(* A payment link is money asked of a customer (executor.py 373-383, 512): *)
(* one failed payment leads to at most one link at Razorpay for each of the*)
(* sessions that may have it at once, and one more for each session lost.  *)
THEOREM LinksBounded == Spec => []LinkBound
  <1>1. Init => StrandInv
    BY StrandInit
  <1>2. StrandInv /\ [Next]_vars => StrandInv'
    BY StrandStep
  <1>3. StrandInv => LinkBound
    BY LinksWithin
  <1> QED
    BY <1>1, <1>2, <1>3, PTL DEF Spec

(* However many sessions run one event at once (executor.py 373-383 checks *)
(* its status without a lock), whatever fails, and whatever the workers do *)
(* meanwhile: no more outcomes are recorded for it than sessions that may  *)
(* have it at once.                                                        *)
THEOREM OutcomesBounded == Spec => []OutcomeBound
  <1>1. Init => StrandInv
    BY StrandInit
  <1>2. StrandInv /\ [Next]_vars => StrandInv'
    BY StrandStep
  <1>3. StrandInv => OutcomeBound
    BY OutcomesWithin
  <1> QED
    BY <1>1, <1>2, <1>3, PTL DEF Spec
-----------------------------------------------------------------------------
(***************************************************************************)
(* What a session leaves behind. A row is executing only while somebody    *)
(* owns it, or was owned by a session that has been lost; and a row that   *)
(* accounts for its event is replaced, if at all, by one that does too.    *)
(***************************************************************************)

(* The rows a session is answerable for: its batch and the one at hand.    *)
Load(a) == Cardinality(job[a].queue) + (IF AtHand(a) = {} THEN 0 ELSE 1)

Loads == \A a \in Actors :
    /\ job[a].pc = "idle" => job[a].queue = {}
    /\ Load(a) <= Limit

(* A session at Razorpay works for its row's event, and knows its link.    *)
LinksKnown == \A a \in Actors :
    /\ job[a].pc \in LinkPC => actions[job[a].act].ev = job[a].ev
    /\ job[a].pc = "linked" => job[a].act \in links

Orphans == {id \in ActionIds :
    actions[id].status = "executing" /\ \A a \in Actors : id \notin Owned(a)}

OrphansBounded == Cardinality(Orphans) <= faults * Limit

RestInv == StrandInv /\ Loads /\ LinksKnown /\ OrphansBounded /\ HandledAccounted

(* What a step of session a leaves.                                        *)
Rows(a) == \A id \in ActionIds : actions'[id].status = "executing" =>
    id \in Owned(a)' \/ (actions[id].status = "executing" /\ id \notin Owned(a))

LoadKept(a) ==
    /\ \A b \in Actors \ {a} : job'[b] = job[b]
    /\ job'[a].pc = "idle" => job'[a].queue = {}
    /\ Load(a)' <= Limit

LinkKnown(a) ==
    /\ links \subseteq links'
    /\ job'[a].pc \in LinkPC => actions'[job'[a].act].ev = job'[a].ev
    /\ job'[a].pc = "linked" => job'[a].act \in links'

Accounted(e) == \E id \in ActionIds : actions[id].ev = e /\ Accounts(id)

StillAccounted == \A e \in Events : Accounted(e) => Accounted(e)'

NewlyAccounted == \A e \in Events : events'[e].state = "processed" =>
    events[e].state = "processed" \/ Accounted(e)'

RestMove(a) ==
    Rows(a) /\ LoadKept(a) /\ LinkKnown(a) /\ StillAccounted /\ NewlyAccounted

Records == links \subseteq links' /\ FinalOutcomes

LEMMA RowAccounts ==
    ASSUME Records, outcomes \in Seq(OutcomeRow), outcomes' \in Seq(OutcomeRow),
           NEW id \in ActionIds, actions'[id] = actions[id], Accounts(id)
    PROVE  Accounts(id)'
  <1>1. ASSUME NEW i \in 1 .. Len(outcomes)
        PROVE  i \in 1 .. Len(outcomes') /\ outcomes'[i] = outcomes[i]
    BY DEF Records, FinalOutcomes
  <1> QED
    BY <1>1 DEF Accounts, Records

(* The load of a session that ends its work, or goes on with it.           *)
LEMMA LoadType ==
    ASSUME TypeInv, NEW a \in Actors
    PROVE  /\ IsFiniteSet(job[a].queue) /\ Cardinality(job[a].queue) \in Nat
           /\ Load(a) \in Nat /\ Limit \in Nat \ {0}
  <1>1. job[a].queue \subseteq ActionIds
    BY TypeParts DEF JobsTyped, Job
  <1>2. IsFiniteSet(job[a].queue)
    BY <1>1, Constants, FS_Subset
  <1>3. Cardinality(job[a].queue) \in Nat
    BY <1>2, FS_CardinalityType
  <1> QED
    BY <1>2, <1>3, LimitAssumption DEF Load

LEMMA FinishRests ==
    ASSUME TypeInv, Loads, NEW a \in Actors, Finish(a), links \subseteq links'
    PROVE  LoadKept(a) /\ LinkKnown(a) /\ Owned(a)' = job[a].queue
  <1>1. /\ job'[a].pc \in {"idle", "next"} /\ job'[a].queue = job[a].queue
        /\ \A b \in Actors \ {a} : job'[b] = job[b]
    BY TypeParts, FinishJob DEF JobsTyped
  <1>2. AtHand(a)' = {} /\ Owned(a)' = job[a].queue
    BY <1>1 DEF AtHand, Owned
  <1>3. job'[a].pc = "idle" => job'[a].queue = {}
    BY <1>1, TypeParts DEF Finish, Set, IdleJob, JobsTyped
  <1>4. Load(a)' <= Limit
    <2>1. Load(a)' = Cardinality(job[a].queue)
      BY <1>1, <1>2, LoadType DEF Load
    <2> QED
      BY <2>1, LoadType DEF Load, Loads
  <1>5. LoadKept(a)
    BY <1>1, <1>3, <1>4 DEF LoadKept
  <1>6. LinkKnown(a)
    BY <1>1 DEF LinkKnown, LinkPC
  <1> QED
    BY <1>2, <1>5, <1>6

(* A session that keeps its rows.                                          *)
LEMMA SameLoad ==
    ASSUME TypeInv, Ownership, Loads, NEW a \in Actors, UNCHANGED actions,
           \A b \in Actors \ {a} : job'[b] = job[b],
           job'[a].pc # "idle", job'[a].queue = job[a].queue, AtHand(a)' = AtHand(a)
    PROVE  Rows(a) /\ LoadKept(a)
  <1>1. Owned(a)' = Owned(a) /\ Load(a)' = Load(a)
    BY DEF Owned, Load
  <1> QED
    BY <1>1 DEF Rows, LoadKept, Loads

LEMMA MarksOwn ==
    ASSUME TypeInv, NEW a \in Actors, MarkHandled(a),
           a \in Runners => \A e \in Events : e = job[a].ev => Accounted(e)'
    PROVE  NewlyAccounted
  <1>1. /\ a \notin Runners => events' = events
        /\ \A e \in Events \ {job[a].ev} : events'[e] = events[e]
    BY TypeParts, MarkedRow
  <1> QED
    BY <1>1 DEF NewlyAccounted

(* A decision leaves a row in the place of the attempt that has failed.    *)
LEMMA InsertLeaves ==
    ASSUME StrandInv, NEW a \in Actors, job[a].pc = "decide", NEW id \in ActionIds,
           NEW status \in ActionStatus, NEW sched \in Time, NEW exec \in Time,
           NEW entries, entries \subseteq AuditAction,
           Insert(a, id, NewRow(a, status, sched, exec, entries)),
           Records, outcomes' \in Seq(OutcomeRow)
    PROVE  /\ actions'[id].ev = job[a].ev /\ actions'[id].status = status
           /\ actions'[id].response = None
           /\ \A y \in ActionIds \ {id} : actions'[y].status = "executing" =>
                 actions[y].status = "executing" /\ y \notin AtHand(a)
           /\ Accounts(id)' => StillAccounted
  <1>1. TypeInv /\ Ownership /\ WorkersRetry /\ outcomes \in Seq(OutcomeRow)
    BY TypeParts DEF StrandInv, RestTyped
  <1>2. /\ actions[id].status = "absent"
        /\ actions'[id] = NewRow(a, status, sched, exec, entries)
        /\ a \in Workers => actions'[job[a].act].status = "failed"
        /\ \A y \in ActionIds \ {id} :
              y # job[a].act \/ a \notin Workers => actions'[y] = actions[y]
    BY <1>1, InsertSteps
  <1>3. /\ actions'[id].ev = job[a].ev /\ actions'[id].status = status
        /\ actions'[id].response = None
    BY <1>2 DEF NewRow
  <1>4. AtHand(a) = IF a \in Workers THEN {job[a].act} ELSE {}
    BY DEF AtHand
  <1>5. \A y \in ActionIds \ {id} : actions'[y].status = "executing" =>
           actions[y].status = "executing" /\ y \notin AtHand(a)
    BY <1>2, <1>4
  <1>6. ASSUME Accounts(id)', NEW e \in Events, Accounted(e)
        PROVE  Accounted(e)'
    <2>1. PICK y \in ActionIds : actions[y].ev = e /\ Accounts(y)
      BY <1>6 DEF Accounted
    <2>2. y # id
      BY <1>2, <2>1 DEF Accounts
    <2>3. CASE a \in Workers /\ y = job[a].act
      <3>1. actions[y].ev = job[a].ev
        BY <1>1, <2>3 DEF WorkersRetry, RetryPC
      <3> QED
        BY <1>3, <1>6, <2>1, <3>1 DEF Accounted
    <2>4. CASE a \notin Workers \/ y # job[a].act
      <3>1. actions'[y] = actions[y]
        BY <1>2, <2>2, <2>4
      <3>2. Accounts(y)'
        BY <1>1, <2>1, <3>1, RowAccounts
      <3> QED
        BY <2>1, <3>1, <3>2 DEF Accounted
    <2> QED
      BY <2>3, <2>4
  <1> QED
    BY <1>3, <1>5, <1>6 DEF StillAccounted

(* A result leaves a row that accounts for the event, if it is right.      *)
LEMMA SettleLeaves ==
    ASSUME StrandInv, NEW a \in Actors, AtHand(a) = {job[a].act},
           NEW id \in ActionIds, id = job[a].act,
           NEW status \in {"planned", "executed", "failed"}, NEW exec \in Time,
           NEW entries, entries \subseteq AuditAction, NEW response \in {None, "answer"},
           actions' = Settle(a, status, exec, entries, response),
           Records, outcomes' \in Seq(OutcomeRow), Owned(a)' = job[a].queue,
           status = "failed" => response = None,
           status = "executed" =>
              id \in links' \/ \E i \in 1 .. Len(outcomes') : outcomes'[i].act = id
    PROVE  /\ Rows(a) /\ StillAccounted
           /\ actions'[id].ev = actions[id].ev /\ Accounts(id)'
  <1>1. /\ TypeInv /\ Ownership /\ RowsTyped /\ RowsExist
        /\ outcomes \in Seq(OutcomeRow) /\ status \in ActionStatus
    BY TypeParts DEF StrandInv, RestTyped, ActionStatus
  <1>2. /\ actions'[id].status = status
        /\ \A y \in ActionIds \ {id} : actions'[y] = actions[y]
        /\ SameSubject(actions')
    BY <1>1, SettleSteps
  <1>3. actions'[id].response = response
    <2> DEFINE row == [actions[id] EXCEPT
                          !.status = status, !.exec = exec,
                          !.aud = actions[id].aud \cup entries,
                          !.response = response]
    <2>1. actions[id] \in ActionRow /\ actions \in [ActionIds -> ActionRow]
      BY <1>1 DEF RowsTyped
    <2>2. row.response = response
      BY <2>1 DEF ActionRow
    <2>3. actions' = [actions EXCEPT ![id] = row]
      BY DEF Settle
    <2> HIDE DEF row
    <2> QED
      BY <2>1, <2>2, <2>3
  <1>4. Accounts(id)'
    BY <1>2, <1>3 DEF Accounts
  <1>5. StillAccounted
    <2> SUFFICES ASSUME NEW e \in Events, Accounted(e) PROVE Accounted(e)'
      BY DEF StillAccounted
    <2>1. PICK y \in ActionIds : actions[y].ev = e /\ Accounts(y)
      BY DEF Accounted
    <2>2. CASE y = id
      BY <1>2, <1>4, <2>1, <2>2 DEF Accounted, SameSubject
    <2>3. CASE y # id
      <3>1. actions'[y] = actions[y]
        BY <1>2, <2>3
      <3>2. Accounts(y)'
        BY <1>1, <2>1, <3>1, RowAccounts
      <3> QED
        BY <2>1, <3>1, <3>2 DEF Accounted
    <2> QED
      BY <2>2, <2>3
  <1>6. Rows(a)
    <2> SUFFICES ASSUME NEW y \in ActionIds, actions'[y].status = "executing",
                        y \notin job[a].queue
                 PROVE  actions[y].status = "executing" /\ y \notin Owned(a)
      BY DEF Rows
    <2>1. y # id
      BY <1>2
    <2> QED
      BY <1>2, <2>1 DEF Owned
  <1> QED
    BY <1>2, <1>4, <1>5, <1>6 DEF SameSubject

(* The decisions that end the work of the session.                         *)
LEMMA DecisionRests ==
    ASSUME StrandInv, Loads, NEW a \in Actors, job[a].pc = "decide", NEW id \in ActionIds,
           NEW status \in ActionStatus \ {"executing", "cancelled"},
           NEW sched \in Time, NEW exec \in Time,
           NEW entries, entries \subseteq AuditAction,
           Insert(a, id, NewRow(a, status, sched, exec, entries)),
           Records, outcomes' \in Seq(OutcomeRow), MarkHandled(a), Finish(a),
           status = "executed" =>
              id \in links' \/ \E i \in 1 .. Len(outcomes') : outcomes'[i].act = id
    PROVE  RestMove(a)
  <1>1. TypeInv /\ links \subseteq links'
    BY DEF StrandInv, Records
  <1>2. LoadKept(a) /\ LinkKnown(a) /\ Owned(a)' = job[a].queue
    BY <1>1, FinishRests
  <1>3. /\ actions'[id].ev = job[a].ev /\ actions'[id].status = status
        /\ actions'[id].response = None
        /\ \A y \in ActionIds \ {id} : actions'[y].status = "executing" =>
              actions[y].status = "executing" /\ y \notin AtHand(a)
        /\ Accounts(id)' => StillAccounted
    BY InsertLeaves, SMTT(40)
  <1>4. Accounts(id)'
    <2>1. status \in {"planned", "scheduled", "executed", "failed", "skipped"}
      BY DEF ActionStatus
    <2>2. CASE status = "executed"
      BY <1>3, <2>2 DEF Accounts
    <2>3. CASE status # "executed"
      BY <1>3, <2>1, <2>3 DEF Accounts
    <2> QED
      BY <2>2, <2>3
  <1>5. Rows(a)
    BY <1>2, <1>3 DEF Rows, Owned
  <1>6. NewlyAccounted
    BY <1>1, <1>3, <1>4, MarksOwn DEF Accounted
  <1> QED
    BY <1>2, <1>3, <1>4, <1>5, <1>6 DEF RestMove

LEMMA DecidingRests ==
    ASSUME StrandInv, Loads, NEW a \in Actors,
           Skip(a) \/ ScheduleRetry(a) \/ LinkWithoutAmount(a) \/ Conclude(a)
    PROVE  RestMove(a)
  <1>1. TypeInv /\ outcomes \in Seq(OutcomeRow) /\ JobsTyped
    BY TypeParts DEF StrandInv, RestTyped
  <1>2. /\ job[a].pc = "decide" /\ MarkHandled(a) /\ Finish(a) /\ UNCHANGED links
    BY DEF Skip, ScheduleRetry, LinkWithoutAmount, Conclude, Proposes, EndDecision
  <1>3. CASE Skip(a) \/ ScheduleRetry(a) \/ LinkWithoutAmount(a)
    <2>1. PICK id \in ActionIds, status \in {"skipped", "scheduled", "failed"},
               sched \in Time, entries \in SUBSET AuditAction :
            Insert(a, id, NewRow(a, status, sched, None, entries))
      <3>1. CASE Skip(a)
        BY <1>1, <3>1, Written DEF Skip
      <3>2. CASE ScheduleRetry(a)
        BY <1>1, <3>2, Written DEF ScheduleRetry
      <3>3. CASE LinkWithoutAmount(a)
        BY <1>1, <3>3, Written DEF LinkWithoutAmount
      <3> QED
        BY <1>3, <3>1, <3>2, <3>3
    <2>2. UNCHANGED outcomes
      BY <1>3 DEF Skip, ScheduleRetry, LinkWithoutAmount
    <2>3. Records /\ outcomes' \in Seq(OutcomeRow)
      BY <1>1, <1>2, <2>2 DEF Records, FinalOutcomes
    <2>4. status \in ActionStatus \ {"executing", "cancelled"} /\ status # "executed" /\ None \in Time
      BY DEF ActionStatus, Time
    <2> QED
      BY <1>2, <2>1, <2>3, <2>4, DecisionRests, SMTT(40)
  <1>4. CASE Conclude(a)
    <2>1. PICK type \in DOMAIN TerminalOutcome, id \in ActionIds :
            /\ Insert(a, id, NewRow(a, "executed", None, job[a].now, {TerminalEntry[type]}))
            /\ outcomes' = Append(outcomes, [act |-> id, ev |-> job[a].ev,
                                             kind |-> TerminalOutcome[type]])
      BY <1>4 DEF Conclude
    <2> DEFINE entries == {TerminalEntry[type]}
               o == [act |-> id, ev |-> job[a].ev, kind |-> TerminalOutcome[type]]
    <2>2. /\ entries \subseteq AuditAction
          /\ "executed" \in ActionStatus \ {"executing", "cancelled"}
          /\ job[a].now \in Time /\ None \in Time
          /\ Insert(a, id, NewRow(a, "executed", None, job[a].now, entries))
      BY <1>1, <2>1, Written
    <2>3. job[a].ev \in Events
      BY <1>1, <1>2 DEF JobsTyped
    <2>4. o \in OutcomeRow /\ o.act = id /\ outcomes' = Append(outcomes, o)
      BY <2>1, <2>3 DEF OutcomeRow, TerminalOutcome, OutcomeStatus
    <2> HIDE DEF entries, o
    <2>5. /\ outcomes' \in Seq(OutcomeRow) /\ Len(outcomes') = Len(outcomes) + 1
          /\ Len(outcomes) \in Nat /\ outcomes'[Len(outcomes) + 1] = o
          /\ \A i \in 1 .. Len(outcomes) : outcomes'[i] = outcomes[i]
      BY <1>1, <2>4
    <2>6. Records /\ \E i \in 1 .. Len(outcomes') : outcomes'[i].act = id
      BY <1>2, <2>4, <2>5 DEF Records, FinalOutcomes
    <2> QED
      BY <1>2, <2>2, <2>5, <2>6, DecisionRests, SMTT(40)
  <1> QED
    BY <1>3, <1>4

(* The request of a link leaves the session with the row of the link.      *)
LEMMA RequestRests ==
    ASSUME StrandInv, Loads, NEW a \in Actors, RequestLink(a)
    PROVE  RestMove(a)
  <1>1. /\ TypeInv /\ Ownership /\ outcomes \in Seq(OutcomeRow) /\ JobsTyped
    BY TypeParts DEF StrandInv, RestTyped
  <1>2. job[a].pc = "decide" /\ UNCHANGED <<events, outcomes, links>>
    BY DEF RequestLink, Proposes
  <1>3. Records /\ outcomes' \in Seq(OutcomeRow)
    BY <1>1, <1>2 DEF Records, FinalOutcomes
  <1>4. PICK id \in ActionIds :
          /\ Insert(a, id, NewRow(a, "executing", None, None,
                                  {"razorpay.payment_link.requested"}))
          /\ Set(a, [job[a] EXCEPT !.pc = "link", !.act = id, !.dirty = FALSE])
    BY DEF RequestLink
  <1>5. /\ job'[a].pc = "link" /\ job'[a].ev = job[a].ev /\ job'[a].act = id
        /\ job'[a].queue = job[a].queue
        /\ \A b \in Actors \ {a} : job'[b] = job[b]
    BY <1>1, <1>4 DEF Set, JobsTyped, Job
  <1> DEFINE entries == {"razorpay.payment_link.requested"}
  <1>6. /\ entries \subseteq AuditAction /\ "executing" \in ActionStatus /\ None \in Time
        /\ Insert(a, id, NewRow(a, "executing", None, None, entries))
    BY <1>1, <1>4, Written
  <1> HIDE DEF entries
  <1>7. /\ actions'[id].ev = job[a].ev /\ actions'[id].status = "executing"
        /\ \A y \in ActionIds \ {id} : actions'[y].status = "executing" =>
              actions[y].status = "executing" /\ y \notin AtHand(a)
        /\ Accounts(id)' => StillAccounted
    BY <1>2, <1>3, <1>6, InsertLeaves, SMTT(40)
  <1>8. StillAccounted
    BY <1>7 DEF Accounts
  <1>9. AtHand(a)' = {id} /\ Owned(a)' = job[a].queue \cup {id}
    BY <1>5 DEF AtHand, Owned
  <1>10. Rows(a)
    BY <1>7, <1>9 DEF Rows, Owned
  <1>11. Load(a)' <= Limit
    <2>1. Load(a)' = Cardinality(job[a].queue) + 1
      BY <1>5, <1>9 DEF Load
    <2>2. CASE a \in Workers
      <3>1. AtHand(a) # {}
        BY <1>2, <2>2 DEF AtHand
      <3> QED
        BY <2>1, <3>1 DEF Load, Loads
    <2>3. CASE a \notin Workers
      <3>1. job[a].queue = {}
        BY <1>1, <2>3 DEF Ownership, RunnersClaimNone, Actors
      <3> QED
        BY <1>1, <2>1, <3>1, FS_EmptySet, LoadType
    <2> QED
      BY <2>2, <2>3
  <1>12. LoadKept(a) /\ LinkKnown(a)
    BY <1>2, <1>5, <1>7, <1>11 DEF LoadKept, LinkKnown
  <1>13. NewlyAccounted
    BY <1>2 DEF NewlyAccounted
  <1> QED
    BY <1>8, <1>10, <1>12, <1>13 DEF RestMove

LEMMA LadderRests ==
    ASSUME RestInv, NEW a \in Actors, LadderStep(a)
    PROVE  RestMove(a)
  <1>1. /\ StrandInv /\ TypeInv /\ Ownership /\ Loads /\ LinksKnown /\ JobsTyped
        /\ outcomes \in Seq(OutcomeRow) /\ outcomes \in Seq(OutcomeRow)
    BY TypeParts DEF RestInv, StrandInv, RestTyped
  <1>2. CASE ReadHistory(a)
    <2>1. PICK n, last : Set(a, [job[a] EXCEPT !.pc = "decide", !.n = n, !.last = last])
      BY <1>2 DEF ReadHistory
    <2>2. job[a].pc = "history" /\ UNCHANGED <<events, actions, outcomes, links>>
      BY <1>2 DEF ReadHistory, tables
    <2>3. /\ job'[a].pc = "decide" /\ job'[a].act = job[a].act
          /\ job'[a].queue = job[a].queue
          /\ \A b \in Actors \ {a} : job'[b] = job[b]
      BY <1>1, <2>1 DEF Set, JobsTyped, Job
    <2>4. AtHand(a)' = AtHand(a)
      BY <2>2, <2>3 DEF AtHand
    <2>5. Rows(a) /\ LoadKept(a)
      BY <1>1, <2>2, <2>3, <2>4, SameLoad
    <2>6. LinkKnown(a)
      BY <2>2, <2>3 DEF LinkKnown, LinkPC
    <2>7. StillAccounted /\ NewlyAccounted
      BY <2>2 DEF StillAccounted, NewlyAccounted, Accounted, Accounts
    <2> QED
      BY <2>5, <2>6, <2>7 DEF RestMove
  <1>3. CASE LinkCreated(a) \/ LinkError(a)
    <2>1. PICK pc \in {"linked", "linkerror"} :
            /\ Set(a, [job[a] EXCEPT !.pc = pc])
            /\ links \subseteq links' /\ (pc = "linked" => job[a].act \in links')
      BY <1>3 DEF LinkCreated, LinkError
    <2>2. job[a].pc = "link" /\ UNCHANGED <<events, actions, outcomes>>
      BY <1>3 DEF LinkCreated, LinkError, tables
    <2>3. /\ job'[a].pc = pc /\ job'[a].act = job[a].act /\ job'[a].ev = job[a].ev
          /\ job'[a].queue = job[a].queue
          /\ \A b \in Actors \ {a} : job'[b] = job[b]
      BY <1>1, <2>1 DEF Set, JobsTyped, Job
    <2>4. AtHand(a)' = AtHand(a)
      BY <2>2, <2>3 DEF AtHand
    <2>5. Rows(a) /\ LoadKept(a)
      BY <1>1, <2>2, <2>3, <2>4, SameLoad
    <2>6. actions[job[a].act].ev = job[a].ev
      BY <1>1, <2>2 DEF LinksKnown, LinkPC
    <2>7. LinkKnown(a)
      BY <2>1, <2>2, <2>3, <2>6 DEF LinkKnown
    <2>8. StillAccounted /\ NewlyAccounted
      BY <2>1, <2>2 DEF StillAccounted, NewlyAccounted, Accounted, Accounts
    <2> QED
      BY <2>5, <2>7, <2>8 DEF RestMove
  <1>4. CASE DeferLink(a) \/ RecordLink(a) \/ RecordLinkError(a)
    <2>1. /\ job[a].pc \in {"link", "linked", "linkerror"} /\ MarkHandled(a) /\ Finish(a)
          /\ UNCHANGED <<outcomes, links>>
      BY <1>4 DEF DeferLink, RecordLink, RecordLinkError, EndLink
    <2>2. PICK status \in {"planned", "executed", "failed"}, exec \in Time,
               entries \in SUBSET AuditAction, response \in {None, "answer"} :
            /\ actions' = Settle(a, status, exec, entries, response)
            /\ status = "failed" => response = None
            /\ status = "executed" => job[a].pc = "linked"
      BY <1>1, <1>4, Written DEF DeferLink, RecordLink, RecordLinkError, EndLink
    <2>3. AtHand(a) = {job[a].act}
      BY <2>1 DEF AtHand
    <2>4. PICK id \in ActionIds : id = job[a].act
      BY <1>1, <2>3, OwnedRows
    <2>5. actions[id].ev = job[a].ev /\ (job[a].pc = "linked" => id \in links)
      BY <1>1, <2>1, <2>4 DEF LinksKnown, LinkPC
    <2>6. Records /\ outcomes' \in Seq(OutcomeRow)
      BY <1>1, <2>1 DEF Records, FinalOutcomes
    <2>7. LoadKept(a) /\ LinkKnown(a) /\ Owned(a)' = job[a].queue
      BY <1>1, <2>1, FinishRests
    <2>8. /\ Rows(a) /\ StillAccounted
          /\ actions'[id].ev = actions[id].ev /\ Accounts(id)'
      BY <1>1, <2>1, <2>2, <2>3, <2>4, <2>5, <2>6, <2>7, SettleLeaves, SMTT(40)
    <2>9. NewlyAccounted
      BY <1>1, <2>1, <2>5, <2>8, MarksOwn DEF Accounted
    <2> QED
      BY <2>7, <2>8, <2>9 DEF RestMove
  <1>5. CASE Skip(a) \/ ScheduleRetry(a) \/ LinkWithoutAmount(a) \/ Conclude(a)
    BY <1>1, <1>5, DecidingRests
  <1>6. CASE RequestLink(a)
    BY <1>1, <1>6, RequestRests
  <1> QED
    BY <1>2, <1>3, <1>4, <1>5, <1>6 DEF LadderStep

LEMMA SelectRests ==
    ASSUME RestInv, NEW w \in Workers, ClaimSelect(w)
    PROVE  RestMove(w)
  <1>1. /\ w \in Actors /\ TypeInv /\ Ownership /\ Loads /\ JobsTyped
        /\ job[w].pc = "idle" /\ UNCHANGED <<events, actions, outcomes, links>>
    BY TypeParts DEF RestInv, StrandInv, Actors, ClaimSelect, tables
  <1>2. PICK B \in SUBSET (Due \ LockedRows) :
          /\ B # {} /\ IsBatch(B, Due \ LockedRows)
          /\ Set(w, [IdleJob EXCEPT !.pc = "claim", !.now = clock, !.queue = B])
    BY DEF ClaimSelect
  <1>3. /\ job'[w].pc = "claim" /\ job'[w].queue = B
        /\ \A b \in Actors \ {w} : job'[b] = job[b]
    BY <1>1, <1>2 DEF JobsTyped, IdleJob, Set
  <1>4. Owned(w) = {} /\ AtHand(w)' = {}
    BY <1>1, <1>3 DEF Loads, Owned, AtHand
  <1>5. Cardinality(B) <= Limit
    BY <1>2, Constants DEF IsBatch
  <1>6. Load(w)' <= Limit
    <2>1. B \subseteq ActionIds
      BY DEF Due
    <2>2. IsFiniteSet(B)
      BY <2>1, Constants, FS_Subset
    <2>3. Cardinality(B) \in Nat
      BY <2>2, FS_CardinalityType
    <2> QED
      BY <1>3, <1>4, <1>5, <2>3 DEF Load
  <1>7. Rows(w)
    BY <1>1, <1>4 DEF Rows
  <1>8. LoadKept(w) /\ LinkKnown(w)
    BY <1>1, <1>3, <1>6 DEF LoadKept, LinkKnown, LinkPC
  <1>9. StillAccounted /\ NewlyAccounted
    BY <1>1 DEF StillAccounted, NewlyAccounted, Accounted, Accounts
  <1> QED
    BY <1>7, <1>8, <1>9 DEF RestMove

(* A step of a worker that settles nothing and records nothing: its rows   *)
(* go from scheduled to executing, or stay so.                             *)
LEMMA StepsOnRests ==
    ASSUME StrandInv, NEW w \in Workers, UNCHANGED <<events, outcomes, links>>,
           Rows(w), LoadKept(w), job'[w].pc \notin LinkPC,
           \A id \in ActionIds : /\ actions'[id].ev = actions[id].ev
                                 /\ \/ actions'[id] = actions[id]
                                    \/ actions'[id].status = "executing"
    PROVE  RestMove(w)
  <1>1. LinkKnown(w)
    BY DEF LinkKnown, LinkPC
  <1>2. \A id \in ActionIds : Accounts(id) => Accounts(id)'
    BY DEF Accounts
  <1>3. StillAccounted /\ NewlyAccounted
    BY <1>2 DEF StillAccounted, NewlyAccounted, Accounted
  <1> QED
    BY <1>1, <1>3 DEF RestMove

LEMMA WorkerRests ==
    ASSUME RestInv, NEW w \in Workers, WorkerStep(w)
    PROVE  RestMove(w)
  <1>1. /\ w \in Actors /\ StrandInv /\ TypeInv /\ Ownership /\ Loads /\ WorkersRetry
        /\ JobsTyped /\ RowsTyped /\ job[w] \in Job /\ job[w].queue \subseteq ActionIds
        /\ outcomes \in Seq(OutcomeRow) /\ w \notin Runners
    BY TypeParts, ExecutorAssumption DEF RestInv, StrandInv, RestTyped, JobsTyped, Job, Actors
  <1>2. CASE ClaimSelect(w)
    BY <1>2, SelectRests
  <1>3. CASE ClaimCommit(w)
    <2>1. /\ job'[w].pc = "next" /\ job'[w].queue = job[w].queue /\ job[w].pc = "claim"
          /\ \A b \in Actors \ {w} : job'[b] = job[b]
          /\ UNCHANGED <<events, outcomes, links>>
      BY <1>1, <1>3 DEF ClaimCommit, Set, JobsTyped, Job
    <2>2. \A id \in ActionIds :
             /\ actions'[id].ev = actions[id].ev
             /\ IF id \in job[w].queue THEN actions'[id].status = "executing"
                ELSE actions'[id] = actions[id]
      BY <1>1, <1>3 DEF ClaimCommit, RowsTyped, ActionRow
    <2>3. /\ AtHand(w)' = {} /\ AtHand(w) = {}
          /\ Owned(w)' = job[w].queue /\ Owned(w) = job[w].queue
      BY <2>1 DEF AtHand, Owned
    <2>4. Rows(w)
      BY <2>2, <2>3 DEF Rows
    <2>5. Load(w)' = Load(w)
      BY <2>1, <2>3 DEF Load
    <2>6. LoadKept(w)
      BY <1>1, <2>1, <2>5 DEF LoadKept, Loads
    <2>7. job'[w].pc \notin LinkPC
      BY <2>1 DEF LinkPC
    <2> QED
      BY <1>1, <2>1, <2>2, <2>4, <2>6, <2>7, StepsOnRests
  <1>4. CASE StartRetry(w)
    <2>1. PICK id, ev, sub, cat, status :
            /\ id \in job[w].queue
            /\ actions' = [actions EXCEPT ![id].aud = @ \cup {"recovery.retry.attempted"}]
            /\ Set(w, [IdleJob EXCEPT !.pc = "fetch", !.act = id, !.ev = ev, !.sub = sub,
                                      !.cat = cat, !.status = status, !.now = job[w].now,
                                      !.queue = job[w].queue \ {id}])
      BY <1>4 DEF StartRetry
    <2>2. /\ job'[w].pc = "fetch" /\ job'[w].act = id
          /\ job'[w].queue = job[w].queue \ {id} /\ job[w].pc = "next"
          /\ \A b \in Actors \ {w} : job'[b] = job[b]
          /\ UNCHANGED <<events, outcomes, links>>
      BY <1>1, <1>4, <2>1 DEF IdleJob, Set, JobsTyped, StartRetry
    <2>3. /\ \A y \in ActionIds : /\ actions'[y].status = actions[y].status
                                  /\ actions'[y].ev = actions[y].ev
          /\ \A y \in ActionIds \ {id} : actions'[y] = actions[y]
      BY <1>1, <2>1 DEF RowsTyped, ActionRow
    <2>4. /\ AtHand(w)' = {id} /\ Owned(w)' = job[w].queue
          /\ AtHand(w) = {} /\ Owned(w) = job[w].queue
      BY <2>1, <2>2 DEF AtHand, Owned
    <2>5. actions[id].status = "executing"
      BY <1>1, <2>1, <2>2, <2>4 DEF Ownership, OwnedExecuting
    <2>6. Rows(w)
      BY <2>3, <2>4 DEF Rows
    <2>7. Load(w)' <= Limit
      <3>1. Cardinality(job[w].queue \ {id}) = Cardinality(job[w].queue) - 1
        BY <1>1, <2>1, LoadType, FS_RemoveElement
      <3>2. Load(w)' = Cardinality(job[w].queue \ {id}) + 1
        BY <2>2, <2>4 DEF Load
      <3>3. Load(w) = Cardinality(job[w].queue) + 0
        BY <2>4 DEF Load
      <3> QED
        BY <1>1, <3>1, <3>2, <3>3, LoadType DEF Loads
    <2>8. LoadKept(w) /\ job'[w].pc \notin LinkPC
      BY <2>2, <2>7 DEF LoadKept, LinkPC
    <2>9. \A y \in ActionIds : actions'[y] = actions[y] \/ actions'[y].status = "executing"
      BY <2>3, <2>5
    <2> QED
      BY <1>1, <2>2, <2>3, <2>6, <2>8, <2>9, StepsOnRests
  <1>5. CASE Fetch(w) \/ Relapse(w)
    <2>1. /\ job'[w].pc \in {"fetched", "history"} /\ job[w].pc \in {"fetch", "fetched"}
          /\ job'[w].act = job[w].act /\ job'[w].queue = job[w].queue
          /\ \A b \in Actors \ {w} : job'[b] = job[b]
          /\ UNCHANGED <<events, actions, outcomes, links>>
      <3>1. CASE Fetch(w)
        <4>1. PICK status, dirty :
                Set(w, [job[w] EXCEPT !.pc = "fetched", !.status = status, !.dirty = dirty])
          BY <3>1 DEF Fetch
        <4> QED
          BY <1>1, <3>1, <4>1 DEF Fetch, Call, Set, JobsTyped, Job, tables
      <3>2. CASE Relapse(w)
        BY <1>1, <3>2 DEF Relapse, MayFlush, Set, JobsTyped, Job, tables
      <3> QED
        BY <1>5, <3>1, <3>2
    <2>2. AtHand(w)' = AtHand(w) /\ job'[w].pc \notin LinkPC /\ job'[w].pc # "idle"
      BY <2>1 DEF AtHand, LinkPC
    <2>3. Rows(w) /\ LoadKept(w)
      BY <1>1, <2>1, <2>2, SameLoad
    <2> QED
      BY <1>1, <2>1, <2>2, <2>3, StepsOnRests
  <1>6. CASE DeferRetry(w) \/ FetchError(w) \/ Recover(w)
    <2>1. /\ job[w].pc \in {"fetch", "fetched"} /\ Finish(w) /\ UNCHANGED <<events, links>>
      BY <1>6 DEF DeferRetry, FetchError, Recover, Call, MayFlush, EndRetry
    <2>2. PICK status \in {"planned", "executed", "failed"}, exec \in Time,
               entries \in SUBSET AuditAction, response \in {None, "answer"} :
            /\ actions' = Settle(w, status, exec, entries, response)
            /\ status = "failed" => response = None
            /\ status = "executed" => Recover(w)
      BY <1>1, <1>6, Written DEF DeferRetry, FetchError, Recover, EndRetry
    <2>3. AtHand(w) = {job[w].act} /\ job[w].ev \in Events
      BY <1>1, <2>1 DEF AtHand, JobsTyped
    <2>4. PICK id \in ActionIds : id = job[w].act
      BY <1>1, <2>3, OwnedRows
    <2> DEFINE o == [act |-> job[w].act, ev |-> job[w].ev, kind |-> "recovered"]
    <2>5. o \in OutcomeRow /\ o.act = id
      BY <2>3, <2>4 DEF OutcomeRow, OutcomeStatus
    <2>6. \/ UNCHANGED outcomes /\ ~Recover(w)
          \/ outcomes' = Append(outcomes, o)
      BY <1>6 DEF DeferRetry, FetchError, Recover
    <2> HIDE DEF o
    <2>7. /\ Records /\ outcomes' \in Seq(OutcomeRow)
          /\ Recover(w) => \E i \in 1 .. Len(outcomes') : outcomes'[i].act = id
      <3>1. CASE UNCHANGED outcomes /\ ~Recover(w)
        BY <1>1, <2>1, <3>1 DEF Records, FinalOutcomes
      <3>2. CASE outcomes' = Append(outcomes, o)
        <4>1. /\ outcomes' \in Seq(OutcomeRow) /\ Len(outcomes') = Len(outcomes) + 1
              /\ Len(outcomes) \in Nat /\ outcomes'[Len(outcomes) + 1] = o
              /\ \A i \in 1 .. Len(outcomes) : outcomes'[i] = outcomes[i]
          BY <1>1, <2>5, <3>2
        <4> QED
          BY <2>1, <2>5, <4>1 DEF Records, FinalOutcomes
      <3> QED
        BY <2>6, <3>1, <3>2
    <2>8. LoadKept(w) /\ LinkKnown(w) /\ Owned(w)' = job[w].queue
      BY <1>1, <2>1, FinishRests
    <2>9. Rows(w) /\ StillAccounted
      BY <1>1, <2>2, <2>3, <2>4, <2>7, <2>8, SettleLeaves, SMTT(40)
    <2>10. NewlyAccounted
      BY <2>1 DEF NewlyAccounted
    <2> QED
      BY <2>8, <2>9, <2>10 DEF RestMove
  <1>7. CASE LadderStep(w)
    BY <1>1, <1>7, LadderRests
  <1> QED
    BY <1>2, <1>3, <1>4, <1>5, <1>6, <1>7 DEF WorkerStep

LEMMA RunnerRests ==
    ASSUME RestInv, NEW r \in Runners, RunnerStep(r)
    PROVE  RestMove(r)
  <1>1. /\ r \in Actors /\ r \notin Workers /\ TypeInv /\ Ownership /\ Loads
        /\ JobsTyped /\ RestTyped
    BY TypeParts, ExecutorAssumption DEF RestInv, StrandInv, Actors
  <1>2. ASSUME Begins(r), NewlyAccounted PROVE RestMove(r)
    <2>1. /\ AtHand(r)' = {} /\ AtHand(r) = {} /\ job'[r].queue = {} /\ job[r].queue = {}
          /\ UNCHANGED <<actions, outcomes, links>>
      BY <1>1, <1>2 DEF Begins, AtHand, Ownership, RunnersClaimNone
    <2>2. Owned(r) = {}
      BY <2>1 DEF Owned
    <2>3. Rows(r)
      BY <2>1, <2>2 DEF Rows
    <2>4. Load(r)' = 0
      BY <2>1, FS_EmptySet DEF Load
    <2>5. LoadKept(r)
      BY <1>2, <2>1, <2>4, LimitAssumption DEF LoadKept, Begins
    <2>6. LinkKnown(r)
      BY <1>2 DEF Begins, LinkKnown, LinkPC
    <2>7. StillAccounted
      BY <2>1 DEF StillAccounted, Accounted, Accounts
    <2> QED
      BY <1>2, <2>3, <2>5, <2>6, <2>7 DEF RestMove
  <1>3. CASE \E e \in Events : HandOver(r, e)
    <2>1. Begins(r) /\ events' = events
      BY <1>1, <1>3, HandOverBegins
    <2> QED
      BY <1>2, <2>1 DEF NewlyAccounted
  <1>4. CASE SkipRun(r)
    <2>1. /\ Begins(r) /\ events'[job[r].ev].state = "failed"
          /\ \A f \in Events \ {job[r].ev} : events'[f] = events[f]
      BY <1>1, <1>4, SkipRunBegins
    <2> QED
      BY <1>2, <2>1 DEF NewlyAccounted
  <1>5. CASE StartRun(r)
    <2>1. Begins(r) /\ events' = events
      BY <1>1, <1>5, StartRunBegins
    <2> QED
      BY <1>2, <2>1 DEF NewlyAccounted
  <1>6. CASE LadderStep(r)
    BY <1>1, <1>6, LadderRests
  <1> QED
    BY <1>3, <1>4, <1>5, <1>6 DEF RunnerStep

-----------------------------------------------------------------------------
(* The invariant: a step of a session that goes on, of one that is lost,   *)
(* and of nobody's.                                                        *)

LEMMA OrphansFinite ==
    IsFiniteSet(Orphans) /\ Cardinality(Orphans) \in Nat
  <1>1. Orphans \subseteq ActionIds
    BY DEF Orphans
  <1> QED
    BY <1>1, Constants, FS_Subset, FS_CardinalityType

LEMMA RestMoveKeeps ==
    ASSUME RestInv, NEW a \in Actors, RowStep(a), RestMove(a), faults' = faults
    PROVE  Loads' /\ LinksKnown' /\ OrphansBounded' /\ HandledAccounted'
  <1>1. TypeInv /\ Ownership /\ Loads /\ LinksKnown /\ OrphansBounded /\ HandledAccounted
    BY DEF RestInv, StrandInv
  <1>2. \A b \in Actors \ {a} : /\ job'[b] = job[b] /\ Load(b)' = Load(b)
                              /\ Owned(b)' = Owned(b)
    BY DEF RestMove, LoadKept, Load, Owned, AtHand
  <1>3. Loads'
    BY <1>1, <1>2 DEF Loads, RestMove, LoadKept
  <1>4. LinksKnown'
    <2> SUFFICES ASSUME NEW b \in Actors
                 PROVE  /\ job'[b].pc \in LinkPC => actions'[job'[b].act].ev = job'[b].ev
                        /\ job'[b].pc = "linked" => job'[b].act \in links'
      BY DEF LinksKnown
    <2>1. CASE b = a
      BY <2>1 DEF RestMove, LinkKnown
    <2>2. CASE b # a
      <3>1. job[b].pc \in LinkPC => actions'[job[b].act] = actions[job[b].act]
        BY <1>1, <2>2, OthersUntouched DEF LinkPC, Owned, AtHand
      <3> QED
        BY <1>1, <1>2, <2>2, <3>1 DEF LinksKnown, RestMove, LinkKnown
    <2> QED
      BY <2>1, <2>2
  <1>5. OrphansBounded'
    <2>1. Orphans' \subseteq Orphans
      <3> SUFFICES ASSUME NEW id \in ActionIds, actions'[id].status = "executing",
                          \A b \in Actors : id \notin Owned(b)'
                   PROVE  /\ actions[id].status = "executing"
                          /\ \A b \in Actors : id \notin Owned(b)
        BY DEF Orphans
      <3>1. actions[id].status = "executing" /\ id \notin Owned(a)
        BY DEF RestMove, Rows
      <3> QED
        BY <1>2, <3>1
    <2>2. /\ Cardinality(Orphans') <= Cardinality(Orphans) /\ Cardinality(Orphans') \in Nat
          /\ Cardinality(Orphans) \in Nat
      BY <2>1, OrphansFinite, FS_Subset, FS_CardinalityType
    <2>3. faults * Limit \in Nat
      BY <1>1, TypeParts, LimitAssumption DEF RestTyped
    <2>4. Cardinality(Orphans') <= faults * Limit
      BY <1>1, <2>2, <2>3 DEF OrphansBounded
    <2> QED
      BY <2>4 DEF OrphansBounded
  <1>6. HandledAccounted'
    BY <1>1 DEF HandledAccounted, RestMove, NewlyAccounted, StillAccounted, Accounted
  <1> QED
    BY <1>3, <1>4, <1>5, <1>6

(* A lost session leaves the rows it was answerable for.                   *)
LEMMA AbortRests ==
    ASSUME RestInv, NEW a \in Actors, Abort(a)
    PROVE  Loads' /\ LinksKnown' /\ OrphansBounded' /\ HandledAccounted'
  <1>1. /\ TypeInv /\ Ownership /\ Loads /\ LinksKnown /\ OrphansBounded
        /\ HandledAccounted /\ JobsTyped /\ faults \in Nat /\ Limit \in Nat
    BY TypeParts, LimitAssumption DEF RestInv, StrandInv, RestTyped
  <1>2. /\ job'[a].pc = "idle" /\ job'[a].queue = {} /\ faults' = faults + 1
        /\ UNCHANGED <<events, actions, outcomes, links>>
        /\ \A b \in Actors \ {a} : job'[b] = job[b]
    BY <1>1 DEF Abort, Set, JobsTyped, IdleJob, tables
  <1>3. \A b \in Actors \ {a} : Load(b)' = Load(b) /\ Owned(b)' = Owned(b)
    BY <1>2 DEF Load, Owned, AtHand
  <1>4. Load(a)' <= Limit
    <2>1. AtHand(a)' = {}
      BY <1>2 DEF AtHand
    <2>2. Load(a)' = 0
      BY <1>2, <2>1, FS_EmptySet DEF Load
    <2> QED
      BY <1>1, <2>2
  <1>5. Loads'
    BY <1>1, <1>2, <1>3, <1>4 DEF Loads
  <1>6. LinksKnown' /\ HandledAccounted'
    BY <1>1, <1>2 DEF LinksKnown, LinkPC, HandledAccounted, Accounts
  <1>7. Cardinality(Owned(a)) <= Limit /\ IsFiniteSet(Owned(a)) /\ Cardinality(Owned(a)) \in Nat
    <2>1. AtHand(a) = {} \/ AtHand(a) = {job[a].act}
      BY DEF AtHand
    <2>2. CASE AtHand(a) = {}
      BY <1>1, <2>2, LoadType DEF Owned, Load, Loads
    <2>3. CASE AtHand(a) = {job[a].act}
      <3>1. Load(a) = Cardinality(job[a].queue) + 1
        BY <2>3 DEF Load
      <3>2. /\ Cardinality(Owned(a)) <= Cardinality(job[a].queue) + 1
            /\ Cardinality(Owned(a)) \in Nat
        BY <1>1, <2>3, LoadType, AddedAtMostOne DEF Owned
      <3>3. IsFiniteSet(Owned(a))
        BY <1>1, <2>3, LoadType, FS_AddElement DEF Owned
      <3> QED
        BY <1>1, <3>1, <3>2, <3>3, LoadType DEF Loads
    <2> QED
      BY <2>1, <2>2, <2>3
  <1>8. OrphansBounded'
    <2>1. Orphans' \subseteq Orphans \cup Owned(a)
      BY <1>2, <1>3 DEF Orphans
    <2>2. /\ IsFiniteSet(Orphans \cup Owned(a))
          /\ Cardinality(Orphans \cup Owned(a))
                <= Cardinality(Orphans) + Cardinality(Owned(a))
      <3>1. IsFiniteSet(Orphans \cup Owned(a))
        BY <1>7, OrphansFinite, FS_Union
      <3>2. Cardinality(Orphans \cup Owned(a)) = Cardinality(Orphans)
               + Cardinality(Owned(a)) - Cardinality(Orphans \cap Owned(a))
        BY <1>7, OrphansFinite, FS_Union
      <3>3. Cardinality(Orphans \cap Owned(a)) \in Nat
        BY OrphansFinite, FS_Intersection, FS_CardinalityType
      <3> QED
        BY <1>7, <3>1, <3>2, <3>3, OrphansFinite
    <2>3. /\ Cardinality(Orphans') <= Cardinality(Orphans) + Cardinality(Owned(a))
          /\ Cardinality(Orphans') \in Nat
      <3>1. /\ IsFiniteSet(Orphans')
            /\ Cardinality(Orphans') <= Cardinality(Orphans \cup Owned(a))
        BY <2>1, <2>2, FS_Subset
      <3>2. Cardinality(Orphans') \in Nat /\ Cardinality(Orphans \cup Owned(a)) \in Nat
        BY <2>2, <3>1, FS_CardinalityType
      <3> QED
        BY <1>7, <2>2, <3>1, <3>2, OrphansFinite
    <2>4. Cardinality(Orphans) <= faults * Limit /\ faults * Limit \in Nat
      BY <1>1 DEF OrphansBounded
    <2>5. (faults + 1) * Limit = faults * Limit + Limit
      BY <1>1
    <2>6. Cardinality(Orphans') <= (faults + 1) * Limit
      BY <1>1, <1>7, <2>3, <2>4, <2>5, OrphansFinite
    <2> QED
      BY <1>2, <2>6 DEF OrphansBounded
  <1> QED
    BY <1>5, <1>6, <1>8

(* A step of the webhooks, of time, of Razorpay or of the settings.        *)
LEMMA NobodyRests ==
    ASSUME RestInv, UNCHANGED <<actions, outcomes, links, job, faults>>,
           \A e \in Events : events'[e].state = "processed" =>
               events[e].state = "processed"
    PROVE  Loads' /\ LinksKnown' /\ OrphansBounded' /\ HandledAccounted'
  <1>1. Loads /\ LinksKnown /\ OrphansBounded /\ HandledAccounted
    BY DEF RestInv
  <1>2. \A a \in Actors : Owned(a)' = Owned(a) /\ Load(a)' = Load(a)
    BY DEF Owned, AtHand, Load
  <1>3. Loads' /\ LinksKnown'
    BY <1>1, <1>2 DEF Loads, LinksKnown
  <1>4. Orphans' = Orphans
    BY <1>2 DEF Orphans
  <1>5. OrphansBounded'
    BY <1>1, <1>4 DEF OrphansBounded
  <1>6. HandledAccounted'
    BY <1>1 DEF HandledAccounted, Accounts
  <1> QED
    BY <1>3, <1>5, <1>6

LEMMA EnvironmentRests ==
    ASSUME RestInv,
           \/ \E e \in Events : Ingest(e)
           \/ Tick
           \/ \E s \in Subs : LiveChange(s)
           \/ WireClient
           \/ UNCHANGED vars
    PROVE  Loads' /\ LinksKnown' /\ OrphansBounded' /\ HandledAccounted'
  <1>1. events \in [Events -> EventRow]
    BY TypeParts DEF RestInv, StrandInv, RestTyped
  <1>2. UNCHANGED <<actions, outcomes, links, job, faults>>
    BY DEF Ingest, Tick, LiveChange, WireClient, vars, tables
  <1>3. \A e \in Events : events'[e].state = "processed" => events[e].state = "processed"
    <2>1. ASSUME NEW f \in Events, Ingest(f)
          PROVE  \A e \in Events : events'[e].state = "processed" => events[e].state = "processed"
      BY <1>1, <2>1 DEF Ingest
    <2>2. ASSUME UNCHANGED events
          PROVE  \A e \in Events : events'[e].state = "processed" => events[e].state = "processed"
      BY <2>2
    <2> QED
      BY <2>1, <2>2 DEF Tick, LiveChange, WireClient, vars, tables
  <1> QED
    BY <1>2, <1>3, NobodyRests

LEMMA RestInit == Init => RestInv
  <1> SUFFICES ASSUME Init PROVE RestInv
    OBVIOUS
  <1>1. /\ \A a \in Actors : job[a].pc = "idle" /\ job[a].queue = {}
        /\ \A id \in ActionIds : actions[id].status = "absent"
        /\ \A e \in Events : events[e].state = "absent"
        /\ faults = 0
    BY DEF Init, IdleJob, AbsentRow, AbsentEvent
  <1>2. Limit \in Nat
    BY LimitAssumption
  <1>3. ASSUME NEW a \in Actors PROVE Load(a) <= Limit
    <2>1. AtHand(a) = {}
      BY <1>1 DEF AtHand
    <2>2. Load(a) = 0
      BY <1>1, <2>1, FS_EmptySet DEF Load
    <2> QED
      BY <1>2, <2>2
  <1>4. Loads /\ LinksKnown
    BY <1>1, <1>3 DEF Loads, LinksKnown, LinkPC
  <1>5. OrphansBounded
    <2>1. Orphans = {}
      BY <1>1 DEF Orphans
    <2> QED
      BY <1>1, <1>2, <2>1, FS_EmptySet DEF OrphansBounded
  <1>6. HandledAccounted
    BY <1>1 DEF HandledAccounted
  <1> QED
    BY <1>4, <1>5, <1>6, StrandInit DEF RestInv

LEMMA RestStep ==
    ASSUME RestInv, [Next]_vars
    PROVE  RestInv'
  <1>1. StrandInv /\ TypeInv /\ Ownership
    BY DEF RestInv, StrandInv
  <1>2. StrandInv'
    BY <1>1, StrandStep
  <1>3. Loads' /\ LinksKnown' /\ OrphansBounded' /\ HandledAccounted'
    <2>1. ASSUME NEW r \in Runners, RunnerNext(r)
          PROVE  Loads' /\ LinksKnown' /\ OrphansBounded' /\ HandledAccounted'
      <3>1. RunnerStep(r) /\ faults' = faults /\ r \in Actors
        BY <2>1 DEF RunnerNext, Actors
      <3>2. RowStep(r)
        BY <1>1, <3>1, RunnerOwns
      <3> QED
        BY <3>1, <3>2, RunnerRests, RestMoveKeeps
    <2>2. ASSUME NEW w \in Workers, WorkerNext(w)
          PROVE  Loads' /\ LinksKnown' /\ OrphansBounded' /\ HandledAccounted'
      <3>1. WorkerStep(w) /\ faults' = faults /\ w \in Actors
        BY <2>2 DEF WorkerNext, Actors
      <3>2. RowStep(w)
        BY <1>1, <3>1, WorkerOwns
      <3> QED
        BY <3>1, <3>2, WorkerRests, RestMoveKeeps
    <2>3. ASSUME NEW a \in Actors, Abort(a)
          PROVE  Loads' /\ LinksKnown' /\ OrphansBounded' /\ HandledAccounted'
      BY <2>3, AbortRests
    <2> QED
      BY <2>1, <2>2, <2>3, EnvironmentRests DEF Next
  <1> QED
    BY <1>2, <1>3 DEF RestInv

LEMMA StrandedWithin == RestInv => StrandedBound
  <1> SUFFICES ASSUME RestInv PROVE StrandedBound
    OBVIOUS
  <1>1. Stranded \subseteq Orphans
    BY DEF Stranded, Orphans, Owned, AtHand
  <1>2. /\ Cardinality(Stranded) <= Cardinality(Orphans) /\ Cardinality(Stranded) \in Nat
        /\ Cardinality(Orphans) \in Nat
    BY <1>1, OrphansFinite, FS_Subset, FS_CardinalityType
  <1>3. faults * Limit \in Nat /\ Cardinality(Orphans) <= faults * Limit
    BY TypeParts, LimitAssumption DEF RestInv, StrandInv, RestTyped, OrphansBounded
  <1> QED
    BY <1>2, <1>3 DEF StrandedBound

(* No query of the loop selects an executing row (retry_scheduler.py       *)
(* 102-104, 112-115), so that one whose session forgets it stays so: none  *)
(* is forgotten but by a lost session, and then no more than one batch.    *)
THEOREM StrandingBounded == Spec => []StrandedBound
  <1>1. Init => RestInv
    BY RestInit
  <1>2. RestInv /\ [Next]_vars => RestInv'
    BY RestStep
  <1>3. RestInv => StrandedBound
    BY StrandedWithin
  <1> QED
    BY <1>1, <1>2, <1>3, PTL DEF Spec

(* No failed payment drops out of sight (executor.py 481-484;              *)
(* retry_scheduler.py 246-261, 291): whichever session is cut off and      *)
(* wherever, an event marked processed has a row that is yet to run, ended *)
(* in an outcome or a link, was denied, or failed without an answer.       *)
THEOREM HandledStaysAccounted == Spec => []HandledAccounted
  <1>1. Init => RestInv
    BY RestInit
  <1>2. RestInv /\ [Next]_vars => RestInv'
    BY RestStep
  <1>3. RestInv => HandledAccounted
    BY DEF RestInv
  <1> QED
    BY <1>1, <1>2, <1>3, PTL DEF Spec
=============================================================================
