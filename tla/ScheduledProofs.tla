-------------------------- MODULE ScheduledProofs --------------------------
(***************************************************************************)
(* Theorems about Roster and Scheduled, for any accounts, sheets, limits,  *)
(* requests, drawers, prizes and rosters.                                  *)
(*                                                                         *)
(* First the roster: rows are made by Upsert alone, which the unique key   *)
(* guards, and a handler passes the count only while there is a place.     *)
(* Then the assignment, by induction over the prizes.  Last the drawers    *)
(* over the roster, which they read but never change.                      *)
(***************************************************************************)
EXTENDS Scheduled, DataLemmas, SequenceTheorems

\* A handler at work has a user.
Busy == \A h \in Enrollers : enr[h].at # "idle" => enr[h].user \in Users

\* A row that no import made carries its account.
RowsLinked == \A r \in rows : r.uid \notin imported => r.user = r.uid

\* A barred user's request does not get beyond the blacklist, because no step
\* takes anybody off it.
BarredListed ==
    \A h \in Enrollers : enr[h].barred =>
       /\ enr[h].at = "black"
       /\ enr[h].user \in blacklist

\* The requests past the count that will add an enrollment
Inserting == {h \in Enrollers : enr[h].at = "insert" /\ enr[h].user \notin enrollments}

IInv == /\ RosterTypeOK /\ Busy
        /\ IsFiniteSet(enrollments)
        /\ OneHead /\ OnRoster /\ RowsLinked /\ BarredListed /\ Overshoot
-----------------------------------------------------------------------------
(* Upsert.                                                                 *)

LEMMA UpsertRows ==
  ASSUME RosterTypeOK, OneHead, NEW uid \in Uids, NEW user \in Users \cup {None},
         Upsert(uid, user)
  PROVE  /\ rows' \in SUBSET Row /\ lastId' \in 0 .. MaxRow
         /\ \A r \in rows' : r.id <= lastId'
         /\ OneHead'
         /\ rows \subseteq rows'
         /\ \E r \in rows' : r.uid = uid
         /\ RowOf(uid) # {} => rows' = rows
         /\ \A r \in rows' \ rows : r.uid = uid /\ r.user = user
<1>1. CASE RowOf(uid) # {}
  BY <1>1 DEF Upsert, RosterTypeOK, OneHead, RowOf
<1>2. CASE RowOf(uid) = {}
  <2> DEFINE new == [id |-> lastId + 1, uid |-> uid, user |-> user]
  <2>1. rows' = rows \cup {new} /\ lastId' = lastId + 1 /\ lastId < MaxRow
    BY <1>2 DEF Upsert
  <2>2. lastId + 1 \in 1 .. MaxRow
    BY <2>1, RosterAssumption DEF RosterTypeOK, RosterAssumption
  <2>3. new \in Row /\ new.id = lastId + 1 /\ new.uid = uid /\ new.user = user
    BY <2>2 DEF Row
  <2>4. \A r \in rows : r \in Row /\ r.id \in Nat /\ r.id <= lastId /\ r.uid # uid
    BY <1>2 DEF RosterTypeOK, RowOf, Row
  <2> HIDE DEF new
  <2>5. \A r \in rows' : r.id <= lastId'
    BY <2>1, <2>2, <2>3, <2>4, RosterAssumption DEF RosterTypeOK, RosterAssumption
  <2>6. OneHead'
    BY <2>1, <2>2, <2>3, <2>4, RosterAssumption DEF RosterTypeOK, RosterAssumption, OneHead
  <2>7. rows' \in SUBSET Row /\ lastId' \in 0 .. MaxRow
    BY <2>1, <2>2, <2>3, RosterAssumption DEF RosterTypeOK, RosterAssumption
  <2> QED
    BY <1>2, <2>1, <2>3, <2>5, <2>6, <2>7
<1> QED
  BY <1>1, <1>2
-----------------------------------------------------------------------------
(* The handlers of Enroll.                                                 *)

\* One handler moves, and what it does not touch stays.
HandlerMoved(h) ==
    /\ enr' \in [Enrollers -> [at : EnrollSteps, user : Users \cup {None}, barred : BOOLEAN]]
    /\ \A g \in Enrollers : g # h => enr'[g] = enr[g]
    /\ enr'[h].at # "idle" => enr'[h].user \in Users

LEMMA GotoMoves ==
  ASSUME RosterTypeOK, Busy, NEW h \in Enrollers, enr[h].at # "idle",
         NEW at \in EnrollSteps, Goto(h, at)
  PROVE  HandlerMoved(h) /\ enr'[h].at = at /\ enr'[h].user = enr[h].user
         /\ enr'[h].barred = enr[h].barred
BY DEF RosterTypeOK, Busy, Goto, HandlerMoved

LEMMA AnswerMoves ==
  ASSUME RosterTypeOK, NEW h \in Enrollers, Answer(h)
  PROVE  HandlerMoved(h) /\ enr'[h].at = "idle" /\ enr'[h].barred = FALSE
BY DEF RosterTypeOK, Answer, IdleHandler, HandlerMoved, EnrollSteps

\* What holds of the requests past the count when nobody joins them.
LEMMA InsertingShrinks ==
  ASSUME RosterTypeOK, Overshoot, IsFiniteSet(enrollments), Inserting' \subseteq Inserting,
         enrollments' = enrollments
  PROVE  Overshoot'
<1>1. IsFiniteSet(Inserting) /\ IsFiniteSet(Enrollers)
  BY RosterAssumption, FS_Subset DEF RosterAssumption, Inserting
<1>2. /\ Cardinality(Inserting') <= Cardinality(Inserting)
      /\ Cardinality(Inserting) \in Nat /\ Cardinality(Inserting') \in Nat
      /\ Cardinality(Enrollers) \in Nat /\ Cardinality(enrollments) \in Nat
  BY <1>1, FS_Subset, FS_CardinalityType
<1>3. Overshoot' <=> (MaxEnrollments > 0 =>
         Cardinality(enrollments) + Cardinality(Inserting')
            <= MaxEnrollments - 1 + Cardinality(Enrollers))
  BY DEF Overshoot, Inserting, CountEnroll
<1>4. Overshoot <=> (MaxEnrollments > 0 =>
         Cardinality(enrollments) + Cardinality(Inserting)
            <= MaxEnrollments - 1 + Cardinality(Enrollers))
  BY DEF Overshoot, Inserting, CountEnroll
<1> QED
  BY <1>2, <1>3, <1>4, RosterAssumption DEF RosterAssumption

LEMMA EnrollKeepsTypes ==
  ASSUME RosterTypeOK, Busy, OneHead, IsFiniteSet(enrollments), NEW h \in Enrollers, Enroll(h)
  PROVE  /\ RosterTypeOK' /\ Busy' /\ OneHead' /\ IsFiniteSet(enrollments')
         /\ HandlerMoved(h)
<1>0. enr[h].at # "idle" => enr[h].user \in Users /\ enr[h].user \in Uids
  BY DEF Busy, Uids
<1>1. HandlerMoved(h)
  <2>1. CASE EnrollStart(h)
    BY <2>1 DEF EnrollStart, RosterTypeOK, HandlerMoved, EnrollSteps
  <2>2. CASE EnrollBlacklisted(h) \/ EnrollCount(h)
    BY <2>2, GotoMoves, AnswerMoves DEF EnrollBlacklisted, EnrollCount, EnrollSteps
  <2>3. CASE EnrollInsert(h) \/ EnrollRow(h) \/ EnrollFails(h)
    BY <2>3, GotoMoves, AnswerMoves DEF EnrollInsert, EnrollRow, EnrollFails, EnrollSteps
  <2> QED
    BY <2>1, <2>2, <2>3 DEF Enroll
<1>2. Busy'
  BY <1>1 DEF HandlerMoved, Busy
<1>3. CASE EnrollStart(h) \/ EnrollBlacklisted(h) \/ EnrollCount(h) \/ EnrollFails(h)
  BY <1>1, <1>2, <1>3 DEF EnrollStart, EnrollBlacklisted, EnrollCount, EnrollFails, tables,
       RosterTypeOK, OneHead, HandlerMoved
<1>4. CASE EnrollInsert(h)
  <2>1. enrollments' \in SUBSET Users
    BY <1>0, <1>4 DEF EnrollInsert, RosterTypeOK
  <2>2. IsFiniteSet(enrollments')
    BY <1>4, FS_AddElement DEF EnrollInsert
  <2> QED
    BY <1>1, <1>2, <1>4, <2>1, <2>2 DEF EnrollInsert, RosterTypeOK, OneHead, HandlerMoved
<1>5. CASE EnrollRow(h)
  <2>1. enr[h].user \in Users
    BY <1>0, <1>5 DEF EnrollRow
  <2>2. /\ rows' \in SUBSET Row /\ lastId' \in 0 .. MaxRow
        /\ \A r \in rows' : r.id <= lastId'
        /\ OneHead'
    BY <1>0, <1>5, <2>1, UpsertRows DEF EnrollRow
  <2> QED
    BY <1>1, <1>2, <1>5, <2>1, <2>2 DEF EnrollRow, RosterTypeOK, HandlerMoved
<1> QED
  BY <1>1, <1>2, <1>3, <1>4, <1>5 DEF Enroll

LEMMA EnrollKeepsRoster ==
  ASSUME IInv, NEW h \in Enrollers, Enroll(h)
  PROVE  OnRoster' /\ RowsLinked' /\ BarredListed'
<1> USE DEF IInv
<1>0. HandlerMoved(h) /\ (enr[h].at # "idle" => enr[h].user \in Users /\ enr[h].user \in Uids)
  BY EnrollKeepsTypes DEF Busy, Uids
<1>1. blacklist' = blacklist /\ imported' = imported /\ removed' = removed
  BY DEF Enroll, EnrollStart, EnrollBlacklisted, EnrollCount, EnrollInsert, EnrollRow,
         EnrollFails, tables
<1>2. OnRoster' /\ RowsLinked'
  <2>1. CASE EnrollRow(h)
    <3>1. /\ rows \subseteq rows' /\ \E r \in rows' : r.uid = enr[h].user
          /\ \A r \in rows' \ rows : r.uid = enr[h].user /\ r.user = enr[h].user
      BY <1>0, <2>1, UpsertRows DEF EnrollRow
    <3> QED
      BY <1>1, <2>1, <3>1 DEF EnrollRow, OnRoster, RowsLinked, RowOf
  <2>2. CASE ~EnrollRow(h)
    <3>1. rows' = rows /\ answered' = answered
      BY <2>2 DEF Enroll, EnrollStart, EnrollBlacklisted, EnrollCount, EnrollInsert,
                  EnrollFails, tables
    <3> QED
      BY <1>1, <3>1 DEF OnRoster, RowsLinked, RowOf
  <2> QED
    BY <2>1, <2>2
<1>3. enr'[h].barred => enr'[h].at = "black" /\ enr'[h].user \in blacklist
  <2>1. CASE EnrollStart(h)
    <3>1. PICK u \in Users : enr' = [enr EXCEPT ![h] = [at |-> "black", user |-> u,
                                                       barred |-> u \in blacklist]]
      BY <2>1 DEF EnrollStart
    <3>2. /\ enr'[h].at = "black" /\ enr'[h].user = u
          /\ enr'[h].barred = (u \in blacklist)
      BY <3>1, Zenon DEF RosterTypeOK
    <3> QED
      BY <3>2
  <2>2. CASE EnrollBlacklisted(h)
    BY <2>2, GotoMoves, AnswerMoves DEF EnrollBlacklisted, Blacklisted, EnrollSteps, BarredListed
  <2>3. CASE EnrollCount(h) \/ EnrollInsert(h)
    BY <2>3, GotoMoves, AnswerMoves DEF EnrollCount, EnrollInsert, EnrollSteps, BarredListed
  <2>4. CASE EnrollRow(h) \/ EnrollFails(h)
    BY <2>4, AnswerMoves DEF EnrollRow, EnrollFails
  <2> QED
    BY <2>1, <2>2, <2>3, <2>4 DEF Enroll
<1> QED
  BY <1>0, <1>1, <1>2, <1>3 DEF HandlerMoved, BarredListed

\* The count lets a request pass only while there is a place, and an insert
\* turns a request past the count into an enrollment.
LEMMA EnrollKeepsOvershoot ==
  ASSUME IInv, NEW h \in Enrollers, Enroll(h)
  PROVE  Overshoot'
<1> USE DEF IInv
<1>0. HandlerMoved(h)
  BY EnrollKeepsTypes
<1>1. CASE MaxEnrollments = 0
  BY <1>1 DEF Overshoot
<1>2. CASE enrollments' = enrollments /\ enr'[h].at # "insert"
  <2>1. Inserting' \subseteq Inserting
    BY <1>0, <1>2 DEF Inserting, HandlerMoved
  <2> QED
    BY <1>2, <2>1, InsertingShrinks
<1>3. CASE EnrollBlacklisted(h) /\ MaxEnrollments # 0
  <2>1. enr'[h].at # "insert" /\ enrollments' = enrollments
    <3>1. CASE Blacklisted(enr[h].user)
      BY <1>3, <3>1, AnswerMoves DEF EnrollBlacklisted, tables
    <3>2. CASE ~Blacklisted(enr[h].user)
      <4>1. Goto(h, "count") /\ enr[h].at # "idle" /\ enrollments' = enrollments
        BY <1>3, <3>2, RosterAssumption DEF EnrollBlacklisted, tables, RosterAssumption
      <4> QED
        BY <4>1, GotoMoves DEF EnrollSteps
    <3> QED
      BY <3>1, <3>2
  <2> QED
    BY <1>2, <2>1
<1>4. CASE EnrollCount(h) /\ MaxEnrollments # 0
  <2>1. enrollments' = enrollments
    BY <1>4 DEF EnrollCount, tables
  <2>2. CASE Cardinality(enrollments) >= MaxEnrollments
    BY <1>2, <1>4, <2>1, <2>2, AnswerMoves DEF EnrollCount, CountEnroll
  <2>3. CASE ~(Cardinality(enrollments) >= MaxEnrollments)
    <3>1. /\ Cardinality(Inserting') <= Cardinality(Enrollers)
          /\ Cardinality(Inserting') \in Nat /\ Cardinality(Enrollers) \in Nat
          /\ Cardinality(enrollments) \in Nat
      BY RosterAssumption, FS_Subset, FS_CardinalityType DEF RosterAssumption, Inserting
    <3>2. Cardinality(enrollments') + Cardinality(Inserting')
            <= MaxEnrollments - 1 + Cardinality(Enrollers)
      BY <2>1, <2>3, <3>1, RosterAssumption DEF RosterAssumption
    <3> QED
      BY <3>2 DEF Overshoot, Inserting, CountEnroll
  <2> QED
    BY <2>2, <2>3
<1>5. CASE EnrollInsert(h)
  <2>1. enr'[h].at # "insert"
    BY <1>5, GotoMoves, AnswerMoves DEF EnrollInsert, EnrollSteps
  <2>2. CASE enr[h].user \in enrollments
    BY <1>2, <1>5, <2>1, <2>2 DEF EnrollInsert
  <2>3. CASE enr[h].user \notin enrollments
    <3>1. enrollments' = enrollments \cup {enr[h].user} /\ h \in Inserting
      BY <1>5, <2>3 DEF EnrollInsert, Inserting
    <3>2. Inserting' \subseteq Inserting \ {h}
      BY <1>0, <2>1, <3>1 DEF Inserting, HandlerMoved
    <3>3. IsFiniteSet(Inserting) /\ IsFiniteSet(Enrollers)
      BY RosterAssumption, FS_Subset DEF RosterAssumption, Inserting
    <3>4. /\ Cardinality(enrollments') = Cardinality(enrollments) + 1
          /\ Cardinality(Inserting \ {h}) = Cardinality(Inserting) - 1
          /\ IsFiniteSet(Inserting \ {h})
      BY <2>3, <3>1, <3>3, FS_AddElement, FS_RemoveElement
    <3>5. Cardinality(Inserting') <= Cardinality(Inserting) - 1
      BY <3>2, <3>4, FS_Subset
    <3>6. /\ Cardinality(Inserting) \in Nat /\ Cardinality(Inserting') \in Nat
          /\ Cardinality(Enrollers) \in Nat /\ Cardinality(enrollments) \in Nat
      BY <3>2, <3>3, <3>4, FS_Subset, FS_CardinalityType
    <3>7. Overshoot <=> (MaxEnrollments > 0 =>
             Cardinality(enrollments) + Cardinality(Inserting)
                <= MaxEnrollments - 1 + Cardinality(Enrollers))
      BY DEF Overshoot, Inserting, CountEnroll
    <3>8. Overshoot' <=> (MaxEnrollments > 0 =>
             Cardinality(enrollments') + Cardinality(Inserting')
                <= MaxEnrollments - 1 + Cardinality(Enrollers))
      BY DEF Overshoot, Inserting, CountEnroll
    <3> QED
      BY <3>4, <3>5, <3>6, <3>7, <3>8, RosterAssumption DEF RosterAssumption
  <2> QED
    BY <2>2, <2>3
<1>6. CASE EnrollStart(h) \/ EnrollRow(h) \/ EnrollFails(h)
  <2>1. enr'[h].at # "insert" /\ enrollments' = enrollments
    <3>1. CASE EnrollStart(h)
      <4>1. PICK u \in Users : enr' = [enr EXCEPT ![h] = [at |-> "black", user |-> u,
                                                         barred |-> u \in blacklist]]
        BY <3>1 DEF EnrollStart
      <4> QED
        BY <3>1, <4>1 DEF EnrollStart, tables, RosterTypeOK
    <3>2. CASE EnrollRow(h) \/ EnrollFails(h)
      BY <3>2, AnswerMoves DEF EnrollRow, EnrollFails, tables
    <3> QED
      BY <1>6, <3>1, <3>2
  <2> QED
    BY <1>2, <2>1
<1> QED
  BY <1>1, <1>3, <1>4, <1>5, <1>6 DEF Enroll
-----------------------------------------------------------------------------
(* The admin and the clock.                                                *)

LEMMA OthersKeep ==
  ASSUME IInv, \/ \E uid \in Uids : Import(uid)
               \/ \E r \in rows : Delete(r)
               \/ \E u \in Users : AddBlacklist(u)
               \/ Tick \/ Flip \/ UNCHANGED rosterVars
  PROVE  IInv'
<1> USE DEF IInv
<1>1. enr' = enr /\ enrollments' = enrollments /\ answered' = answered
  BY DEF Import, Delete, AddBlacklist, Tick, Flip, rosterVars, tables, handlers
<1>2. Overshoot' /\ Busy' /\ IsFiniteSet(enrollments')
  BY <1>1 DEF Overshoot, CountEnroll, Busy
<1>3. ASSUME NEW uid \in Uids, Import(uid) PROVE IInv'
  <2>1. /\ rows' \in SUBSET Row /\ lastId' \in 0 .. MaxRow
        /\ \A r \in rows' : r.id <= lastId'
        /\ OneHead' /\ rows \subseteq rows'
        /\ RowOf(uid) # {} => rows' = rows
        /\ \A r \in rows' \ rows : r.uid = uid /\ r.user = None
    BY <1>3, UpsertRows DEF Import
  <2>2. RosterTypeOK'
    BY <1>1, <1>3, <2>1 DEF Import, RosterTypeOK
  <2> QED
    BY <1>1, <1>2, <1>3, <2>1, <2>2 DEF Import, OnRoster, RowsLinked, BarredListed, RowOf
<1>4. ASSUME NEW r \in rows, Delete(r) PROVE IInv'
  <2>1. RosterTypeOK'
    BY <1>1, <1>4 DEF Delete, RosterTypeOK, Row
  <2> QED
    BY <1>1, <1>2, <1>4, <2>1 DEF Delete, OneHead, OnRoster, RowsLinked, BarredListed, RowOf
<1>5. ASSUME NEW u \in Users, AddBlacklist(u) PROVE IInv'
  BY <1>1, <1>2, <1>5 DEF AddBlacklist, handlers, RosterTypeOK, OneHead, OnRoster,
                          RowsLinked, BarredListed, RowOf
<1>6. CASE Tick \/ Flip \/ UNCHANGED rosterVars
  BY <1>1, <1>2, <1>6 DEF Tick, Flip, rosterVars, tables, handlers, RosterTypeOK, OneHead,
                          OnRoster, RowsLinked, BarredListed, RowOf, Statuses
<1> QED
  BY <1>3, <1>4, <1>5, <1>6
-----------------------------------------------------------------------------
(* The theorems.                                                           *)

LEMMA Initially == RosterInit => IInv
<1> SUFFICES ASSUME RosterInit PROVE IInv
  OBVIOUS
<1>1. RosterTypeOK /\ Busy /\ BarredListed
  BY RosterAssumption DEF RosterInit, RosterTypeOK, Busy, BarredListed, IdleHandler,
                          EnrollSteps, Statuses, RosterAssumption
<1>2. OneHead /\ OnRoster /\ RowsLinked
  BY DEF RosterInit, OneHead, OnRoster, RowsLinked
<1>3. IsFiniteSet(enrollments) /\ Cardinality(enrollments) = 0
  BY FS_EmptySet DEF RosterInit
<1>4. Inserting = {}
  BY DEF RosterInit, Inserting, IdleHandler
<1>5. Overshoot
  <2>1. Cardinality(Inserting) = 0 /\ Cardinality(Enrollers) \in Nat
    BY <1>4, FS_EmptySet, FS_CardinalityType, RosterAssumption DEF RosterAssumption
  <2>2. MaxEnrollments > 0 => 0 + 0 <= MaxEnrollments - 1 + Cardinality(Enrollers)
    BY <2>1, RosterAssumption DEF RosterAssumption
  <2> QED
    BY <1>3, <2>1, <2>2 DEF Overshoot, Inserting, CountEnroll
<1> QED
  BY <1>1, <1>2, <1>3, <1>5 DEF IInv

LEMMA Inductive == IInv /\ [RosterNext \/ Tick \/ Flip]_rosterVars => IInv'
<1> SUFFICES ASSUME IInv, [RosterNext \/ Tick \/ Flip]_rosterVars PROVE IInv'
  OBVIOUS
<1>1. ASSUME NEW h \in Enrollers, Enroll(h) PROVE IInv'
  <2>1. /\ RosterTypeOK' /\ Busy' /\ OneHead' /\ IsFiniteSet(enrollments')
    BY <1>1, EnrollKeepsTypes DEF IInv
  <2> QED
    BY <1>1, <2>1, EnrollKeepsRoster, EnrollKeepsOvershoot DEF IInv
<1> QED
  BY <1>1, OthersKeep DEF RosterNext

\* Types: in particular AUTO_INCREMENT is ahead of every id on the roster.
THEOREM RosterTypes == RosterSpec => []RosterTypeOK
<1>1. IInv => RosterTypeOK
  BY DEF IInv
<1> QED
  BY <1>1, Initially, Inductive, PTL DEF RosterSpec

\* Nobody is on the roster twice, however enrollments, imports and deletions
\* interleave.
THEOREM HeadsAreUnique == RosterSpec => []OneHead
<1>1. IInv => OneHead
  BY DEF IInv
<1> QED
  BY <1>1, Initially, Inductive, PTL DEF RosterSpec

\* Whoever was told that they are enrolled is on the roster until an admin
\* deletes them.
THEOREM EnrolledAreListed == RosterSpec => []OnRoster
<1>1. IInv => OnRoster
  BY DEF IInv
<1> QED
  BY <1>1, Initially, Inductive, PTL DEF RosterSpec

\* Their row has their account, unless an import made it.
THEOREM EnrolledAreLinked == RosterSpec => []Linked
<1>1. IInv => Linked
  BY DEF IInv, RowsLinked, Linked
<1> QED
  BY <1>1, Initially, Inductive, PTL DEF RosterSpec

\* With n requests at once the limit is passed by n - 1 enrollments at most, for
\* any number of requests one after the other.
THEOREM OvershootBounded == RosterSpec => []Overshoot
<1>1. IInv => Overshoot
  BY DEF IInv
<1> QED
  BY <1>1, Initially, Inductive, PTL DEF RosterSpec

\* A request of somebody who is on the blacklist when it comes in never gets to
\* the count or the insert.
THEOREM BarredStayOutside == RosterSpec => []BarredStayOut
<1>1. IInv => BarredStayOut
  BY DEF IInv, BarredListed, BarredStayOut
<1> QED
  BY <1>1, Initially, Inductive, PTL DEF RosterSpec

-----------------------------------------------------------------------------
(* The drawers leave the roster to its own actions.                        *)

LEMMA RosterStep == [Next]_vars => [RosterNext \/ Tick \/ Flip]_rosterVars
<1> SUFFICES ASSUME [Next]_vars PROVE [RosterNext \/ Tick \/ Flip]_rosterVars
  OBVIOUS
<1>1. CASE (RosterNext \/ Tick) /\ UNCHANGED drawVars
  BY <1>1
<1>2. ASSUME UNCHANGED <<tables, handlers, clock>>,
             status' = status \/ status' \in Statuses
      PROVE  [RosterNext \/ Tick \/ Flip]_rosterVars
  BY <1>2 DEF Flip, rosterVars
<1>3. CASE \E d \in Drawers : DrawStep(d)
  <2>1. PICK d \in Drawers : DrawStep(d)
    BY <1>3
  <2> USE DEF rosterVars, Statuses
  <2>2. CASE DrawEnd(d) \/ DrawInsert(d)
    <3>1. UNCHANGED <<tables, handlers, clock>>
      BY <2>2 DEF DrawEnd, DrawInsert
    <3>2. status' = status \/ status' \in Statuses
      BY <2>2 DEF DrawEnd, DrawInsert
    <3> QED
      BY <3>1, <3>2, <1>2
  <2>3. CASE ~(DrawEnd(d) \/ DrawInsert(d))
    <3>1. UNCHANGED rosterVars
      BY <2>1, <2>3 DEF DrawStep, DrawStart, DrawLock, DrawFresh, DrawRoster, DrawAssign,
            DrawAudit, DrawCode, DrawCodesDone, DrawUnlock, DrawFails, DrawCrash
    <3> QED
      BY <3>1
  <2> QED
    BY <2>2, <2>3
<1>4. CASE LockExpires
  BY <1>4 DEF LockExpires
<1>5. CASE OtherWriter
  <2>1. UNCHANGED <<tables, handlers, clock>> /\ status' \in Statuses
    BY <1>5 DEF OtherWriter
  <2> QED
    BY <2>1, <1>2
<1>6. CASE UNCHANGED vars
  BY <1>6 DEF vars
<1> QED
  BY <1>1, <1>3, <1>4, <1>5, <1>6 DEF Next

\* Draws, their lock and their codes beside it are for the roster a change of the
\* activity's status at most: what Roster guarantees holds with them too.
THEOREM RosterGoesOn == Spec => RosterSpec
<1>1. Init => RosterInit
  BY DEF Init
<1> QED
  BY <1>1, RosterStep, PTL DEF Spec, RosterSpec

LEMMA RosterHolds == Spec => []IInv
BY RosterGoesOn, Initially, Inductive, PTL DEF RosterSpec
-----------------------------------------------------------------------------
(* The assignment.                                                         *)

\* What one prize adds
AssignOne(order, w, p) ==
  w \o [i \in 1 .. Min({p.stock, Len(order) - Len(w)}) |->
          [part |-> order[Len(w) + i], prize |-> p.id]]

\* The winners after each prize
AssignRun(w, n, order, prizes) ==
  /\ w[0] = <<>>
  /\ \A k \in 1 .. n : w[k] = AssignOne(order, w[k - 1], prizes[k])
  /\ AssignScheduled(order, prizes) = w[n]

LEMMA AssignUnfold ==
  ASSUME NEW n \in Nat, NEW order, Len(order) \in Nat,
         NEW prizes, DOMAIN prizes = 1 .. n, \A i \in 1 .. n : prizes[i].stock \in Nat
  PROVE  \E w : AssignRun(w, n, order, prizes)
<1> DEFINE L == Len(order)
           Won == [part : {order[i] : i \in 1 .. L}, prize : {prizes[i].id : i \in 1 .. n}]
           V == {w \in Seq(Won) : Len(w) <= L}
           step == [q \in V \X (1 .. n) |-> AssignOne(order, q[1], prizes[q[2]])]
           Body(it, S) == IF S = {} THEN <<>>
                          ELSE AssignOne(order, it[S \ {Max(S)}], prizes[Max(S)])
           Is(it) == it = [S \in SUBSET (1 .. n) |-> Body(it, S)]
<1>1. AssignScheduled(order, prizes) = (CHOOSE it : Is(it))[1 .. n]
  BY DEF AssignScheduled, FoldLeft, MapThenFoldSet, AssignOne
<1>2. <<>> \in V
  OBVIOUS
<1>3. ASSUME NEW w \in V, NEW i \in 1 .. n PROVE AssignOne(order, w, prizes[i]) \in V
  <2> DEFINE m == Min({prizes[i].stock, L - Len(w)})
             new == [j \in 1 .. m |-> [part |-> order[Len(w) + j], prize |-> prizes[i].id]]
  <2>0. /\ prizes[i].stock \in Nat /\ L - Len(w) \in Nat /\ Len(w) \in Nat
        /\ prizes[i].stock \in Int /\ L - Len(w) \in Int
    OBVIOUS
  <2>1. m \in Nat /\ m <= L - Len(w) /\ Len(w) \in Nat
    <3>1. m = IF prizes[i].stock <= L - Len(w) THEN prizes[i].stock ELSE L - Len(w)
      BY <2>0, MinOfTwo
    <3> HIDE DEF m
    <3> QED
      BY <2>0, <3>1
  <2> HIDE DEF m
  <2>2. ASSUME NEW j \in 1 .. m PROVE [part |-> order[Len(w) + j], prize |-> prizes[i].id] \in Won
    <3>1. Len(w) + j \in 1 .. L
      BY <2>1
    <3> QED
      BY <3>1
  <2> HIDE DEF Won
  <2>3. new \in Seq(Won) /\ Len(new) = m
    BY <2>1, <2>2
  <2> HIDE DEF new
  <2>4. w \o new \in Seq(Won) /\ Len(w \o new) = Len(w) + Len(new)
    BY <2>3, ConcatProperties
  <2> QED
    BY <2>1, <2>3, <2>4 DEF AssignOne, new, m
<1> HIDE DEF V
<1>4. step \in [V \X (1 .. n) -> V]
  BY <1>3
<1>5. PICK it \in [SUBSET (1 .. n) -> V] : Folded(it, <<>>, step, n)
  <2> HIDE DEF step
  <2> QED
    BY <1>2, <1>4, FoldExists
<1>6. Is(it)
  <2>1. ASSUME NEW S \in SUBSET (1 .. n) PROVE it[S] = Body(it, S)
    <3>1. CASE S # {}
      <4>1. Max(S) \in 1 .. n /\ S \ {Max(S)} \in SUBSET (1 .. n)
        BY <3>1, GreatestOf
      <4>2. it[S \ {Max(S)}] \in V
        BY <4>1, <1>5
      <4>3. it[S] = step[<<it[S \ {Max(S)}], Max(S)>>]
        BY <3>1, <1>5 DEF Folded
      <4> QED
        BY <3>1, <4>1, <4>2, <4>3
    <3> QED
      BY <3>1, <1>5 DEF Folded
  <2> HIDE DEF Body
  <2> QED
    BY <2>1
<1> DEFINE ch == CHOOSE f : Is(f)
<1>7. Is(ch)
  <2> HIDE DEF Is
  <2> QED
    BY <1>6
<1> HIDE DEF ch
<1>8. \A S \in SUBSET (1 .. n) : ch[S] = Body(ch, S)
  <2> HIDE DEF Body
  <2> QED
    BY <1>7
<1> DEFINE w == [k \in 0 .. n |-> ch[1 .. k]]
<1>9. w[0] = <<>>
  <2>1. 1 .. 0 = {} /\ {} \in SUBSET (1 .. n) /\ 0 \in 0 .. n
    OBVIOUS
  <2>2. ch[{}] = <<>>
    BY <2>1, <1>8
  <2> QED
    BY <2>1, <2>2
<1>10. ASSUME NEW k \in 1 .. n PROVE w[k] = AssignOne(order, w[k - 1], prizes[k])
  <2>1. 1 .. k \in SUBSET (1 .. n) /\ k - 1 \in 0 .. n /\ k \in Nat \ {0}
    OBVIOUS
  <2>2. Max(1 .. k) = k /\ (1 .. k) \ {k} = 1 .. k - 1 /\ 1 .. k # {}
    BY <2>1, UpTo
  <2>3. ch[1 .. k] = AssignOne(order, ch[1 .. k - 1], prizes[k])
    BY <2>1, <2>2, <1>8
  <2> QED
    BY <2>1, <2>3
<1>11. AssignScheduled(order, prizes) = w[n]
  BY <1>1 DEF ch
<1> QED
  BY <1>9, <1>10, <1>11 DEF AssignRun

LEMMA TotalUnfold ==
  ASSUME NEW n \in Nat, NEW prizes, DOMAIN prizes = 1 .. n,
         \A i \in 1 .. n : prizes[i].stock \in Nat
  PROVE  \E T \in [0 .. n -> Nat] :
            /\ T[0] = 0
            /\ \A k \in 1 .. n : T[k] = T[k - 1] + prizes[k].stock
            /\ TotalStock(prizes) = T[n]
<1> DEFINE step == [q \in Nat \X (1 .. n) |-> q[1] + prizes[q[2]].stock]
           Body(it, S) == IF S = {} THEN 0 ELSE it[S \ {Max(S)}] + prizes[Max(S)].stock
           Is(it) == it = [S \in SUBSET (1 .. n) |-> Body(it, S)]
<1>1. TotalStock(prizes) = (CHOOSE it : Is(it))[1 .. n]
  BY DEF TotalStock, FoldLeft, MapThenFoldSet
<1>2. step \in [Nat \X (1 .. n) -> Nat]
  OBVIOUS
<1>3. PICK it \in [SUBSET (1 .. n) -> Nat] : Folded(it, 0, step, n)
  <2> HIDE DEF step
  <2> QED
    BY <1>2, FoldExists
<1>4. Is(it)
  <2>1. ASSUME NEW S \in SUBSET (1 .. n) PROVE it[S] = Body(it, S)
    <3>1. CASE S # {}
      <4>1. Max(S) \in 1 .. n /\ S \ {Max(S)} \in SUBSET (1 .. n)
        BY <3>1, GreatestOf
      <4>2. it[S \ {Max(S)}] \in Nat
        BY <4>1, <1>3
      <4>3. it[S] = step[<<it[S \ {Max(S)}], Max(S)>>]
        BY <3>1, <1>3 DEF Folded
      <4> QED
        BY <3>1, <4>1, <4>2, <4>3
    <3> QED
      BY <3>1, <1>3 DEF Folded
  <2> HIDE DEF Body
  <2> QED
    BY <2>1
<1> DEFINE ch == CHOOSE f : Is(f)
<1>5. Is(ch)
  <2> HIDE DEF Is
  <2> QED
    BY <1>4
<1> HIDE DEF ch
<1>6. \A S \in SUBSET (1 .. n) : ch[S] = Body(ch, S)
  <2> HIDE DEF Body
  <2> QED
    BY <1>5
<1> DEFINE T == [k \in 0 .. n |-> ch[1 .. k]]
<1>7. T[0] = 0
  <2>1. 1 .. 0 = {} /\ {} \in SUBSET (1 .. n) /\ 0 \in 0 .. n
    OBVIOUS
  <2>2. ch[{}] = 0
    BY <2>1, <1>6
  <2> QED
    BY <2>1, <2>2
<1>8. ASSUME NEW k \in 1 .. n PROVE T[k] = T[k - 1] + prizes[k].stock
  <2>1. 1 .. k \in SUBSET (1 .. n) /\ k - 1 \in 0 .. n /\ k \in Nat \ {0}
    OBVIOUS
  <2>2. Max(1 .. k) = k /\ (1 .. k) \ {k} = 1 .. k - 1 /\ 1 .. k # {}
    BY <2>1, UpTo
  <2>3. ch[1 .. k] = ch[1 .. k - 1] + prizes[k].stock
    BY <2>1, <2>2, <1>6
  <2> QED
    BY <2>1, <2>3
<1>9. TotalStock(prizes) = T[n]
  BY <1>1 DEF ch
<1>10. T \in [0 .. n -> Nat]
  <2> HIDE DEF T
  <2> DEFINE D == {k \in Nat : k <= n => T[k] \in Nat}
  <2>1. 0 \in D
    BY <1>7
  <2>2. ASSUME NEW k \in Nat, k \in D PROVE k + 1 \in D
    <3> SUFFICES ASSUME k + 1 <= n PROVE T[k + 1] \in Nat
      OBVIOUS
    <3>1. k + 1 \in 1 .. n /\ T[k] \in Nat /\ (k + 1) - 1 = k
      BY <2>2
    <3> QED
      BY <3>1, <1>8
  <2> HIDE DEF D
  <2>3. \A k \in Nat : k \in D
    BY <2>1, <2>2, NatInd
  <2>4. \A k \in 0 .. n : T[k] \in Nat
    BY <2>3 DEF D
  <2> QED
    BY <2>4 DEF T
<1> QED
  BY <1>7, <1>8, <1>9, <1>10

Least(a, b) == IF a <= b THEN a ELSE b

\* The places of prize i are those after T[i - 1], up to T[i], as far as there
\* are people.
PlacedBy(wins, L, order, prizes, T, n) ==
  /\ DOMAIN wins = 1 .. Least(L, T[n])
  /\ Len(wins) = Least(L, T[n])
  /\ \A j \in DOMAIN wins : wins[j].part = order[j]
  /\ \A j \in DOMAIN wins : \A i \in 1 .. n :
        T[i - 1] < j /\ j <= T[i] => wins[j].prize = prizes[i].id
  /\ \A j \in DOMAIN wins : \E i \in 1 .. n : T[i - 1] < j /\ j <= T[i]
  /\ \A i \in 0 .. n : T[i] <= T[n]

LEMMA AssignmentPlaces ==
  ASSUME NEW n \in Nat, NEW prizes, DOMAIN prizes = 1 .. n,
         \A i \in 1 .. n : prizes[i].stock \in Nat,
         NEW L \in Nat, NEW order, Len(order) = L,
         NEW T \in [0 .. n -> Nat], T[0] = 0,
         \A k \in 1 .. n : T[k] = T[k - 1] + prizes[k].stock
  PROVE  PlacedBy(AssignScheduled(order, prizes), L, order, prizes, T, n)
<1> DEFINE Won == [part : {order[i] : i \in 1 .. L}, prize : {prizes[i].id : i \in 1 .. n}]
           Good(s, k) ==
             /\ s \in Seq(Won)
             /\ Len(s) = Least(L, T[k])
             /\ \A j \in 1 .. Len(s) : s[j].part = order[j]
             /\ \A j \in 1 .. Len(s) : \A i \in 1 .. k :
                   T[i - 1] < j /\ j <= T[i] => s[j].prize = prizes[i].id
             /\ \A j \in 1 .. Len(s) : \E i \in 1 .. k : T[i - 1] < j /\ j <= T[i]
             /\ \A i \in 0 .. k : T[i] <= T[k]
<1>1. PICK w : AssignRun(w, n, order, prizes)
  <2>1. Len(order) \in Nat
    OBVIOUS
  <2> HIDE DEF Won, Good
  <2> QED
    BY <2>1, AssignUnfold
<1> DEFINE D == {k \in Nat : k <= n => Good(w[k], k)}
<1>d. \A k \in Nat : k \in D <=> (k <= n => Good(w[k], k))
  OBVIOUS
<1>2. Good(w[0], 0)
  BY <1>1 DEF Least, AssignRun
<1>3. ASSUME NEW k \in Nat, k + 1 <= n, Good(w[k], k) PROVE Good(w[k + 1], k + 1)
  <2> DEFINE p == prizes[k + 1]
             s == w[k]
             m == Min({p.stock, L - Len(s)})
             new == [j \in 1 .. m |-> [part |-> order[Len(s) + j], prize |-> p.id]]
             t == s \o new
  <2>0. /\ k + 1 \in 1 .. n /\ k \in 0 .. n /\ k + 1 \in 0 .. n /\ (k + 1) - 1 = k
        /\ p.stock \in Nat /\ T[k] \in Nat /\ T[k + 1] \in Nat /\ T[k + 1] = T[k] + p.stock
    BY <1>3
  <2>1. w[k + 1] = t
    BY <1>1, <2>0 DEF AssignOne, AssignRun
  <2>2. s \in Seq(Won) /\ Len(s) \in Nat /\ Len(s) = Least(L, T[k])
    BY <1>3
  <2>3. m = Least(p.stock, L - Len(s)) /\ m \in Nat
    <3>1. p.stock \in Int /\ L - Len(s) \in Int /\ L - Len(s) >= 0
      BY <2>0, <2>2 DEF Least
    <3> HIDE DEF p, s
    <3>2. m = Least(p.stock, L - Len(s))
      BY <3>1, MinOfTwo DEF Least
    <3> QED
      BY <3>1, <3>2, <2>0 DEF Least
  <2> HIDE DEF p, s, m
  <2>4. Len(s) + m = Least(L, T[k + 1]) /\ Len(s) + m <= L
    <3>1. CASE L <= T[k]
      <4>1. Len(s) = L /\ m = 0
        BY <3>1, <2>0, <2>2, <2>3 DEF Least
      <4> QED
        BY <4>1, <3>1, <2>0 DEF Least
    <3>2. CASE T[k] < L
      <4>1. Len(s) = T[k] /\ m = Least(p.stock, L - T[k])
        BY <3>2, <2>0, <2>2, <2>3 DEF Least
      <4> QED
        BY <4>1, <3>2, <2>0 DEF Least
    <3> QED
      BY <3>1, <3>2, <2>0
  <2>5. m > 0 => Len(s) = T[k]
    BY <2>0, <2>2, <2>3 DEF Least
  <2>6. \A j \in 1 .. m : [part |-> order[Len(s) + j], prize |-> p.id] \in Won
    <3> SUFFICES ASSUME NEW j \in 1 .. m
                 PROVE  [part |-> order[Len(s) + j], prize |-> p.id] \in Won
      OBVIOUS
    <3>1. Len(s) + j \in 1 .. L
      BY <2>2, <2>3, <2>4
    <3> QED
      BY <3>1, <2>0 DEF p
  <2>7. new \in Seq(Won) /\ Len(new) = m
    <3> HIDE DEF Won
    <3> QED
      BY <2>3, <2>6
  <2>8. \A j \in 1 .. m : new[j].part = order[Len(s) + j] /\ new[j].prize = p.id
    OBVIOUS
  <2> HIDE DEF new, Won
  <2>9. /\ t \in Seq(Won) /\ Len(t) = Len(s) + m
        /\ \A j \in 1 .. Len(s) + m : t[j] = IF j <= Len(s) THEN s[j] ELSE new[j - Len(s)]
    BY <2>2, <2>7, ConcatProperties
  <2> HIDE DEF t
  <2>10. \A j \in 1 .. Len(t) : j <= Len(s) => j \in 1 .. Len(s) /\ t[j] = s[j]
    BY <2>2, <2>3, <2>9
  <2>11. \A j \in 1 .. Len(t) : j > Len(s) =>
            /\ t[j].part = order[j] /\ t[j].prize = p.id
            /\ T[k] < j /\ j <= T[k + 1]
    <3> SUFFICES ASSUME NEW j \in 1 .. Len(t), j > Len(s)
                 PROVE  /\ t[j].part = order[j] /\ t[j].prize = p.id
                        /\ T[k] < j /\ j <= T[k + 1]
      OBVIOUS
    <3>1. j - Len(s) \in 1 .. m /\ Len(s) + (j - Len(s)) = j /\ t[j] = new[j - Len(s)]
      BY <2>2, <2>3, <2>9
    <3>2. t[j].part = order[j] /\ t[j].prize = p.id
      BY <3>1, <2>8
    <3>3. m > 0
      BY <3>1, <2>3
    <3> QED
      BY <3>2, <3>3, <2>0, <2>2, <2>4, <2>5, <2>9 DEF Least
  <2>12. \A i \in 0 .. k + 1 : T[i] <= T[k + 1]
    <3> SUFFICES ASSUME NEW i \in 0 .. k + 1 PROVE T[i] <= T[k + 1]
      OBVIOUS
    <3>1. T[i] \in Nat /\ (i \in 0 .. k => T[i] <= T[k])
      BY <1>3, <2>0
    <3> QED
      BY <3>1, <2>0
  <2>13. ASSUME NEW j \in 1 .. Len(t), NEW i \in 1 .. k + 1, T[i - 1] < j, j <= T[i]
         PROVE  t[j].prize = prizes[i].id
    <3>1. i - 1 \in 0 .. n /\ i \in 0 .. n /\ T[i] \in Nat /\ T[i - 1] \in Nat
      BY <2>0
    <3>2. CASE j <= Len(s)
      <4>1. i # k + 1
        BY <3>1, <3>2, <2>0, <2>2, <2>13 DEF Least
      <4>2. i \in 1 .. k /\ j \in 1 .. Len(s)
        BY <4>1, <3>2, <2>10
      <4> QED
        BY <4>2, <2>10, <2>13, <3>2, <1>3 DEF s
    <3>3. CASE j > Len(s)
      <4>1. i = k + 1
        <5>1. i \in 0 .. k => T[i] <= T[k]
          BY <1>3
        <5> QED
          BY <5>1, <3>1, <3>3, <2>0, <2>11, <2>13
      <4> QED
        BY <4>1, <3>3, <2>11 DEF p
    <3> QED
      BY <3>2, <3>3, <2>2
  <2>14. ASSUME NEW j \in 1 .. Len(t) PROVE \E i \in 1 .. k + 1 : T[i - 1] < j /\ j <= T[i]
    <3>1. CASE j <= Len(s)
      <4>1. j \in 1 .. Len(s)
        BY <3>1, <2>10
      <4>2. PICK i \in 1 .. k : T[i - 1] < j /\ j <= T[i]
        BY <4>1, <1>3 DEF s
      <4> QED
        BY <4>2
    <3>2. CASE j > Len(s)
      BY <3>2, <2>0, <2>11
    <3> QED
      BY <3>1, <3>2, <2>2
  <2>15. \A j \in 1 .. Len(t) : t[j].part = order[j]
    <3> SUFFICES ASSUME NEW j \in 1 .. Len(t) PROVE t[j].part = order[j]
      OBVIOUS
    <3>1. CASE j <= Len(s)
      BY <3>1, <2>10, <1>3 DEF s
    <3> QED
      BY <3>1, <2>2, <2>11
  <2> QED
    BY <2>1, <2>4, <2>9, <2>12, <2>13, <2>14, <2>15
<1>4. Good(w[n], n)
  <2> HIDE DEF Good, D
  <2>1. 0 \in D
    BY <1>2, <1>d
  <2>2. ASSUME NEW k \in Nat, k \in D PROVE k + 1 \in D
    <3>1. k + 1 <= n => k <= n
      OBVIOUS
    <3> QED
      BY <2>2, <3>1, <1>3, <1>d
  <2>3. \A k \in Nat : k \in D
    BY <2>1, <2>2, NatInd
  <2> QED
    BY <2>3, <1>d
<1>5. DOMAIN w[n] = 1 .. Len(w[n])
  BY <1>4, LenProperties
<1> QED
  BY <1>1, <1>4, <1>5 DEF AssignRun, PlacedBy

\* For any prizes and any order of the ids: as many winners as fit, each once, no
\* prize beyond its stock, and a later prize only after those before it are full
\* (engine.AssignScheduled).
THEOREM AssignmentFills ==
  ASSUME NEW ids, IsFiniteSet(ids), NEW order \in Shuffled(ids),
         NEW prizes, Len(prizes) \in Nat, DOMAIN prizes = 1 .. Len(prizes),
         \A i \in DOMAIN prizes : prizes[i].stock \in Nat,
         \A i, j \in DOMAIN prizes : prizes[i].id = prizes[j].id => i = j
  PROVE  LET wins == AssignScheduled(order, prizes)
         IN Fills(wins, ids, prizes) /\ DOMAIN wins = 1 .. Len(wins) /\ Len(wins) \in Nat
<1> DEFINE n == Len(prizes)
           L == Cardinality(ids)
           wins == AssignScheduled(order, prizes)
<1>1. L \in Nat /\ Len(order) = L /\ order \in [1 .. L -> ids]
      /\ \A i, j \in 1 .. L : order[i] = order[j] => i = j
  BY FS_CardinalityType DEF Shuffled, IsInjective
<1>2. PICK T \in [0 .. n -> Nat] :
            /\ T[0] = 0
            /\ \A k \in 1 .. n : T[k] = T[k - 1] + prizes[k].stock
            /\ TotalStock(prizes) = T[n]
  BY TotalUnfold
<1> HIDE DEF L
<1>p. PlacedBy(wins, L, order, prizes, T, n)
  <2>1. /\ n \in Nat /\ DOMAIN prizes = 1 .. n
        /\ \A i \in 1 .. n : prizes[i].stock \in Nat
    OBVIOUS
  <2> HIDE DEF n
  <2> QED
    BY <2>1, <1>1, <1>2, AssignmentPlaces
<1> HIDE DEF wins
<1>3. /\ DOMAIN wins = 1 .. Least(L, T[n])
      /\ Len(wins) = Least(L, T[n])
      /\ \A j \in DOMAIN wins : wins[j].part = order[j]
      /\ \A j \in DOMAIN wins : \A i \in 1 .. n :
            T[i - 1] < j /\ j <= T[i] => wins[j].prize = prizes[i].id
      /\ \A j \in DOMAIN wins : \E i \in 1 .. n : T[i - 1] < j /\ j <= T[i]
      /\ \A i \in 0 .. n : T[i] <= T[n]
  BY <1>p DEF PlacedBy
<1>4. T[n] \in Nat /\ Least(L, T[n]) \in Nat /\ Least(L, T[n]) <= L
  BY <1>1, <1>2 DEF Least
<1>5. Len(wins) = Min({Cardinality(ids), TotalStock(prizes)})
  <2>1. L \in Int /\ T[n] \in Int
    BY <1>1, <1>4
  <2>2. Min({L, T[n]}) = Least(L, T[n])
    BY <2>1, MinOfTwo DEF Least
  <2> QED
    BY <2>2, <1>2, <1>3 DEF L
<1>6. \A j \in DOMAIN wins : j \in 1 .. L
  BY <1>1, <1>3, <1>4
<1> DEFINE Holders(i) == {k \in DOMAIN wins : wins[k].prize = prizes[i].id}
           Places(i) == Cardinality(Holders(i))
<1>7. ASSUME NEW i \in 1 .. n
      PROVE  /\ Places(i) <= prizes[i].stock
             /\ Places(i) > 0 => T[i - 1] < Len(wins)
             /\ T[i] < Len(wins) => Places(i) = prizes[i].stock
  <2>1. /\ T[i - 1] \in Nat /\ T[i] \in Nat /\ prizes[i].stock \in Nat
        /\ T[i] = T[i - 1] + prizes[i].stock
    BY <1>2
  <2> DEFINE a == T[i - 1] + 1
             b == Least(T[i], Len(wins))
  <2>2. a \in Nat /\ b \in Nat /\ Len(wins) \in Nat
    BY <2>1, <1>3, <1>4 DEF Least
  <2>3. Holders(i) = a .. b
    <3>1. ASSUME NEW j \in DOMAIN wins, wins[j].prize = prizes[i].id PROVE j \in a .. b
      <4>1. PICK h \in 1 .. n : T[h - 1] < j /\ j <= T[h]
        BY <1>3
      <4>2. h = i
        BY <4>1, <3>1, <1>3
      <4> QED
        BY <4>1, <4>2, <2>1, <2>2, <1>3, <1>4 DEF Least
    <3>2. ASSUME NEW j \in a .. b PROVE j \in DOMAIN wins /\ wins[j].prize = prizes[i].id
      <4>1. j \in 1 .. Len(wins) /\ T[i - 1] < j /\ j <= T[i]
        BY <2>1, <2>2 DEF Least
      <4> QED
        BY <4>1, <1>3
    <3> QED
      BY <3>1, <3>2
  <2>4. Cardinality(a .. b) = IF a > b THEN 0 ELSE b - a + 1
    BY <2>2, FS_Interval
  <2> HIDE DEF Holders
  <2> QED
    BY <2>1, <2>2, <2>3, <2>4 DEF Least
<1>8. ASSUME NEW i \in DOMAIN prizes
      PROVE  /\ Places(i) <= prizes[i].stock
             /\ i < Len(prizes) /\ Places(i + 1) > 0 => Places(i) = prizes[i].stock
  <2>1. Places(i) <= prizes[i].stock
    BY <1>7
  <2>2. ASSUME i < n, Places(i + 1) > 0 PROVE Places(i) = prizes[i].stock
    <3>1. i + 1 \in 1 .. n /\ (i + 1) - 1 = i
      BY <2>2
    <3>2. T[i] < Len(wins)
      BY <3>1, <2>2, <1>7
    <3> QED
      BY <3>2, <1>7
  <2> QED
    BY <2>1, <2>2
<1>9. \A j \in DOMAIN wins : wins[j].part \in ids
  BY <1>1, <1>3, <1>6
<1>10. \A j, k \in DOMAIN wins : j # k => wins[j].part # wins[k].part
  BY <1>1, <1>3, <1>6
<1> QED
  BY <1>3, <1>4, <1>5, <1>8, <1>9, <1>10 DEF Fills, wins
-----------------------------------------------------------------------------
(* The winners stay, and the audit is theirs.                              *)

Fields == {"at", "status", "version", "ids", "wins", "next"}

Locals == DOMAIN drw = Drawers /\ \A d \in Drawers : DOMAIN drw[d] = Fields

\* A drawer that may still end the activity did not read it as drawn; one that
\* is past its transaction holds what the transaction has written.
DrawerOK(s) ==
  /\ s.at \in {"lock", "end"} => s.status # "drawn"
  /\ s.at \in {"audit", "codes"} =>
       status = "drawn" /\ s.wins = winners /\ s.ids = drawnFrom

DrawnInv ==
  /\ Locals
  /\ \A d \in Drawers : DrawerOK(drw[d])
  /\ winners # <<>> => status = "drawn"
  /\ audit # None => status = "drawn" /\ audit = [ids |-> drawnFrom, wins |-> winners]

\* No step leaves the status of a draw, or what the draw has written.
Kept == status = "drawn" => UNCHANGED <<status, winners, drawnFrom>>

LEMMA InitDrawn == Init => DrawnInv
BY DEF Init, DrawnInv, Locals, Fields, Idle, DrawerOK

\* A drawer goes on in state s; the others stay as they are.
LEMMA DrawerMoves ==
  ASSUME Locals, NEW d \in Drawers, NEW s, drw' = [drw EXCEPT ![d] = s], DOMAIN s = Fields
  PROVE  Locals' /\ drw'[d] = s /\ \A c \in Drawers : c # d => drw'[c] = drw[c]
BY DEF Locals

\* A step that leaves the draw alone, by a drawer that gets to a good state.
LEMMA QuietDrawer ==
  ASSUME DrawnInv, NEW d \in Drawers, Locals', \A c \in Drawers : c # d => drw'[c] = drw[c],
         UNCHANGED <<status, winners, drawnFrom, audit>>,
         drw'[d].at \in {"lock", "end"} => drw'[d].status # "drawn",
         drw'[d].at \in {"audit", "codes"} =>
           status = "drawn" /\ drw'[d].wins = winners /\ drw'[d].ids = drawnFrom
  PROVE  DrawnInv' /\ Kept
<1>1. \A c \in Drawers : DrawerOK(drw[c])'
  BY DEF DrawnInv, DrawerOK
<1>. QED  BY <1>1 DEF DrawnInv, Kept

\* The end of a call keeps no state.
LEMMA LeaveDrawn ==
  ASSUME DrawnInv, NEW d \in Drawers, NEW at \in {"unlock", "done"}, Leave(d, at),
         UNCHANGED <<status, winners, drawnFrom, audit>>
  PROVE  DrawnInv' /\ Kept
<1>. DEFINE s == [Idle EXCEPT !.at = at]
<1>1. s.at = at /\ DOMAIN s = Fields /\ drw' = [drw EXCEPT ![d] = s]
  BY DEF Leave, Idle, Fields
<1>. HIDE DEF s
<1>2. Locals' /\ drw'[d] = s /\ \A c \in Drawers : c # d => drw'[c] = drw[c]
  BY <1>1, DrawerMoves DEF DrawnInv
<1>. QED  BY <1>1, <1>2, QuietDrawer

LEMMA DrawStepDrawn ==
  ASSUME DrawnInv, NEW d \in Drawers, DrawStep(d)
  PROVE  DrawnInv' /\ Kept
<1>. USE DEF rosterVars, tables, handlers, At
<1>a. DOMAIN drw[d] = Fields /\ DrawerOK(drw[d]) /\ Locals
  BY DEF DrawnInv, Locals
<1>m. ASSUME NEW s, drw' = [drw EXCEPT ![d] = s], DOMAIN s = Fields,
             UNCHANGED <<status, winners, drawnFrom, audit>>,
             s.at \in {"lock", "end"} => s.status # "drawn",
             s.at \in {"audit", "codes"} =>
               status = "drawn" /\ s.wins = winners /\ s.ids = drawnFrom
      PROVE  DrawnInv' /\ Kept
  <2>1. Locals' /\ drw'[d] = s /\ \A c \in Drawers : c # d => drw'[c] = drw[c]
    BY <1>a, <1>m, DrawerMoves
  <2>2. /\ drw'[d].at \in {"lock", "end"} => drw'[d].status # "drawn"
        /\ drw'[d].at \in {"audit", "codes"} =>
             status = "drawn" /\ drw'[d].wins = winners /\ drw'[d].ids = drawnFrom
    BY <1>m, <2>1
  <2>. QED  BY <1>m, <2>1, <2>2, QuietDrawer
<1>1. CASE DrawStart(d)
  <2>. DEFINE s == [drw[d] EXCEPT !.at = "lock", !.status = status, !.version = version]
  <2>1. s.at = "lock" /\ s.status = status /\ DOMAIN s = Fields
    BY <1>a DEF Fields
  <2>2. drw' = [drw EXCEPT ![d] = s] /\ UNCHANGED <<status, winners, drawnFrom, audit>>
        /\ status # "drawn"
    BY <1>1 DEF DrawStart
  <2>. HIDE DEF s
  <2>. QED  BY <1>m, <2>1, <2>2
<1>2. CASE DrawLock(d)
  <2>. DEFINE s(at) == [drw[d] EXCEPT !.at = at]
  <2>1. \A at : s(at).at = at /\ s(at).status = drw[d].status /\ DOMAIN s(at) = Fields
    BY <1>a DEF Fields
  <2>2. UNCHANGED <<status, winners, drawnFrom, audit>> /\ drw[d].at = "lock"
    BY <1>2 DEF DrawLock
  <2>3. \/ drw' = [drw EXCEPT ![d] = s("roster")]
        \/ drw' = [drw EXCEPT ![d] = s("end")]
        \/ Leave(d, "done")
    BY <1>2 DEF DrawLock, Move
  <2>. HIDE DEF s
  <2>4. drw[d].status # "drawn"
    BY <1>a, <2>2 DEF DrawerOK
  <2>. QED  BY <1>m, <2>1, <2>2, <2>3, <2>4, LeaveDrawn
<1>3. CASE DrawEnd(d)
  <2>. DEFINE s == [drw[d] EXCEPT !.at = "fresh"]
  <2>1. s.at = "fresh" /\ DOMAIN s = Fields
    BY <1>a DEF Fields
  <2>2. drw' = [drw EXCEPT ![d] = s] /\ UNCHANGED <<winners, drawnFrom, audit>>
    BY <1>3 DEF DrawEnd, Move
  <2>. HIDE DEF s
  <2>3. status = "drawn" => UNCHANGED status
    BY <1>3, <1>a DEF DrawEnd, DrawerOK
  <2>4. Locals' /\ drw'[d] = s /\ \A c \in Drawers : c # d => drw'[c] = drw[c]
    BY <1>a, <2>1, <2>2, DrawerMoves
  <2>5. \A c \in Drawers : DrawerOK(drw[c])'
    BY <2>1, <2>2, <2>3, <2>4 DEF DrawnInv, DrawerOK
  <2>. QED  BY <2>2, <2>3, <2>4, <2>5 DEF DrawnInv, Kept
<1>4. CASE DrawFresh(d)
  <2>. DEFINE s(v) == [drw[d] EXCEPT !.at = "roster", !.status = "ended", !.version = v]
  <2>1. \A v : s(v).at = "roster" /\ DOMAIN s(v) = Fields
    BY <1>a DEF Fields
  <2>2. /\ \E v : drw' = [drw EXCEPT ![d] = s(v)]
        /\ UNCHANGED <<status, winners, drawnFrom, audit>>
    BY <1>4 DEF DrawFresh
  <2>. HIDE DEF s
  <2>. QED  BY <1>m, <2>1, <2>2
<1>5. CASE DrawRoster(d)
  <2>. DEFINE s == [drw[d] EXCEPT !.at = "assign", !.ids = AllParticipantIDs]
  <2>1. s.at = "assign" /\ DOMAIN s = Fields
    BY <1>a DEF Fields
  <2>2. drw' = [drw EXCEPT ![d] = s] /\ UNCHANGED <<status, winners, drawnFrom, audit>>
    BY <1>5 DEF DrawRoster
  <2>. HIDE DEF s
  <2>. QED  BY <1>m, <2>1, <2>2
<1>6. CASE DrawAssign(d)
  <2>. DEFINE s(w) == [drw[d] EXCEPT !.at = "insert", !.wins = w]
  <2>1. \A w : s(w).at = "insert" /\ DOMAIN s(w) = Fields
    BY <1>a DEF Fields
  <2>2. /\ \E w : drw' = [drw EXCEPT ![d] = s(w)]
        /\ UNCHANGED <<status, winners, drawnFrom, audit>>
    BY <1>6 DEF DrawAssign
  <2>. HIDE DEF s
  <2>. QED  BY <1>m, <2>1, <2>2
<1>7. CASE DrawInsert(d)
  <2>1. CASE CasOk(d) /\ Unique(drw[d].wins)
    <3>1. /\ status # "drawn" /\ status' = "drawn" /\ UNCHANGED audit
          /\ winners' = drw[d].wins /\ drawnFrom' = drw[d].ids
      BY <1>7, <2>1 DEF DrawInsert, CasOk
    <3>2. audit = None /\ \A c \in Drawers : drw[c].at \notin {"audit", "codes"}
      BY <3>1 DEF DrawnInv, DrawerOK
    <3>. DEFINE s == [drw[d] EXCEPT !.at = "audit"]
                t == [Idle EXCEPT !.at = "unlock"]
    <3>3. /\ s.at = "audit" /\ s.wins = drw[d].wins /\ s.ids = drw[d].ids /\ DOMAIN s = Fields
          /\ t.at = "unlock" /\ DOMAIN t = Fields
      BY <1>a DEF Fields, Idle
    <3>4. drw' = [drw EXCEPT ![d] = s] \/ drw' = [drw EXCEPT ![d] = t]
      BY <1>7, <2>1 DEF DrawInsert, Move, Leave
    <3>. HIDE DEF s, t
    <3>5. /\ Locals' /\ (drw'[d] = s \/ drw'[d] = t)
          /\ \A c \in Drawers : c # d => drw'[c] = drw[c]
      BY <1>a, <3>3, <3>4, DrawerMoves
    <3>6. \A c \in Drawers : DrawerOK(drw[c])'
      BY <3>1, <3>2, <3>3, <3>5 DEF DrawnInv, DrawerOK
    <3>. QED  BY <3>1, <3>2, <3>5, <3>6 DEF DrawnInv, Kept
  <2>2. CASE ~(CasOk(d) /\ Unique(drw[d].wins))
    <3>1. Leave(d, "unlock") /\ UNCHANGED <<status, winners, drawnFrom, audit>>
      BY <1>7, <2>2 DEF DrawInsert
    <3>. QED  BY <3>1, LeaveDrawn
  <2>. QED  BY <2>1, <2>2
<1>8. CASE DrawAudit(d)
  <2>. DEFINE s == [drw[d] EXCEPT !.at = "codes"]
  <2>1. s.at = "codes" /\ s.wins = drw[d].wins /\ s.ids = drw[d].ids /\ DOMAIN s = Fields
    BY <1>a DEF Fields
  <2>2. /\ drw' = [drw EXCEPT ![d] = s] /\ UNCHANGED <<status, winners, drawnFrom>>
        /\ audit' = audit \/ audit' = [ids |-> drw[d].ids, wins |-> drw[d].wins]
    BY <1>8 DEF DrawAudit, Move
  <2>3. status = "drawn" /\ drw[d].wins = winners /\ drw[d].ids = drawnFrom
    BY <1>8, <1>a DEF DrawAudit, DrawerOK
  <2>. HIDE DEF s
  <2>4. Locals' /\ drw'[d] = s /\ \A c \in Drawers : c # d => drw'[c] = drw[c]
    BY <1>a, <2>1, <2>2, DrawerMoves
  <2>5. \A c \in Drawers : DrawerOK(drw[c])'
    BY <2>1, <2>2, <2>3, <2>4 DEF DrawnInv, DrawerOK
  <2>. QED  BY <2>2, <2>3, <2>4, <2>5 DEF DrawnInv, Kept
<1>9. CASE DrawCode(d)
  <2>. DEFINE s == [drw[d] EXCEPT !.next = drw[d].next + 1]
  <2>1. s.at = drw[d].at /\ s.wins = drw[d].wins /\ s.ids = drw[d].ids /\ DOMAIN s = Fields
    BY <1>a DEF Fields
  <2>2. /\ drw' = [drw EXCEPT ![d] = s] /\ UNCHANGED <<status, winners, drawnFrom, audit>>
        /\ drw[d].at = "codes"
    BY <1>9 DEF DrawCode
  <2>. HIDE DEF s
  <2>. QED  BY <1>a, <1>m, <2>1, <2>2 DEF DrawerOK
<1>10. CASE DrawCodesDone(d) \/ DrawUnlock(d) \/ DrawFails(d) \/ DrawCrash(d)
  <2>1. /\ Leave(d, "unlock") \/ Leave(d, "done")
        /\ UNCHANGED <<status, winners, drawnFrom, audit>>
    BY <1>10 DEF DrawCodesDone, DrawUnlock, DrawFails, DrawCrash
  <2>. QED  BY <2>1, LeaveDrawn
<1>. QED
  BY <1>1, <1>2, <1>3, <1>4, <1>5, <1>6, <1>7, <1>8, <1>9, <1>10 DEF DrawStep

LEMMA DrawnStep == DrawnInv /\ [Next]_vars => DrawnInv' /\ Kept
<1>. SUFFICES ASSUME DrawnInv, [Next]_vars PROVE DrawnInv' /\ Kept
  OBVIOUS
<1>1. CASE UNCHANGED <<status, winners, drawnFrom, audit, drw>>
  BY <1>1 DEF DrawnInv, Locals, DrawerOK, Kept
<1>2. CASE (RosterNext \/ Tick) /\ UNCHANGED drawVars
  <2>1. UNCHANGED status
    BY <1>2 DEF RosterNext, Tick, Enroll, EnrollStart, EnrollBlacklisted, EnrollCount,
          EnrollInsert, EnrollRow, EnrollFails, Import, Delete, AddBlacklist
  <2>. QED  BY <1>1, <1>2, <2>1 DEF drawVars
<1>3. CASE LockExpires
  BY <1>1, <1>3 DEF LockExpires, rosterVars
<1>4. CASE OtherWriter
  <2>1. /\ status # "drawn"
        /\ UNCHANGED <<winners, drawnFrom, audit, drw>>
    BY <1>4 DEF OtherWriter
  <2>. QED  BY <2>1 DEF DrawnInv, Locals, DrawerOK, Kept
<1>5. CASE UNCHANGED vars
  BY <1>1, <1>5 DEF vars, rosterVars, drawVars
<1>. QED  BY <1>2, <1>3, <1>4, <1>5, DrawStepDrawn DEF Next

LEMMA DrawnHolds == Spec => []DrawnInv
BY InitDrawn, DrawnStep, PTL DEF Spec

\* However many drawers there are, whatever they had read, and wherever they stop
\* or lose the lock: the winners of an activity are written once and stay.
THEOREM WinnersStay == Spec => DrawnForGood
<1>1. DrawnInv /\ Kept => (winners # <<>> => winners' = winners /\ status' = "drawn")
  BY DEF DrawnInv, Kept
<1>2. DrawnInv /\ [Next]_vars => [winners # <<>> => winners' = winners /\ status' = "drawn"]_vars
  BY <1>1, DrawnStep
<1>. QED  BY <1>2, DrawnHolds, PTL DEF Spec, DrawnForGood

\* An audit is of the draw whose winners are in scheduled_winners, not of one that
\* was refused or that came second.
THEOREM AuditIsTrue == Spec => []AuditTrue
<1>1. DrawnInv => AuditTrue
  BY DEF DrawnInv, AuditTrue
<1>. QED  BY <1>1, DrawnHolds, PTL
-----------------------------------------------------------------------------
(* Who wins: the winners are those of one assignment over one roster, and the *)
(* codes are theirs.                                                         *)

\* What a drawer takes into its transaction, and what the tables hold after it
Drawn(wins, ids) ==
  /\ Fills(wins, ids, Prizes)
  /\ Len(wins) \in Nat
  /\ DOMAIN wins = 1 .. Len(wins)
  /\ \A k \in DOMAIN wins : wins[k].user \in Users \cup {None}

DrawerTypes(s) ==
  /\ s.at \in {"new", "lock", "end", "fresh", "roster", "assign",
               "insert", "audit", "codes", "unlock", "done"}
  /\ s.status \in Statuses
  /\ s.version \in 0 .. MaxVersion
  /\ s.ids \in SUBSET (1 .. MaxRow)
  /\ s.next \in Nat \ {0}
  /\ s.at = "insert" => Drawn(s.wins, s.ids)

DrawInv ==
  /\ version \in 0 .. MaxVersion
  /\ drawlock \in BOOLEAN
  /\ \A d \in Drawers : DrawerTypes(drw[d])
  /\ status = "drawn" => Drawn(winners, drawnFrom)
  /\ \A c \in codes : c.user \in Users
  /\ CodesMatch

\* What holds of the roster and of the drawers, before the step and after it
Known == IInv /\ DrawnInv

LEMMA DrawnByAll ==
  ASSUME IInv, NEW ids \in SUBSET (1 .. MaxRow), NEW order \in Shuffled(ids)
  PROVE  LET a == AssignScheduled(order, Prizes)
         IN Drawn([k \in DOMAIN a |-> [part |-> a[k].part, prize |-> a[k].prize,
                                       user |-> UserOf(a[k].part)]], ids)
<1> DEFINE a == AssignScheduled(order, Prizes)
           w == [k \in DOMAIN a |-> [part |-> a[k].part, prize |-> a[k].prize,
                                     user |-> UserOf(a[k].part)]]
<1>1. IsFiniteSet(ids)
  <2>1. IsFiniteSet(1 .. MaxRow)
    BY FS_Interval, RosterAssumption DEF RosterAssumption
  <2> QED
    BY <2>1, FS_Subset
<1>2. /\ Len(Prizes) \in Nat /\ DOMAIN Prizes = 1 .. Len(Prizes)
      /\ \A i \in DOMAIN Prizes : Prizes[i].stock \in Nat
      /\ \A i, j \in DOMAIN Prizes : Prizes[i].id = Prizes[j].id => i = j
  <2> DEFINE R == Range(Prizes)
  <2>1. Prizes \in Seq(R)
    BY ScheduledAssumption DEF ScheduledAssumption
  <2> HIDE DEF R
  <2>2. Len(Prizes) \in Nat /\ DOMAIN Prizes = 1 .. Len(Prizes)
    BY <2>1, LenProperties
  <2>3. \A i \in DOMAIN Prizes : Prizes[i].stock \in Nat
    BY ScheduledAssumption DEF ScheduledAssumption, ValidPrizes
  <2>4. \A i, j \in DOMAIN Prizes : Prizes[i].id = Prizes[j].id => i = j
    BY ScheduledAssumption DEF ScheduledAssumption
  <2> QED
    BY <2>2, <2>3, <2>4
<1>3. Fills(a, ids, Prizes) /\ DOMAIN a = 1 .. Len(a) /\ Len(a) \in Nat
  BY <1>1, <1>2, AssignmentFills
<1> HIDE DEF a
<1>4. \A id : UserOf(id) \in Users \cup {None}
  BY DEF UserOf, IInv, RosterTypeOK, Row
<1>5. Len(w) = Len(a) /\ DOMAIN w = DOMAIN a
  BY <1>3
<1>6. \A k \in DOMAIN a : w[k].part = a[k].part /\ w[k].prize = a[k].prize
                          /\ w[k].user \in Users \cup {None}
  BY <1>4
<1> HIDE DEF w
<1> DEFINE InW(e) == {k \in DOMAIN w : w[k].prize = e}
           InA(e) == {k \in DOMAIN a : a[k].prize = e}
<1>7. \A e : InW(e) = InA(e)
  BY <1>5, <1>6
<1>8. Fills(w, ids, Prizes)
  <2>1. /\ Len(w) = Min({Cardinality(ids), TotalStock(Prizes)})
        /\ \A k \in DOMAIN w : w[k].part \in ids
        /\ \A j, k \in DOMAIN w : j # k => w[j].part # w[k].part
    BY <1>3, <1>5, <1>6 DEF Fills
  <2>2. \A i \in DOMAIN Prizes :
           /\ Cardinality(InA(Prizes[i].id)) <= Prizes[i].stock
           /\ i < Len(Prizes) /\ Cardinality(InA(Prizes[i + 1].id)) > 0
                => Cardinality(InA(Prizes[i].id)) = Prizes[i].stock
    BY <1>3 DEF Fills
  <2>3. \A i \in DOMAIN Prizes :
           /\ Cardinality(InW(Prizes[i].id)) <= Prizes[i].stock
           /\ i < Len(Prizes) /\ Cardinality(InW(Prizes[i + 1].id)) > 0
                => Cardinality(InW(Prizes[i].id)) = Prizes[i].stock
    <3> HIDE DEF InA, InW
    <3> QED
      BY <1>7, <2>2, Zenon
  <2> QED
    BY <2>1, <2>3 DEF Fills
<1> QED
  BY <1>3, <1>5, <1>6, <1>8 DEF Drawn, w, a

\* A drawer goes on, and nothing that the others or the tables rest on changes.
LEMMA DrawerGoes ==
  ASSUME DrawInv, NEW d \in Drawers, Locals', \A c \in Drawers : c # d => drw'[c] = drw[c],
         DrawerTypes(drw'[d]), UNCHANGED <<version, status, winners, drawnFrom, codes>>,
         drawlock' \in BOOLEAN
  PROVE  DrawInv'
<1>1. \A c \in Drawers : DrawerTypes(drw[c])'
  BY DEF DrawInv, DrawerTypes
<1> QED
  BY <1>1 DEF DrawInv, CodesMatch, Drawn

LEMMA LeaveTypes ==
  ASSUME Locals, NEW d \in Drawers, NEW at \in {"unlock", "done"}, Leave(d, at)
  PROVE  /\ Locals' /\ \A c \in Drawers : c # d => drw'[c] = drw[c]
         /\ DrawerTypes(drw'[d])
<1> DEFINE s == [Idle EXCEPT !.at = at]
<1>1. /\ s.at = at /\ s.status = "published" /\ s.version = 0 /\ s.ids = {} /\ s.next = 1
      /\ DOMAIN s = Fields /\ drw' = [drw EXCEPT ![d] = s]
  BY DEF Leave, Idle, Fields
<1> HIDE DEF s
<1>2. DrawerTypes(s)
  BY <1>1, ScheduledAssumption DEF DrawerTypes, Statuses, ScheduledAssumption
<1> QED
  BY <1>1, <1>2, DrawerMoves

LEMMA DrawStepTypes ==
  ASSUME Known, DrawInv, NEW d \in Drawers, DrawStep(d)
  PROVE  DrawInv'
<1> USE DEF rosterVars, tables, handlers, At
<1>a. /\ DOMAIN drw[d] = Fields /\ DrawerOK(drw[d]) /\ Locals /\ DrawerTypes(drw[d])
      /\ status \in Statuses /\ version \in 0 .. MaxVersion /\ drawlock \in BOOLEAN
  BY DEF Known, DrawInv, DrawnInv, Locals, IInv, RosterTypeOK
<1>m. ASSUME NEW s, drw' = [drw EXCEPT ![d] = s], DOMAIN s = Fields, DrawerTypes(s),
             UNCHANGED <<version, status, winners, drawnFrom, codes>>, drawlock' \in BOOLEAN
      PROVE  DrawInv'
  <2>1. Locals' /\ drw'[d] = s /\ \A c \in Drawers : c # d => drw'[c] = drw[c]
    BY <1>a, <1>m, DrawerMoves
  <2> QED
    BY <1>m, <2>1, DrawerGoes
<1>l. ASSUME NEW at \in {"unlock", "done"}, Leave(d, at),
             UNCHANGED <<version, status, winners, drawnFrom, codes>>, drawlock' \in BOOLEAN
      PROVE  DrawInv'
  BY <1>a, <1>l, LeaveTypes, DrawerGoes
<1>1. CASE DrawStart(d)
  <2>. DEFINE s == [drw[d] EXCEPT !.at = "lock", !.status = status, !.version = version]
  <2>1. /\ s.at = "lock" /\ s.status = status /\ s.version = version
        /\ s.ids = drw[d].ids /\ s.next = drw[d].next /\ DOMAIN s = Fields
    BY <1>a DEF Fields
  <2>2. /\ drw' = [drw EXCEPT ![d] = s]
        /\ UNCHANGED <<version, status, winners, drawnFrom, codes, drawlock>>
    BY <1>1 DEF DrawStart
  <2>. HIDE DEF s
  <2>3. DrawerTypes(s)
    BY <1>a, <2>1 DEF DrawerTypes
  <2>. QED  BY <1>a, <1>m, <2>1, <2>2, <2>3
<1>2. CASE DrawLock(d)
  <2>. DEFINE s(at) == [drw[d] EXCEPT !.at = at]
  <2>1. \A at : /\ s(at).at = at /\ s(at).status = drw[d].status /\ s(at).version = drw[d].version
                /\ s(at).ids = drw[d].ids /\ s(at).next = drw[d].next /\ DOMAIN s(at) = Fields
    BY <1>a DEF Fields
  <2>2. UNCHANGED <<version, status, winners, drawnFrom, codes>> /\ drawlock' \in BOOLEAN
    BY <1>2, <1>a DEF DrawLock
  <2>3. \/ drw' = [drw EXCEPT ![d] = s("roster")]
        \/ drw' = [drw EXCEPT ![d] = s("end")]
        \/ Leave(d, "done")
    BY <1>2 DEF DrawLock, Move
  <2>. HIDE DEF s
  <2>4. DrawerTypes(s("roster")) /\ DrawerTypes(s("end"))
    BY <1>a, <2>1 DEF DrawerTypes
  <2>. QED  BY <1>m, <1>l, <2>1, <2>2, <2>3, <2>4
<1>3. CASE DrawEnd(d)
  <2>. DEFINE s == [drw[d] EXCEPT !.at = "fresh"]
  <2>1. /\ s.at = "fresh" /\ s.status = drw[d].status /\ s.version = drw[d].version
        /\ s.ids = drw[d].ids /\ s.next = drw[d].next /\ DOMAIN s = Fields
    BY <1>a DEF Fields
  <2>2. /\ drw' = [drw EXCEPT ![d] = s] /\ UNCHANGED <<winners, drawnFrom, codes, drawlock>>
        /\ status' = "drawn" => status = "drawn"
        /\ version' \in {version, version + 1} /\ (version' # version => version < MaxVersion)
    BY <1>3 DEF DrawEnd, Move
  <2>. HIDE DEF s
  <2>3. DrawerTypes(s)
    BY <1>a, <2>1 DEF DrawerTypes
  <2>4. Locals' /\ drw'[d] = s /\ \A c \in Drawers : c # d => drw'[c] = drw[c]
    BY <1>a, <2>1, <2>2, DrawerMoves
  <2>5. \A c \in Drawers : DrawerTypes(drw[c])'
    BY <2>3, <2>4 DEF DrawInv, DrawerTypes
  <2>6. version' \in 0 .. MaxVersion
    BY <1>a, <2>2, ScheduledAssumption DEF ScheduledAssumption
  <2>. QED  BY <2>2, <2>5, <2>6 DEF DrawInv, CodesMatch, Drawn
<1>4. CASE DrawFresh(d)
  <2>. DEFINE s(v) == [drw[d] EXCEPT !.at = "roster", !.status = "ended", !.version = v]
  <2>1. \A v : /\ s(v).at = "roster" /\ s(v).status = "ended" /\ s(v).version = v
               /\ s(v).ids = drw[d].ids /\ s(v).next = drw[d].next /\ DOMAIN s(v) = Fields
    BY <1>a DEF Fields
  <2>2. /\ \E v \in {drw[d].version, version} : drw' = [drw EXCEPT ![d] = s(v)]
        /\ UNCHANGED <<version, status, winners, drawnFrom, codes, drawlock>>
    BY <1>4 DEF DrawFresh
  <2>. HIDE DEF s
  <2>3. \A v \in {drw[d].version, version} : DrawerTypes(s(v))
    BY <1>a, <2>1 DEF DrawerTypes, Statuses
  <2>. QED  BY <1>a, <1>m, <2>1, <2>2, <2>3
<1>5. CASE DrawRoster(d)
  <2>. DEFINE s == [drw[d] EXCEPT !.at = "assign", !.ids = AllParticipantIDs]
  <2>1. /\ s.at = "assign" /\ s.status = drw[d].status /\ s.version = drw[d].version
        /\ s.ids = AllParticipantIDs /\ s.next = drw[d].next /\ DOMAIN s = Fields
    BY <1>a DEF Fields
  <2>2. /\ drw' = [drw EXCEPT ![d] = s]
        /\ UNCHANGED <<version, status, winners, drawnFrom, codes, drawlock>>
    BY <1>5 DEF DrawRoster
  <2>. HIDE DEF s
  <2>3. AllParticipantIDs \in SUBSET (1 .. MaxRow)
    BY DEF AllParticipantIDs, Known, IInv, RosterTypeOK, Row
  <2>4. DrawerTypes(s)
    BY <1>a, <2>1, <2>3 DEF DrawerTypes
  <2>. QED  BY <1>a, <1>m, <2>1, <2>2, <2>4
<1>6. CASE DrawAssign(d)
  <2>. DEFINE s(w) == [drw[d] EXCEPT !.at = "insert", !.wins = w]
              won(order) == LET a == AssignScheduled(order, Prizes)
                            IN [k \in DOMAIN a |-> [part |-> a[k].part, prize |-> a[k].prize,
                                                    user |-> UserOf(a[k].part)]]
  <2>1. \A w : /\ s(w).at = "insert" /\ s(w).status = drw[d].status
               /\ s(w).version = drw[d].version /\ s(w).wins = w
               /\ s(w).ids = drw[d].ids /\ s(w).next = drw[d].next /\ DOMAIN s(w) = Fields
    BY <1>a DEF Fields
  <2>2. /\ \E order \in Shuffled(drw[d].ids) : drw' = [drw EXCEPT ![d] = s(won(order))]
        /\ UNCHANGED <<version, status, winners, drawnFrom, codes, drawlock>>
    BY <1>6 DEF DrawAssign
  <2>3. PICK order \in Shuffled(drw[d].ids) : drw' = [drw EXCEPT ![d] = s(won(order))]
    BY <2>2
  <2>4. Drawn(won(order), drw[d].ids)
    BY <1>a, DrawnByAll DEF DrawerTypes, Known
  <2>. HIDE DEF s, won
  <2>5. DrawerTypes(s(won(order)))
    BY <1>a, <2>1, <2>4 DEF DrawerTypes
  <2>. QED  BY <1>a, <1>m, <2>1, <2>2, <2>3, <2>5
<1>7. CASE DrawInsert(d)
  <2>1. CASE CasOk(d) /\ Unique(drw[d].wins)
    <3>1. /\ status # "drawn" /\ status' = "drawn" /\ UNCHANGED <<codes, drawlock>>
          /\ winners' = drw[d].wins /\ drawnFrom' = drw[d].ids
          /\ version < MaxVersion /\ version' = version + 1
      BY <1>7, <2>1 DEF DrawInsert, CasOk
    <3>2. codes = {}
      <4>1. winners = <<>>
        BY <3>1 DEF Known, DrawnInv
      <4> QED
        BY <4>1 DEF DrawInv, CodesMatch
    <3>. DEFINE s == [drw[d] EXCEPT !.at = "audit"]
    <3>3. /\ s.at = "audit" /\ s.status = drw[d].status /\ s.version = drw[d].version
          /\ s.ids = drw[d].ids /\ s.next = drw[d].next /\ DOMAIN s = Fields
      BY <1>a DEF Fields
    <3>4. drw' = [drw EXCEPT ![d] = s] \/ Leave(d, "unlock")
      BY <1>7, <2>1 DEF DrawInsert, Move
    <3>. HIDE DEF s
    <3>5. DrawerTypes(s)
      BY <1>a, <3>3 DEF DrawerTypes
    <3>6. DrawerTypes(drw'[d]) /\ \A c \in Drawers : c # d => drw'[c] = drw[c]
      BY <1>a, <3>3, <3>4, <3>5, DrawerMoves, LeaveTypes
    <3>7. \A c \in Drawers : DrawerTypes(drw[c])'
      BY <3>6 DEF DrawInv, DrawerTypes
    <3>8. Drawn(winners, drawnFrom)'
      BY <1>7, <1>a, <3>1 DEF DrawInsert, DrawerTypes, Drawn
    <3>9. version' \in 0 .. MaxVersion
      BY <1>a, <3>1, ScheduledAssumption DEF ScheduledAssumption
    <3>10. (\A c \in codes : c.user \in Users)' /\ CodesMatch'
      BY <3>1, <3>2 DEF CodesMatch
    <3>. QED  BY <1>a, <3>1, <3>7, <3>8, <3>9, <3>10 DEF DrawInv
  <2>2. CASE ~(CasOk(d) /\ Unique(drw[d].wins))
    <3>1. Leave(d, "unlock")
          /\ UNCHANGED <<version, status, winners, drawnFrom, codes, drawlock>>
      BY <1>7, <2>2 DEF DrawInsert
    <3>. QED  BY <1>a, <1>l, <3>1
  <2>. QED  BY <2>1, <2>2
<1>8. CASE DrawAudit(d)
  <2>. DEFINE s == [drw[d] EXCEPT !.at = "codes"]
  <2>1. /\ s.at = "codes" /\ s.status = drw[d].status /\ s.version = drw[d].version
        /\ s.ids = drw[d].ids /\ s.next = drw[d].next /\ DOMAIN s = Fields
    BY <1>a DEF Fields
  <2>2. /\ drw' = [drw EXCEPT ![d] = s]
        /\ UNCHANGED <<version, status, winners, drawnFrom, codes, drawlock>>
    BY <1>8 DEF DrawAudit, Move
  <2>. HIDE DEF s
  <2>3. DrawerTypes(s)
    BY <1>a, <2>1 DEF DrawerTypes
  <2>. QED  BY <1>a, <1>m, <2>1, <2>2, <2>3
<1>9. CASE DrawCode(d)
  <2>. DEFINE s == [drw[d] EXCEPT !.next = drw[d].next + 1]
              k == drw[d].next
              u == winners[k].user
  <2>1. /\ s.at = "codes" /\ s.status = drw[d].status /\ s.version = drw[d].version
        /\ s.ids = drw[d].ids /\ s.next = drw[d].next + 1 /\ DOMAIN s = Fields
    BY <1>9, <1>a DEF Fields, DrawCode
  <2>2. /\ drw' = [drw EXCEPT ![d] = s]
        /\ UNCHANGED <<version, status, winners, drawnFrom, drawlock>>
        /\ k <= Len(drw[d].wins) /\ drw[d].at = "codes"
    BY <1>9 DEF DrawCode
  <2>3. status = "drawn" /\ drw[d].wins = winners /\ Drawn(winners, drawnFrom)
    BY <1>a, <2>2 DEF DrawerOK, DrawInv
  <2>4. codes' = codes \/ /\ u # None /\ \A c \in codes : c.token # Token(k)
                          /\ codes' = codes \cup {[token |-> Token(k), user |-> u]}
    BY <1>9, <2>3 DEF DrawCode
  <2>5. k \in DOMAIN winners /\ u \in Users \cup {None}
    BY <1>a, <2>2, <2>3 DEF DrawerTypes, Drawn
  <2>. HIDE DEF s, k, u
  <2>6. DrawerTypes(s)
    BY <1>a, <2>1 DEF DrawerTypes
  <2>7. Locals' /\ drw'[d] = s /\ \A c \in Drawers : c # d => drw'[c] = drw[c]
    BY <1>a, <2>1, <2>2, DrawerMoves
  <2>8. \A c \in Drawers : DrawerTypes(drw[c])'
    BY <2>6, <2>7 DEF DrawInv, DrawerTypes
  <2>9. (\A c \in codes : c.user \in Users)'
    BY <2>4, <2>5 DEF DrawInv
  <2>10. CodesMatch'
    <3>1. CASE codes' = codes
      BY <3>1, <2>2 DEF DrawInv, CodesMatch
    <3>2. CASE /\ \A c \in codes : c.token # Token(k)
               /\ codes' = codes \cup {[token |-> Token(k), user |-> u]}
      <4>. DEFINE new == [token |-> Token(k), user |-> u]
      <4>1. new.token = Token(k) /\ new.user = winners'[k].user /\ codes' = codes \cup {new}
        BY <3>2, <2>2 DEF u
      <4>. HIDE DEF new
      <4>2. \A c \in codes' : \E j \in DOMAIN winners' :
               c.token = Token(j) /\ c.user = winners'[j].user
        BY <4>1, <2>2, <2>5 DEF DrawInv, CodesMatch
      <4>3. \A c, e \in codes' : c.token = e.token => c = e
        BY <4>1, <3>2 DEF DrawInv, CodesMatch
      <4>. QED  BY <4>2, <4>3 DEF CodesMatch
    <3>. QED  BY <3>1, <3>2, <2>4
  <2>. QED  BY <1>a, <2>2, <2>3, <2>8, <2>9, <2>10 DEF DrawInv, Drawn
<1>10. CASE DrawCodesDone(d) \/ DrawUnlock(d) \/ DrawFails(d) \/ DrawCrash(d)
  <2>1. /\ Leave(d, "unlock") \/ Leave(d, "done")
        /\ UNCHANGED <<version, status, winners, drawnFrom, codes>>
        /\ drawlock' \in BOOLEAN
    BY <1>10, <1>a DEF DrawCodesDone, DrawUnlock, DrawFails, DrawCrash
  <2>. QED  BY <1>l, <2>1
<1>. QED
  BY <1>1, <1>2, <1>3, <1>4, <1>5, <1>6, <1>7, <1>8, <1>9, <1>10 DEF DrawStep

LEMMA DrawInitially == Init => DrawInv
<1> SUFFICES ASSUME Init PROVE DrawInv
  OBVIOUS
<1>1. \A d \in Drawers : drw[d] = Idle
  BY DEF Init
<1>2. DrawerTypes(Idle)
  BY ScheduledAssumption DEF DrawerTypes, Idle, Statuses, ScheduledAssumption
<1>3. version = 0 /\ drawlock = FALSE /\ codes = {} /\ status = "published"
  BY DEF Init, RosterInit
<1>4. version \in 0 .. MaxVersion
  BY <1>3, ScheduledAssumption DEF ScheduledAssumption
<1>5. \A d \in Drawers : DrawerTypes(drw[d])
  BY <1>1, <1>2
<1>6. CodesMatch
  BY <1>3 DEF CodesMatch
<1> QED
  BY <1>3, <1>4, <1>5, <1>6 DEF DrawInv

LEMMA DrawInductive == Known /\ DrawInv /\ [Next]_vars => DrawInv'
<1>. SUFFICES ASSUME Known, DrawInv, [Next]_vars PROVE DrawInv'
  OBVIOUS
<1>1. CASE UNCHANGED drawVars /\ UNCHANGED status
  BY <1>1 DEF DrawInv, DrawerTypes, Drawn, CodesMatch, drawVars
<1>2. CASE (RosterNext \/ Tick) /\ UNCHANGED drawVars
  <2>1. UNCHANGED status
    BY <1>2 DEF RosterNext, Tick, Enroll, EnrollStart, EnrollBlacklisted, EnrollCount,
          EnrollInsert, EnrollRow, EnrollFails, Import, Delete, AddBlacklist
  <2>. QED  BY <1>1, <1>2, <2>1
<1>3. CASE LockExpires
  <2>1. /\ drawlock' = FALSE
        /\ UNCHANGED <<status, version, drw, winners, codes, drawnFrom>>
    BY <1>3 DEF LockExpires, rosterVars
  <2>. QED  BY <2>1 DEF DrawInv, DrawerTypes, Drawn, CodesMatch
<1>4. CASE OtherWriter
  <2>1. /\ status' # "drawn" /\ version < MaxVersion /\ version' = version + 1
        /\ UNCHANGED <<drawlock, winners, codes, drawnFrom, drw>>
    BY <1>4 DEF OtherWriter
  <2>2. version' \in 0 .. MaxVersion
    BY <2>1, ScheduledAssumption DEF ScheduledAssumption, DrawInv
  <2>. QED  BY <2>1, <2>2 DEF DrawInv, DrawerTypes, Drawn, CodesMatch
<1>5. CASE UNCHANGED vars
  BY <1>1, <1>5 DEF vars, rosterVars
<1>6. CASE \E d \in Drawers : DrawStep(d)
  BY <1>6, DrawStepTypes
<1>. QED  BY <1>2, <1>3, <1>4, <1>5, <1>6 DEF Next

LEMMA DrawHolds == Spec => [](Known /\ DrawInv)
<1>1. IInv /\ DrawnInv => Known
  BY DEF Known
<1>. QED  BY <1>1, RosterHolds, DrawnHolds, DrawInitially, DrawInductive, PTL DEF Spec

\* Types, of the roster and of the drawers beside it.
THEOREM ScheduledTypes == Spec => []TypeOK
<1>1. Known /\ DrawInv => TypeOK
  BY DEF Known, IInv, RosterTypeOK, DrawInv, DrawerTypes, TypeOK
<1>. QED  BY <1>1, DrawHolds, PTL

\* For any prizes and rosters, and any number of drawers that fail, stop, or work
\* on behind an expired lock: the winners of a drawn activity fill its places, in
\* the order of the prizes, from the people that one of the draws had read.
THEOREM DrawsFillThePlaces == Spec => []FullyDrawn
<1>1. Known /\ DrawInv => FullyDrawn
  BY DEF Known, DrawnInv, DrawInv, Drawn, FullyDrawn
<1>. QED  BY <1>1, DrawHolds, PTL

\* Whatever tokens coincide, a code is for the account of a winner with its token,
\* and the only one with it.
THEOREM CodesAreTheWinners == Spec => []CodesMatch
<1>1. Known /\ DrawInv => CodesMatch
  BY DEF DrawInv
<1>. QED  BY <1>1, DrawHolds, PTL
=============================================================================
