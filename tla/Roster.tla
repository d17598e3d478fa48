------------------------------- MODULE Roster -------------------------------
(***************************************************************************)
(* One activity's roster (App.Enroll, ImportParticipants,                  *)
(* DeleteParticipant, Blacklist in src/internal/service/app.go and their   *)
(* statements in src/internal/store/db.go): the tables enrollments,        *)
(* blacklist and participants, and the handlers of Enroll, which make one  *)
(* statement after the other without a transaction.                        *)
(*                                                                         *)
(* Abstracted: names, departments and avatars of a row; the roster version *)
(* in Redis, which LiveDraw models; the tenant check.  The activity is a   *)
(* published one, open to enrollment.  The uid "U{id}" of a user's own row *)
(* is the user itself.                                                     *)
(***************************************************************************)
EXTENDS Naturals, FiniteSets

CONSTANTS
    Users,          \* accounts that may enroll
    Externals,      \* uids on an imported sheet that belong to no account
    Enrollers,      \* handlers of Enroll: as many requests may run at once
    MaxEnrollments, \* activities.max_enrollments, 0 for no limit
    MaxRow,         \* bound: ids given to participants rows
    None

ASSUME RosterAssumption ==
    /\ None \notin Users
    /\ IsFiniteSet(Enrollers)
    /\ MaxEnrollments \in Nat
    /\ MaxRow \in Nat

Uids == Users \cup Externals

VARIABLES
    rows,        \* participants: the rows of the activity
    lastId,      \* participants: the last AUTO_INCREMENT id
    enrollments, \* the users with an enrollments row
    blacklist,   \* the users with a blacklist row
    clock,       \* the time: "before" start_at, "in" the window, or "over"
    status,      \* activities.status
    enr,         \* the Enroll handlers
    answered,    \* history: users told that they are enrolled
    imported,    \* history: uids whose row an import created
    removed      \* history: uids whose row an admin deleted

tables == <<rows, lastId, enrollments, blacklist>>
handlers == <<enr, answered, imported, removed>>
rosterVars == <<tables, handlers, clock, status>>

Row == [id : 1 .. MaxRow, uid : Uids, user : Users \cup {None}]
RowOf(uid) == {r \in rows : r.uid = uid}

Statuses == {"published", "running", "paused", "cancelled", "ended", "drawn"}

EnrollSteps == {"idle", "black", "count", "insert", "row"}
IdleHandler == [at |-> "idle", user |-> None, barred |-> FALSE]

RosterTypeOK ==
    /\ rows \in SUBSET Row
    /\ lastId \in 0 .. MaxRow
    /\ \A r \in rows : r.id <= lastId
    /\ enrollments \in SUBSET Users
    /\ blacklist \in SUBSET Users
    /\ clock \in {"before", "in", "over"}
    /\ status \in Statuses
    /\ enr \in [Enrollers -> [at : EnrollSteps, user : Users \cup {None},
                              barred : BOOLEAN]]
    /\ answered \in SUBSET Users
    /\ imported \in SUBSET Uids
    /\ removed \in SUBSET Uids

-----------------------------------------------------------------------------
(* Store.UpsertParticipant, on the unique key (activity_id, uid): an existing *)
(* row keeps its id and its user_id; the update writes names only.           *)

\* Mutant: the unique key is not there.
UpsertAgain(uid, user) ==
    /\ lastId < MaxRow
    /\ lastId' = lastId + 1
    /\ rows' = rows \cup {[id |-> lastId + 1, uid |-> uid, user |-> user]}

Upsert(uid, user) ==
    IF RowOf(uid) # {}
    THEN UNCHANGED <<rows, lastId>>
    ELSE /\ lastId < MaxRow
         /\ lastId' = lastId + 1
         /\ rows' = rows \cup {[id |-> lastId + 1, uid |-> uid, user |-> user]}

\* Store.CountEnroll and Store.Blacklisted
CountEnroll == Cardinality(enrollments)
Blacklisted(u) == u \in blacklist

Goto(h, at) == enr' = [enr EXCEPT ![h].at = at]
Answer(h) == enr' = [enr EXCEPT ![h] = IdleHandler]

(* Enroll reads the activity and, by maybeFlipStatus, its clock.  Only the    *)
(* clock refuses an activity that is not open: a paused, cancelled or ended   *)
(* one takes enrollments as long as the clock is in the window.  An open one  *)
(* takes them before the window, and after it when the update to "ended" is   *)
(* refused or fails.                                                          *)
TakesEnrollments == clock = "in" \/ status \in {"published", "running"}

EnrollStart(h) ==
    /\ enr[h].at = "idle"
    /\ TakesEnrollments
    /\ \E u \in Users :
          enr' = [enr EXCEPT ![h] = [at |-> "black", user |-> u,
                                     barred |-> u \in blacklist]]
    /\ UNCHANGED <<tables, answered, imported, removed, clock, status>>

EnrollBlacklisted(h) ==
    /\ enr[h].at = "black"
    /\ IF Blacklisted(enr[h].user) THEN Answer(h)
       ELSE Goto(h, IF MaxEnrollments > 0 THEN "count" ELSE "insert")
    /\ UNCHANGED <<tables, answered, imported, removed, clock, status>>

\* Mutant: one more than the limit passes.
EnrollCountOneMore(h) ==
    /\ enr[h].at = "count"
    /\ IF CountEnroll > MaxEnrollments THEN Answer(h)
       ELSE Goto(h, "insert")
    /\ UNCHANGED <<tables, answered, imported, removed, clock, status>>

EnrollCount(h) ==
    /\ enr[h].at = "count"
    /\ IF CountEnroll >= MaxEnrollments THEN Answer(h)
       ELSE Goto(h, "insert")
    /\ UNCHANGED <<tables, answered, imported, removed, clock, status>>

\* A second row of the user is refused by uk_enroll_user (ErrEnrolled)
EnrollInsert(h) ==
    /\ enr[h].at = "insert"
    /\ IF enr[h].user \in enrollments
       THEN Answer(h) /\ UNCHANGED enrollments
       ELSE /\ enrollments' = enrollments \cup {enr[h].user}
            /\ Goto(h, "row")
    /\ UNCHANGED <<rows, lastId, blacklist, answered, imported, removed, clock, status>>

\* Mutant: the row is written as an import writes it.
EnrollRowUnlinked(h) ==
    /\ enr[h].at = "row"
    /\ Upsert(enr[h].user, None)
    /\ answered' = answered \cup {enr[h].user}
    /\ Answer(h)
    /\ UNCHANGED <<enrollments, blacklist, imported, removed, clock, status>>

EnrollRow(h) ==
    /\ enr[h].at = "row"
    /\ Upsert(enr[h].user, enr[h].user)
    /\ answered' = answered \cup {enr[h].user}
    /\ Answer(h)
    /\ UNCHANGED <<enrollments, blacklist, imported, removed, clock, status>>

\* Mutant: the error of the last statement is dropped.
EnrollFailsSilently(h) ==
    /\ enr[h].at # "idle"
    /\ answered' = IF enr[h].at = "row" THEN answered \cup {enr[h].user} ELSE answered
    /\ Answer(h)
    /\ UNCHANGED <<tables, imported, removed, clock, status>>

\* A statement fails, or the process stops: what was written stays
EnrollFails(h) ==
    /\ enr[h].at # "idle"
    /\ Answer(h)
    /\ UNCHANGED <<tables, answered, imported, removed, clock, status>>

Enroll(h) ==
    \/ EnrollStart(h) \/ EnrollBlacklisted(h) \/ EnrollCount(h)
    \/ EnrollInsert(h) \/ EnrollRow(h) \/ EnrollFails(h)

-----------------------------------------------------------------------------
(* The admin, at any status of the activity                                  *)

Import(uid) ==
    /\ Upsert(uid, None)
    /\ imported' = IF RowOf(uid) = {} THEN imported \cup {uid} ELSE imported
    /\ UNCHANGED <<enrollments, blacklist, enr, answered, removed, clock, status>>

(* ParticipantWon reads draw_records, which only live draws write: for a      *)
(* scheduled activity nothing stops the DELETE.                               *)
Delete(r) ==
    /\ rows' = rows \ {r}
    /\ removed' = removed \cup {r.uid}
    /\ UNCHANGED <<lastId, enrollments, blacklist, enr, answered, imported, clock, status>>

AddBlacklist(u) ==
    /\ blacklist' = blacklist \cup {u}
    /\ UNCHANGED <<rows, lastId, enrollments, handlers, clock, status>>

\* Time passes.
Tick ==
    /\ clock # "over"
    /\ clock' = IF clock = "before" THEN "in" ELSE "over"
    /\ UNCHANGED <<tables, handlers, status>>

\* The activity's status is written by others (modules Lifecycle, Scheduled).
Flip ==
    /\ status' \in Statuses \ {status}
    /\ UNCHANGED <<tables, handlers, clock>>

RosterInit ==
    /\ rows = {}
    /\ lastId = 0
    /\ enrollments = {}
    /\ blacklist = {}
    /\ clock = "before"
    /\ status = "published"
    /\ enr = [h \in Enrollers |-> IdleHandler]
    /\ answered = {}
    /\ imported = {}
    /\ removed = {}

RosterNext ==
    \/ \E h \in Enrollers : Enroll(h)
    \/ \E uid \in Uids : Import(uid)
    \/ \E r \in rows : Delete(r)
    \/ \E u \in Users : AddBlacklist(u)

RosterSpec == RosterInit /\ [][RosterNext \/ Tick \/ Flip]_rosterVars

-----------------------------------------------------------------------------
(* Properties                                                                *)

\* A uid is on the roster once, and an id is one row: enrolling, importing and
\* enrolling again after a deletion never make a second head of one person.
OneHead == \A r, s \in rows : r.uid = s.uid \/ r.id = s.id => r = s

\* Who was told that they are enrolled is on the roster, unless an admin deleted
\* them: Enroll answers after both rows are written.
OnRoster == \A u \in answered \ removed : RowOf(u) # {}

\* The row of an enrolled user carries the account that redeems the prize, unless
\* an import took the uid "U{id}" first: the upsert does not fill user_id in.
Linked == \A r \in rows : r.uid \in answered \ imported => r.user = r.uid

\* Count and insert are two statements, so the limit can be passed: by no more
\* than the handlers that were past the count, less one.
Overshoot ==
    MaxEnrollments > 0 =>
       CountEnroll
         + Cardinality({h \in Enrollers : enr[h].at = "insert"
                          /\ enr[h].user \notin enrollments})
            <= MaxEnrollments - 1 + Cardinality(Enrollers)

\* A user on the blacklist when the request came in is never enrolled by it.
BarredStayOut == \A h \in Enrollers : enr[h].barred => enr[h].at \notin {"count", "insert", "row"}
=============================================================================
