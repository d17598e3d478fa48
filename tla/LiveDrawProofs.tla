-------------------------- MODULE LiveDrawProofs ---------------------------
(***************************************************************************)
(* Theorems about LiveDraw, for all values of its constants.               *)
(***************************************************************************)
EXTENDS LiveDraw, FiniteSetTheorems, TLAPS

-----------------------------------------------------------------------------
(* Type correctness.  The quota is a number because 'won' is finite.       *)

TypeInv == TypeOK /\ IsFiniteSet(won)

\* The quota of a prize, and with it the size of a batch, is a number.
LEMMA RemainingType ==
  ASSUME TypeInv, NEW z \in Prizes
  PROVE  Remaining(z) \in Int
<1>1. IsFiniteSet(Winners(z))
  BY FS_Subset DEF TypeInv, Winners
<1>2. Cardinality(Winners(z)) \in Nat
  BY <1>1, FS_CardinalityType
<1>. QED  BY <1>2, LiveAssumption DEF Remaining

\* Inserting a row keeps draw_records a finite set of rows.
LEMMA InsertType ==
  ASSUME TypeInv, NEW k \in Keys, NEW p \in Participants, NEW z \in Prizes,
         InsertDraw(k, p, z)
  PROVE  won' \in SUBSET Rows /\ IsFiniteSet(won')
<1>1. CASE RowExists(k, p)
  BY <1>1 DEF InsertDraw, TypeInv, TypeOK
<1>2. CASE ~RowExists(k, p)
  <2>1. won' = won \cup {Row(k, p, z)}
    BY <1>2 DEF InsertDraw
  <2>2. IsFiniteSet(won')
    BY <2>1, FS_AddElement DEF TypeInv
  <2>. QED  BY <2>1, <2>2 DEF TypeInv, TypeOK, Rows, Row
<1>. QED  BY <1>1, <1>2

\* What a handler keeps between two of its steps: a request that is under way
\* names a key and a prize, and one that is dealing with a winner names it.
LocalOK(s) ==
  /\ s.pc \notin {"idle", "replied"} => s.key \in Keys /\ s.prize \in Prizes
  /\ s.pc \in {"compensate", "redeem"} => s.cur \in s.todo

LocalInv ==
  /\ \A d \in Drawers : LocalOK(dr[d])
  /\ \A u \in Undoers : ud[u].pc # "idle" => ud[u].key \in Keys
  /\ \A e \in Editors : ed[e].pc = "delete" => ed[e].part \in Participants
  /\ wk # NoRow => wk \in Rows

TInv == TypeInv /\ LocalInv

LEMMA InitType == Init => TInv
BY FS_EmptySet, LiveAssumption
   DEF Init, TInv, TypeInv, TypeOK, LocalInv, LocalOK, DrawRec, DrawIdle, UndoIdle,
       EditIdle, NoRow, Row, Rows, NotBuilt, NoBatch, Fresh, DrawPC, Reply

\* A step of request d keeps the types if the state it goes on in has its type
\* and the stores keep theirs.
LEMMA BecomeType ==
  ASSUME TInv, NEW d \in Drawers, NEW s \in DrawRec, LocalOK(s), Become(d, s),
         pool' \in [Prizes -> SUBSET Participants],
         built' \in [Prizes -> Nat \cup {NotBuilt}],
         idemp' \in [Keys -> [state : {"fresh", "drawn", "undone"},
                              ids : SUBSET Participants]],
         won' \in SUBSET Rows, IsFiniteSet(won'),
         failures' \in SUBSET Rows,
         codes' \in SUBSET (Keys \X Participants),
         batch' \in [Keys -> [prize : Prizes \cup {None}, ids : SUBSET Participants]],
         UNCHANGED <<ver, roster, undone, ud, ed, wk>>
  PROVE  TInv'
<1>1. dr' \in [Drawers -> DrawRec]
  BY DEF TInv, TypeInv, TypeOK, Become
<1>2. \A c \in Drawers : LocalOK(dr'[c])
  <2>. SUFFICES ASSUME NEW c \in Drawers PROVE LocalOK(dr'[c])
    OBVIOUS
  <2>1. dr'[c] = IF c = d THEN s ELSE dr[c]
    BY DEF TInv, TypeInv, TypeOK, Become
  <2>. QED  BY <2>1 DEF TInv, LocalInv
<1>. QED  BY <1>1, <1>2 DEF TInv, TypeInv, TypeOK, LocalInv, LocalOK

\* After a winner, the handler is at the next one or has its answer.
LEMMA AfterWinnerType ==
  ASSUME TInv, NEW d \in Drawers, NEW p \in Participants,
         dr[d].pc \in {"persist", "compensate", "redeem"}
  PROVE  AfterWinner(d, p) \in DrawRec /\ LocalOK(AfterWinner(d, p))
<1>. DEFINE pc    == IF dr[d].todo = {p} THEN "replied" ELSE "persist"
            reply == IF dr[d].todo = {p} THEN "won" ELSE "none"
            s     == [dr[d] EXCEPT !.pc = pc, !.reply = reply,
                                   !.todo = dr[d].todo \ {p}, !.cur = None]
<1>1. dr[d] \in DrawRec /\ LocalOK(dr[d])
  BY DEF TInv, TypeInv, TypeOK, LocalInv
<1>2. AfterWinner(d, p) = s
  BY DEF AfterWinner
<1>3. pc \in DrawPC /\ reply \in Reply /\ pc \in {"persist", "replied"}
  BY DEF DrawPC, Reply
<1>. HIDE DEF pc, reply
<1>4. s \in DrawRec /\ LocalOK(s)
  BY <1>1, <1>3 DEF DrawRec, LocalOK
<1>. QED  BY <1>2, <1>4

\* After a row, it is at the winner's redeem code or past the winner.
LEMMA AfterRowType ==
  ASSUME TInv, NEW d \in Drawers, NEW p \in dr[d].todo, p \in Participants,
         dr[d].pc \in {"persist", "compensate", "redeem"}
  PROVE  AfterRow(d, p) \in DrawRec /\ LocalOK(AfterRow(d, p))
<1>1. CASE p \in Registered
  <2>. DEFINE s == [dr[d] EXCEPT !.pc = "redeem", !.cur = p]
  <2>1. dr[d] \in DrawRec /\ LocalOK(dr[d])
    BY DEF TInv, TypeInv, TypeOK, LocalInv
  <2>2. s \in DrawRec /\ LocalOK(s)
    BY <2>1 DEF DrawRec, LocalOK, DrawPC
  <2>. QED  BY <1>1, <2>2 DEF AfterRow
<1>2. CASE p \notin Registered
  BY <1>2, AfterWinnerType DEF AfterRow
<1>. QED  BY <1>1, <1>2

\* Each step of a draw request keeps the types.
LEMMA DrawType ==
  ASSUME TInv, NEW d \in Drawers,
         \/ \E z \in Prizes, k \in Keys : DrawRequest(d, z, k)
         \/ DrawStep(d)
         \/ AbortDraw(d)
  PROVE  TInv'
<1>. USE DEF TInv, TypeInv, TypeOK, LocalInv, redis, mysql
<1>. dr[d] \in DrawRec /\ LocalOK(dr[d])
  OBVIOUS
<1>1. ASSUME NEW z \in Prizes, NEW k \in Keys, DrawRequest(d, z, k) PROVE TInv'
  <2>. DEFINE left == Remaining(z)
              n == IF PerRound[z] > left THEN left ELSE PerRound[z]
              s == [DrawIdle EXCEPT !.pc = "replied", !.key = k, !.prize = z,
                                    !.reply = "exhausted"]
              t == [DrawIdle EXCEPT !.pc = "version", !.key = k, !.prize = z,
                                    !.count = n]
  <2>1. CASE left <= 0
    <3>1. s \in DrawRec /\ LocalOK(s)
      BY DEF DrawIdle, DrawRec, LocalOK, DrawPC, Reply
    <3>2. Become(d, s)
      BY <1>1, <2>1 DEF DrawRequest
    <3>. QED  BY <1>1, <3>1, <3>2, BecomeType DEF DrawRequest
  <2>2. CASE ~(left <= 0)
    <3>1. n \in Nat
      BY <2>2, RemainingType, LiveAssumption
    <3>2. t \in DrawRec /\ LocalOK(t)
      BY <3>1 DEF DrawIdle, DrawRec, LocalOK, DrawPC, Reply
    <3>3. Become(d, t)
      BY <1>1, <2>2 DEF DrawRequest
    <3>. QED  BY <1>1, <3>2, <3>3, BecomeType DEF DrawRequest
  <2>. QED  BY <2>1, <2>2
<1>2. CASE ReadRosterVersion(d)
  <2>. DEFINE s == [dr[d] EXCEPT !.pc = "draw", !.ver = ver]
  <2>1. s \in DrawRec /\ LocalOK(s)
    BY <1>2 DEF ReadRosterVersion, DrawRec, LocalOK, DrawPC
  <2>. QED  BY <1>2, <2>1, BecomeType DEF ReadRosterVersion
<1>3. CASE LuaReplay(d)
  <2>. DEFINE k == dr[d].key
              s == [dr[d] EXCEPT !.pc = "replied", !.reply = "undone"]
              t == [dr[d] EXCEPT !.pc = "views", !.dup = TRUE, !.ids = idemp[k].ids]
  <2>1. k \in Keys
    BY <1>3 DEF LuaReplay, InScript, LocalOK
  <2>2. s \in DrawRec /\ LocalOK(s)
    BY DEF DrawRec, LocalOK, DrawPC, Reply
  <2>3. t \in DrawRec /\ LocalOK(t)
    BY <1>3, <2>1 DEF LuaReplay, InScript, DrawRec, LocalOK, DrawPC
  <2>. QED  BY <1>3, <2>2, <2>3, BecomeType DEF LuaReplay, Answer
<1>4. CASE LuaClosed(d)
  <2>. DEFINE s == [dr[d] EXCEPT !.pc = "replied", !.reply = "refused"]
  <2>1. s \in DrawRec /\ LocalOK(s)
    BY <1>4 DEF LuaClosed, Answer, DrawRec, LocalOK, DrawPC, Reply
  <2>. QED  BY <1>4, <2>1, BecomeType DEF LuaClosed, Answer
<1>5. CASE LuaStale(d)
  <2>. DEFINE s == [dr[d] EXCEPT !.pc = "replied", !.reply = "refused"]
              t == [dr[d] EXCEPT !.pc = "eligible"]
  <2>1. s \in DrawRec /\ LocalOK(s)
    BY DEF DrawRec, LocalOK, DrawPC, Reply
  <2>2. t \in DrawRec /\ LocalOK(t)
    BY <1>5 DEF LuaStale, InScript, DrawRec, LocalOK, DrawPC
  <2>. QED  BY <1>5, <2>1, <2>2, BecomeType DEF LuaStale, Answer, Goto
<1>6. CASE LuaInsufficient(d)
  <2>. DEFINE s == [dr[d] EXCEPT !.pc = "replied", !.reply = "refused"]
  <2>1. s \in DrawRec /\ LocalOK(s)
    BY <1>6 DEF LuaInsufficient, Answer, DrawRec, LocalOK, DrawPC, Reply
  <2>. QED  BY <1>6, <2>1, BecomeType DEF LuaInsufficient, Answer
<1>7. ASSUME NEW W \in SUBSET Participants, LuaPop(d, W) PROVE TInv'
  <2>. DEFINE s == [dr[d] EXCEPT !.pc = "views", !.ids = W]
  <2>1. s \in DrawRec /\ LocalOK(s)
    BY <1>7 DEF LuaPop, InScript, DrawRec, LocalOK, DrawPC, Reply
  <2>2. dr[d].key \in Keys /\ dr[d].prize \in Prizes
    BY <1>7 DEF LuaPop, InScript, LocalOK
  <2>. QED  BY <1>7, <2>1, <2>2, BecomeType DEF LuaPop, InScript
<1>8. CASE QueryEligible(d)
  <2>. DEFINE s == [dr[d] EXCEPT !.pc = "del", !.ids = Eligible(dr[d].prize)]
  <2>1. s \in DrawRec /\ LocalOK(s)
    BY <1>8 DEF QueryEligible, Eligible, DrawRec, LocalOK, DrawPC, Reply
  <2>. QED  BY <1>8, <2>1, BecomeType DEF QueryEligible, Eligible
<1>9. CASE RebuildDel(d)
  <2>. DEFINE s == [dr[d] EXCEPT !.pc = "add"]
  <2>1. s \in DrawRec /\ LocalOK(s)
    BY <1>9 DEF RebuildDel, Goto, DrawRec, LocalOK, DrawPC, Reply
  <2>. QED  BY <1>9, <2>1, BecomeType DEF RebuildDel, Goto
<1>10. CASE RebuildAdd(d)
  <2>. DEFINE s == [dr[d] EXCEPT !.pc = "mark"]
  <2>1. s \in DrawRec /\ LocalOK(s)
    BY <1>10 DEF RebuildAdd, Goto, DrawRec, LocalOK, DrawPC, Reply
  <2>2. dr[d].ids \in SUBSET Participants /\ dr[d].prize \in Prizes
    BY <1>10 DEF RebuildAdd, DrawRec, LocalOK
  <2>. QED  BY <1>10, <2>1, <2>2, BecomeType DEF RebuildAdd, Goto
<1>11. CASE RebuildMark(d)
  <2>. DEFINE s == [dr[d] EXCEPT !.pc = "redraw", !.ids = {}]
  <2>1. s \in DrawRec /\ LocalOK(s)
    BY <1>11 DEF RebuildMark, DrawRec, LocalOK, DrawPC, Reply
  <2>2. dr[d].ver \in Nat
    BY DEF DrawRec
  <2>. QED  BY <1>11, <2>1, <2>2, BecomeType DEF RebuildMark
<1>12. CASE LoadWinners(d)
  <2>. DEFINE s(what) == [dr[d] EXCEPT !.pc = "replied", !.reply = what]
              t == [dr[d] EXCEPT !.pc = "persist", !.todo = dr[d].ids]
  <2>1. \A what \in Reply : s(what) \in DrawRec /\ LocalOK(s(what))
    BY DEF DrawRec, LocalOK, DrawPC
  <2>2. t \in DrawRec /\ LocalOK(t)
    BY <1>12 DEF LoadWinners, DrawRec, LocalOK, DrawPC
  <2>3. Become(d, s("error")) \/ Become(d, s("replay")) \/ Become(d, t)
    BY <1>12 DEF LoadWinners, Answer
  <2>4. "error" \in Reply /\ "replay" \in Reply
    BY DEF Reply
  <2>. HIDE DEF s, t
  <2>. QED  BY <1>12, <2>1, <2>2, <2>3, <2>4, BecomeType DEF LoadWinners
<1>13. ASSUME NEW p \in Participants, PersistOk(d, p) PROVE TInv'
  <2>1. AfterRow(d, p) \in DrawRec /\ LocalOK(AfterRow(d, p))
    BY <1>13, AfterRowType DEF PersistOk
  <2>2. won' \in SUBSET Rows /\ IsFiniteSet(won')
    BY <1>13, InsertType DEF PersistOk, LocalOK
  <2>. QED  BY <1>13, <2>1, <2>2, BecomeType DEF PersistOk
<1>14. ASSUME NEW p \in Participants, PersistFail(d, p) PROVE TInv'
  <2>. DEFINE s == [dr[d] EXCEPT !.pc = "compensate", !.cur = p]
  <2>1. s \in DrawRec /\ LocalOK(s)
    BY <1>14 DEF PersistFail, DrawRec, LocalOK, DrawPC
  <2>2. won' \in SUBSET Rows /\ IsFiniteSet(won')
    BY <1>14, InsertType DEF PersistFail, LocalOK
  <2>. QED  BY <1>14, <2>1, <2>2, BecomeType DEF PersistFail
<1>15. CASE Compensate(d)
  <2>1. dr[d].cur \in Participants /\ dr[d].cur \in dr[d].todo
    BY <1>15 DEF Compensate, LocalOK, DrawRec
  <2>2. AfterRow(d, dr[d].cur) \in DrawRec /\ LocalOK(AfterRow(d, dr[d].cur))
    BY <1>15, <2>1, AfterRowType DEF Compensate
  <2>3. failures' \in SUBSET Rows
    BY <1>15, <2>1 DEF Compensate, LocalOK, Row, Rows
  <2>. QED  BY <1>15, <2>2, <2>3, BecomeType DEF Compensate
<1>16. CASE IssueRedeem(d)
  <2>1. dr[d].cur \in Participants /\ dr[d].key \in Keys
    BY <1>16 DEF IssueRedeem, LocalOK, DrawRec
  <2>2. AfterWinner(d, dr[d].cur) \in DrawRec /\ LocalOK(AfterWinner(d, dr[d].cur))
    BY <1>16, <2>1, AfterWinnerType DEF IssueRedeem
  <2>3. codes' \in SUBSET (Keys \X Participants)
    BY <1>16, <2>1 DEF IssueRedeem
  <2>. QED  BY <1>16, <2>2, <2>3, BecomeType DEF IssueRedeem
<1>17. CASE DrawReturn(d)
  <2>. DEFINE s == DrawIdle
  <2>1. s \in DrawRec /\ LocalOK(s)
    BY <1>17 DEF DrawReturn, DrawIdle, DrawRec, LocalOK, DrawPC, Reply
  <2>. QED  BY <1>17, <2>1, BecomeType DEF DrawReturn
<1>18. CASE AbortDraw(d)
  <2>. DEFINE s == [DrawIdle EXCEPT !.pc = "replied", !.reply = "error"]
  <2>1. s \in DrawRec /\ LocalOK(s)
    BY <1>18 DEF AbortDraw, DrawIdle, DrawRec, LocalOK, DrawPC, Reply
  <2>. QED  BY <1>18, <2>1, BecomeType DEF AbortDraw
<1>. QED
  BY <1>1, <1>2, <1>3, <1>4, <1>5, <1>6, <1>7, <1>8, <1>9, <1>10, <1>11, <1>12,
     <1>13, <1>14, <1>15, <1>16, <1>17, <1>18 DEF DrawStep

\* Each step of an undo, of an edit and of the worker keeps the types.
LEMMA OtherType ==
  ASSUME TInv,
         \/ \E u \in Undoers : \/ \E k \in Keys : UndoLua(u, k)
                               \/ UndoStep(u) \/ AbortUndo(u)
         \/ \E e \in Editors :
              \/ \E p \in Participants : ImportRow(e, p) \/ DeleteCheck(e, p)
              \/ DeleteRow(e) \/ EditBump(e) \/ AbortEdit(e)
         \/ WorkerStep \/ AbortWorker \/ UNCHANGED vars
  PROVE  TInv'
<1>. USE DEF TInv, TypeInv, TypeOK, LocalInv, redis, mysql, UndoIdle, EditIdle, NoRow
<1>1. ASSUME NEW u \in Undoers, NEW k \in Keys, UndoLua(u, k) PROVE TInv'
  BY <1>1 DEF UndoLua
<1>2. ASSUME NEW u \in Undoers, UndoMark(u) PROVE TInv'
  BY <1>2, FS_Subset DEF UndoMark
<1>3. ASSUME NEW u \in Undoers, UndoBump(u) PROVE TInv'
  BY <1>3 DEF UndoBump
<1>4. ASSUME NEW u \in Undoers, AbortUndo(u) PROVE TInv'
  BY <1>4 DEF AbortUndo
<1>5. ASSUME NEW e \in Editors, NEW p \in Participants, ImportRow(e, p) PROVE TInv'
  BY <1>5 DEF ImportRow
<1>6. ASSUME NEW e \in Editors, NEW p \in Participants, DeleteCheck(e, p) PROVE TInv'
  BY <1>6 DEF DeleteCheck
<1>7. ASSUME NEW e \in Editors, DeleteRow(e) PROVE TInv'
  <2>1. ed[e].part \in Participants
    BY <1>7 DEF DeleteRow
  <2>. DEFINE s == [pc |-> "bump", part |-> None]
  <2>2. PICK t \in {s, EditIdle} : ed' = [ed EXCEPT ![e] = t]
    BY <1>7 DEF DeleteRow
  <2>3. /\ ed' \in [Editors -> [pc : {"idle", "import", "delete", "bump"},
                               part : Participants \cup {None}]]
        /\ \A f \in Editors : ed'[f].pc = "delete" => ed'[f].part \in Participants
    BY <2>2
  <2>4. roster' \in [Participants -> {"absent", "listed", "deleted"}]
    BY <1>7, <2>1 DEF DeleteRow
  <2>. QED  BY <1>7, <2>3, <2>4 DEF DeleteRow
<1>8. ASSUME NEW e \in Editors, EditBump(e) PROVE TInv'
  BY <1>8 DEF EditBump
<1>9. ASSUME NEW e \in Editors, AbortEdit(e) PROVE TInv'
  BY <1>9 DEF AbortEdit
<1>10. ASSUME NEW r \in Rows, WorkerInsert(r) PROVE TInv'
  <2>1. won' \in SUBSET Rows /\ IsFiniteSet(won')
    BY <1>10, InsertType DEF WorkerInsert, Rows
  <2>. QED  BY <1>10, <2>1 DEF WorkerInsert
<1>11. CASE WorkerResolve
  BY <1>11 DEF WorkerResolve
<1>12. CASE AbortWorker
  BY <1>12 DEF AbortWorker
<1>13. CASE UNCHANGED vars
  BY <1>13 DEF vars
<1>. QED
  BY <1>1, <1>2, <1>3, <1>4, <1>5, <1>6, <1>7, <1>8, <1>9, <1>10, <1>11, <1>12, <1>13
     DEF UndoStep, WorkerStep

\* Next, split into a request's steps and the others.
LEMMA TypeStep == TInv /\ [Next]_vars => TInv'
BY DrawType, OtherType DEF Next

\* The strengthened invariant, with the handlers' locals.
LEMMA TypeLocal == Spec => []TInv
BY InitType, TypeStep, PTL DEF Spec

\* In every reachable state every variable has its type: counts and versions
\* are numbers, and every row names a batch, a participant and a prize.
THEOREM TypeCorrect == Spec => []TypeOK
<1>1. TInv => TypeOK
  BY DEF TInv, TypeInv
<1>. QED  BY <1>1, TypeLocal, PTL
-----------------------------------------------------------------------------
(* One key, one batch.                                                     *)

PrePop  == {"version", "draw", "eligible", "del", "add", "mark", "redraw"}
Writing == {"persist", "compensate", "redeem"}

\* A handler in state s draws at least one winner, and what it holds after the
\* draw, or answers with, are the winners of the batch its key names.
DrawOK(s) ==
  /\ s.pc \in PrePop => ~s.dup /\ s.count >= 1
  /\ s.dup => s.pc \in {"views", "replied"}
  /\ \/ s.pc \in {"views"} \cup Writing
     \/ s.pc = "replied" /\ s.reply \in {"won", "replay"}
     => s.key \in Keys /\ s.ids = batch[s.key].ids /\ s.ids # {}
  /\ s.pc \in Writing => s.todo \subseteq s.ids
  /\ s.pc \in {"views"} \cup Writing /\ ~s.dup => s.prize = batch[s.key].prize

\* Redis remembers what a key drew until the batch is undone.
KeyOK(k) ==
  /\ idemp[k].state = "fresh" => batch[k] = NoBatch
  /\ idemp[k].state # "fresh" => batch[k].ids # {} /\ batch[k].prize \in Prizes
  /\ idemp[k].state = "drawn" => idemp[k].ids = batch[k].ids

RowOK(r) == r.part \in batch[r.key].ids /\ r.prize = batch[r.key].prize

\* draw_records has one row per batch and participant, won or undone.
Apart == \A r \in won, q \in undone : ~(r.key = q.key /\ r.part = q.part)

BatchInv ==
  /\ \A d \in Drawers : DrawOK(dr[d])
  /\ \A k \in Keys : KeyOK(k)
  /\ OneOwner
  /\ RowsOfBatch
  /\ Apart

OwnerState(s) == ~s.dup /\ s.pc \in {"views"} \cup Writing

LEMMA InitBatch == Init => BatchInv
BY DEF Init, BatchInv, DrawOK, KeyOK, OneOwner, Owner, RowsOfBatch, Apart, DrawIdle,
       NoBatch, Fresh, PrePop, Writing

\* A step of request d that leaves the batches alone keeps the invariant if d
\* goes on in a good state, owns no batch it did not own, and the rows it
\* leaves are rows of their batches.
LEMMA BecomeBatch ==
  ASSUME TInv, BatchInv, NEW d \in Drawers, NEW s \in DrawRec, DrawOK(s), Become(d, s),
         OwnerState(s) => Owner(d) /\ s.key = dr[d].key,
         UNCHANGED <<batch, idemp, undone, wk>>,
         \A r \in won' \cup failures' : RowOK(r), Apart'
  PROVE  BatchInv'
<1>1. \A c \in Drawers : dr'[c] = IF c = d THEN s ELSE dr[c]
  BY DEF TInv, TypeInv, TypeOK, Become
<1>2. \A c \in Drawers : DrawOK(dr[c])'
  BY <1>1 DEF BatchInv, DrawOK
<1>3. \A k \in Keys : KeyOK(k)'
  BY DEF BatchInv, KeyOK
<1>4. \A c \in Drawers : Owner(c)' => Owner(c) /\ dr'[c].key = dr[c].key
  BY <1>1 DEF Owner, OwnerState, Writing
<1>5. OneOwner'
  BY <1>4 DEF BatchInv, OneOwner
<1>6. RowsOfBatch'
  BY DEF BatchInv, RowsOfBatch, RowOK
<1>. QED  BY <1>2, <1>3, <1>5, <1>6 DEF BatchInv

\* The same, for a step that writes no row.
LEMMA BecomeQuiet ==
  ASSUME TInv, BatchInv, NEW d \in Drawers, NEW s \in DrawRec, DrawOK(s), Become(d, s),
         OwnerState(s) => Owner(d) /\ s.key = dr[d].key,
         UNCHANGED <<batch, idemp, won, undone, failures, wk>>
  PROVE  BatchInv'
<1>1. \A r \in won \cup failures : RowOK(r)
  BY DEF BatchInv, RowsOfBatch, RowOK
<1>2. Apart'
  BY DEF BatchInv, Apart
<1>. QED  BY <1>1, <1>2, BecomeBatch

\* An inserted row is a row of its batch if the winner is, and is apart from
\* the undone rows.
LEMMA InsertBatch ==
  ASSUME TInv, BatchInv, NEW k \in Keys, NEW p \in Participants, NEW z \in Prizes,
         InsertDraw(k, p, z), RowOK(Row(k, p, z)), UNCHANGED undone
  PROVE  (\A r \in won' : RowOK(r)) /\ Apart'
BY DEF BatchInv, InsertDraw, RowExists, Row, RowOK, RowsOfBatch, Apart

\* Where a request that wrote a row, or gave it up, goes on.
LEMMA AfterWinnerBatch ==
  ASSUME TInv, BatchInv, NEW d \in Drawers, NEW p \in Participants,
         dr[d].pc \in Writing
  PROVE  /\ DrawOK(AfterWinner(d, p))
         /\ OwnerState(AfterWinner(d, p)) => Owner(d) /\ AfterWinner(d, p).key = dr[d].key
<1>. DEFINE pc    == IF dr[d].todo = {p} THEN "replied" ELSE "persist"
            reply == IF dr[d].todo = {p} THEN "won" ELSE "none"
            s     == [dr[d] EXCEPT !.pc = pc, !.reply = reply,
                                   !.todo = dr[d].todo \ {p}, !.cur = None]
<1>1. dr[d] \in DrawRec /\ DrawOK(dr[d])
  BY DEF TInv, TypeInv, TypeOK, BatchInv
<1>2. AfterWinner(d, p) = s
  BY DEF AfterWinner
<1>3. pc \in {"persist", "replied"}
  OBVIOUS
<1>. HIDE DEF pc, reply
<1>4. DrawOK(s)
  BY <1>1, <1>3 DEF DrawRec, DrawOK, Writing, PrePop
<1>5. OwnerState(s) => Owner(d) /\ s.key = dr[d].key
  BY <1>1, <1>3 DEF DrawRec, OwnerState, Owner, Writing
<1>. QED  BY <1>2, <1>4, <1>5

LEMMA AfterRowBatch ==
  ASSUME TInv, BatchInv, NEW d \in Drawers, NEW p \in Participants,
         dr[d].pc \in Writing
  PROVE  /\ DrawOK(AfterRow(d, p))
         /\ OwnerState(AfterRow(d, p)) => Owner(d) /\ AfterRow(d, p).key = dr[d].key
<1>1. CASE p \in Registered
  <2>. DEFINE s == [dr[d] EXCEPT !.pc = "redeem", !.cur = p]
  <2>1. dr[d] \in DrawRec /\ DrawOK(dr[d])
    BY DEF TInv, TypeInv, TypeOK, BatchInv
  <2>2. DrawOK(s) /\ (OwnerState(s) => Owner(d) /\ s.key = dr[d].key)
    BY <2>1 DEF DrawRec, DrawOK, OwnerState, Owner, Writing, PrePop
  <2>. QED  BY <1>1, <2>2 DEF AfterRow
<1>2. CASE p \notin Registered
  BY <1>2, AfterWinnerBatch DEF AfterRow
<1>. QED  BY <1>1, <1>2

\* A request that is writing its batch writes rows of that batch.
LEMMA WritingRow ==
  ASSUME TInv, BatchInv, NEW d \in Drawers, dr[d].pc \in Writing, NEW p \in dr[d].todo
  PROVE  RowOK(Row(dr[d].key, p, dr[d].prize))
BY DEF BatchInv, DrawOK, RowOK, Row, Writing

\* The pop: the key is fresh, so it has drawn nothing and nobody holds, has
\* answered with, or has written a winner of its batch.
LEMMA PopBatch ==
  ASSUME TInv, BatchInv, NEW d \in Drawers, NEW W \in SUBSET Participants, LuaPop(d, W)
  PROVE  BatchInv'
<1>. DEFINE k == dr[d].key
            s == [dr[d] EXCEPT !.pc = "views", !.ids = W]
            b == [prize |-> dr[d].prize, ids |-> W]
<1>1. dr[d] \in DrawRec /\ DrawOK(dr[d]) /\ k \in Keys /\ dr[d].prize \in Prizes
  BY DEF TInv, TypeInv, TypeOK, BatchInv, LocalInv, LocalOK, LuaPop, InScript
<1>2. idemp[k].state = "fresh" /\ batch[k] = NoBatch
  BY <1>1 DEF LuaPop, IdempHit, BatchInv, KeyOK
<1>3. W # {}
  BY <1>1, FS_EmptySet DEF LuaPop, InScript, DrawOK, PrePop
<1>4. batch' = [batch EXCEPT ![k] = b] /\ \A j \in Keys : batch'[j] = IF j = k THEN b ELSE batch[j]
  BY <1>1 DEF LuaPop, TInv, TypeInv, TypeOK
<1>5. \A j \in Keys : idemp'[j] = IF j = k THEN [state |-> "drawn", ids |-> W] ELSE idemp[j]
  BY <1>1 DEF LuaPop, TInv, TypeInv, TypeOK
<1>6. \A c \in Drawers : dr'[c] = IF c = d THEN s ELSE dr[c]
  BY DEF LuaPop, Become, TInv, TypeInv, TypeOK
<1>7. s.pc = "views" /\ s.ids = W /\ s.key = k /\ s.prize = dr[d].prize /\ ~s.dup
  BY <1>1 DEF DrawRec, LuaPop, InScript, DrawOK, PrePop
<1>8. \A c \in Drawers \ {d} : ~(Owner(c) /\ dr[c].key = k)
  <2>. SUFFICES ASSUME NEW c \in Drawers, Owner(c), dr[c].key = k PROVE FALSE
    OBVIOUS
  <2>1. DrawOK(dr[c])
    BY DEF BatchInv
  <2>. QED  BY <1>2, <2>1 DEF Owner, DrawOK, Writing, NoBatch
<1>9. \A c \in Drawers : DrawOK(dr[c])'
  <2>. SUFFICES ASSUME NEW c \in Drawers PROVE DrawOK(dr[c])'
    OBVIOUS
  <2>. HIDE DEF s, b
  <2>1. CASE c = d
    <3>1. dr'[c] = s /\ batch'[s.key] = b /\ b.ids = W /\ b.prize = dr[d].prize
      BY <1>1, <1>4, <1>6, <1>7, <2>1 DEF b
    <3>. QED  BY <1>1, <1>3, <1>7, <3>1 DEF DrawOK, PrePop, Writing
  <2>2. CASE c # d
    <3>1. dr'[c] = dr[c] /\ DrawOK(dr[c])
      BY <1>6, <2>2 DEF BatchInv
    <3>2. \/ dr[c].pc \in {"views"} \cup Writing
          \/ dr[c].pc = "replied" /\ dr[c].reply \in {"won", "replay"}
          => dr[c].key \in Keys /\ batch'[dr[c].key] = batch[dr[c].key]
      BY <1>2, <1>4, <3>1 DEF DrawOK, NoBatch
    <3>. QED  BY <3>1, <3>2 DEF DrawOK
  <2>. QED  BY <2>1, <2>2
<1>10. \A j \in Keys : KeyOK(j)'
  <2>. SUFFICES ASSUME NEW j \in Keys PROVE KeyOK(j)'
    OBVIOUS
  <2>1. KeyOK(j)
    BY DEF BatchInv
  <2>. QED  BY <1>1, <1>3, <1>4, <1>5, <2>1 DEF KeyOK
<1>11. OneOwner'
  <2>1. \A c \in Drawers \ {d} : Owner(c)' <=> Owner(c)
    BY <1>6 DEF Owner
  <2>2. \A c \in Drawers \ {d} : dr'[c].key = dr[c].key
    BY <1>6
  <2>3. dr'[d].key = k
    BY <1>6, <1>7
  <2>4. OneOwner
    BY DEF BatchInv
  <2>. HIDE DEF k
  <2>. QED  BY <1>8, <2>1, <2>2, <2>3, <2>4 DEF OneOwner
<1>12. RowsOfBatch'
  <2>1. UNCHANGED <<won, undone, failures, wk>>
    BY DEF LuaPop, mysql
  <2>2. \A r \in won \cup undone \cup failures \cup ({wk} \ {NoRow}) :
          r.key \in Keys /\ r.key # k
    BY <1>2 DEF BatchInv, RowsOfBatch, TInv, TypeInv, TypeOK, LocalInv, Rows, NoBatch
  <2>3. \A r \in won \cup undone \cup failures \cup ({wk} \ {NoRow}) : RowOK(r)
    BY DEF BatchInv, RowsOfBatch, RowOK
  <2>. QED  BY <1>4, <2>1, <2>2, <2>3 DEF RowsOfBatch, RowOK
<1>13. Apart'
  BY DEF LuaPop, mysql, BatchInv, Apart
<1>. QED  BY <1>9, <1>10, <1>11, <1>12, <1>13 DEF BatchInv

\* Each step of a draw request keeps one batch per key.
LEMMA DrawBatch ==
  ASSUME TInv, TInv', BatchInv, NEW d \in Drawers,
         \/ \E z \in Prizes, k \in Keys : DrawRequest(d, z, k)
         \/ DrawStep(d)
         \/ AbortDraw(d)
  PROVE  BatchInv'
<1>. USE DEF redis, mysql
<1>a. dr[d] \in DrawRec /\ DrawOK(dr[d]) /\ LocalOK(dr[d])
  BY DEF TInv, TypeInv, TypeOK, LocalInv, BatchInv
<1>b. ASSUME NEW s \in DrawRec, Become(d, s), DrawOK(s),
             OwnerState(s) => Owner(d) /\ s.key = dr[d].key,
             UNCHANGED <<batch, idemp, won, undone, failures, wk>>
      PROVE  BatchInv'
  BY <1>b, BecomeQuiet
<1>c. ASSUME NEW what \in Reply \ {"won", "replay"},
             Become(d, [dr[d] EXCEPT !.pc = "replied", !.reply = what]),
             UNCHANGED <<batch, idemp, won, undone, failures, wk>>
      PROVE  BatchInv'
  <2>. DEFINE s == [dr[d] EXCEPT !.pc = "replied", !.reply = what]
  <2>1. s \in DrawRec /\ DrawOK(s) /\ ~OwnerState(s)
    BY <1>a DEF DrawRec, DrawPC, DrawOK, OwnerState, PrePop, Writing
  <2>. QED  BY <1>c, <2>1, BecomeQuiet
<1>d. {"undone", "refused", "error"} \subseteq Reply \ {"won", "replay"}
  BY DEF Reply
<1>1. ASSUME NEW z \in Prizes, NEW k \in Keys, DrawRequest(d, z, k) PROVE BatchInv'
  <2>. DEFINE left == Remaining(z)
              n == IF PerRound[z] > left THEN left ELSE PerRound[z]
              s == [DrawIdle EXCEPT !.pc = "replied", !.key = k, !.prize = z,
                                    !.reply = "exhausted"]
              t == [DrawIdle EXCEPT !.pc = "version", !.key = k, !.prize = z,
                                    !.count = n]
  <2>1. CASE left <= 0
    <3>1. s \in DrawRec /\ DrawOK(s) /\ ~OwnerState(s)
      BY DEF DrawIdle, DrawRec, DrawPC, Reply, DrawOK, OwnerState, PrePop, Writing
    <3>2. Become(d, s)
      BY <1>1, <2>1 DEF DrawRequest
    <3>. QED  BY <1>1, <3>1, <3>2, BecomeQuiet DEF DrawRequest
  <2>2. CASE ~(left <= 0)
    <3>1. n \in Nat /\ n >= 1
      BY <2>2, RemainingType, LiveAssumption DEF TInv
    <3>. HIDE DEF n
    <3>2. t \in DrawRec /\ DrawOK(t) /\ ~OwnerState(t)
      BY <3>1 DEF DrawIdle, DrawRec, DrawPC, Reply, DrawOK, OwnerState, PrePop, Writing
    <3>3. Become(d, t)
      BY <1>1, <2>2 DEF DrawRequest, n
    <3>. QED  BY <1>1, <3>2, <3>3, BecomeQuiet DEF DrawRequest
  <2>. QED  BY <2>1, <2>2
<1>2. CASE ReadRosterVersion(d)
  <2>. DEFINE s == [dr[d] EXCEPT !.pc = "draw", !.ver = ver]
  <2>1. s \in DrawRec /\ DrawOK(s) /\ ~OwnerState(s)
    BY <1>a, <1>2 DEF ReadRosterVersion, DrawRec, DrawPC, DrawOK, OwnerState, PrePop,
                      Writing, TInv, TypeInv, TypeOK
  <2>. QED  BY <1>2, <2>1, BecomeQuiet DEF ReadRosterVersion
<1>3. CASE LuaReplay(d)
  <2>. DEFINE k == dr[d].key
              t == [dr[d] EXCEPT !.pc = "views", !.dup = TRUE, !.ids = idemp[k].ids]
  <2>0. k \in Keys
    BY <1>a, <1>3 DEF LuaReplay, InScript, LocalOK
  <2>1. CASE idemp[k].state = "undone"
    BY <1>3, <1>c, <1>d, <2>1 DEF LuaReplay, Answer
  <2>2. CASE idemp[k].state # "undone"
    <3>1. idemp[k].state = "drawn" /\ idemp[k].ids = batch[k].ids /\ batch[k].ids # {}
          /\ idemp[k].ids \in SUBSET Participants
      BY <1>3, <2>0, <2>2 DEF LuaReplay, IdempHit, BatchInv, KeyOK, TInv, TypeInv, TypeOK
    <3>2. t \in DrawRec /\ DrawOK(t) /\ ~OwnerState(t)
      BY <1>a, <2>0, <3>1 DEF DrawRec, DrawPC, DrawOK, OwnerState, PrePop, Writing
    <3>. QED  BY <1>3, <2>2, <3>2, BecomeQuiet DEF LuaReplay
  <2>. QED  BY <2>1, <2>2
<1>4. CASE LuaClosed(d)
  BY <1>4, <1>c, <1>d DEF LuaClosed, Answer
<1>5. CASE LuaStale(d)
  <2>. DEFINE t == [dr[d] EXCEPT !.pc = "eligible"]
  <2>1. t \in DrawRec /\ DrawOK(t) /\ ~OwnerState(t)
    BY <1>a, <1>5 DEF LuaStale, InScript, DrawRec, DrawPC, DrawOK, OwnerState, PrePop, Writing
  <2>2. CASE Goto(d, "eligible")
    BY <1>5, <2>1, <2>2, BecomeQuiet DEF LuaStale, Goto
  <2>3. CASE Answer(d, "refused")
    BY <1>5, <1>c, <1>d, <2>3 DEF LuaStale, Answer
  <2>. QED  BY <1>5, <2>2, <2>3 DEF LuaStale
<1>6. CASE LuaInsufficient(d)
  BY <1>6, <1>c, <1>d DEF LuaInsufficient, Answer
<1>7. ASSUME NEW W \in SUBSET Participants, LuaPop(d, W) PROVE BatchInv'
  BY <1>7, PopBatch
<1>8. CASE QueryEligible(d)
  <2>. DEFINE s == [dr[d] EXCEPT !.pc = "del", !.ids = Eligible(dr[d].prize)]
  <2>1. s \in DrawRec /\ DrawOK(s) /\ ~OwnerState(s)
    BY <1>a, <1>8 DEF QueryEligible, Eligible, DrawRec, DrawPC, DrawOK, OwnerState, PrePop,
                      Writing
  <2>. QED  BY <1>8, <2>1, BecomeQuiet DEF QueryEligible
<1>9. CASE RebuildDel(d)
  <2>. DEFINE s == [dr[d] EXCEPT !.pc = "add"]
  <2>1. s \in DrawRec /\ DrawOK(s) /\ ~OwnerState(s)
    BY <1>a, <1>9 DEF RebuildDel, DrawRec, DrawPC, DrawOK, OwnerState, PrePop, Writing
  <2>. QED  BY <1>9, <2>1, BecomeQuiet DEF RebuildDel, Goto
<1>10. CASE RebuildAdd(d)
  <2>. DEFINE s == [dr[d] EXCEPT !.pc = "mark"]
  <2>1. s \in DrawRec /\ DrawOK(s) /\ ~OwnerState(s)
    BY <1>a, <1>10 DEF RebuildAdd, DrawRec, DrawPC, DrawOK, OwnerState, PrePop, Writing
  <2>. QED  BY <1>10, <2>1, BecomeQuiet DEF RebuildAdd, Goto
<1>11. CASE RebuildMark(d)
  <2>. DEFINE s == [dr[d] EXCEPT !.pc = "redraw", !.ids = {}]
  <2>1. s \in DrawRec /\ DrawOK(s) /\ ~OwnerState(s)
    BY <1>a, <1>11 DEF RebuildMark, DrawRec, DrawPC, DrawOK, OwnerState, PrePop, Writing
  <2>. QED  BY <1>11, <2>1, BecomeQuiet DEF RebuildMark
<1>12. CASE LoadWinners(d)
  <2>. DEFINE t == [dr[d] EXCEPT !.pc = "persist", !.todo = dr[d].ids]
              r == [dr[d] EXCEPT !.pc = "replied", !.reply = "replay"]
  <2>1. CASE Answer(d, "error")
    BY <1>12, <1>c, <1>d, <2>1 DEF LoadWinners, Answer
  <2>2. CASE Answer(d, "replay")
    <3>1. r \in DrawRec /\ DrawOK(r) /\ ~OwnerState(r)
      BY <1>a, <1>12 DEF LoadWinners, DrawRec, DrawPC, Reply, DrawOK, OwnerState, PrePop,
                         Writing
    <3>. QED  BY <1>12, <2>2, <3>1, BecomeQuiet DEF LoadWinners, Answer
  <2>3. CASE ~dr[d].dup /\ Become(d, t)
    <3>1. t \in DrawRec /\ DrawOK(t)
      BY <1>a, <1>12, <2>3 DEF LoadWinners, DrawRec, DrawPC, DrawOK, PrePop, Writing
    <3>2. Owner(d) /\ t.key = dr[d].key
      BY <1>a, <1>12, <2>3 DEF LoadWinners, Owner, DrawRec
    <3>. QED  BY <1>12, <2>3, <3>1, <3>2, BecomeQuiet DEF LoadWinners
  <2>. QED  BY <1>12, <2>1, <2>2, <2>3 DEF LoadWinners
<1>f. \A r \in failures : RowOK(r)
  BY DEF BatchInv, RowsOfBatch, RowOK
<1>g. (\A r \in won : RowOK(r)) /\ Apart
  BY DEF BatchInv, RowsOfBatch, RowOK
<1>13. ASSUME NEW p \in Participants, PersistOk(d, p) PROVE BatchInv'
  <2>1. AfterRow(d, p) \in DrawRec
    BY <1>13, AfterRowType DEF PersistOk
  <2>2. dr[d].pc \in Writing /\ p \in dr[d].todo /\ dr[d].key \in Keys /\ dr[d].prize \in Prizes
    BY <1>13, <1>a DEF PersistOk, Writing, LocalOK
  <2>3. (\A r \in won' : RowOK(r)) /\ Apart'
    BY <1>13, <2>2, WritingRow, InsertBatch DEF PersistOk
  <2>. QED  BY <1>13, <1>f, <2>1, <2>2, <2>3, AfterRowBatch, BecomeBatch DEF PersistOk
<1>14. ASSUME NEW p \in Participants, PersistFail(d, p) PROVE BatchInv'
  <2>. DEFINE s == [dr[d] EXCEPT !.pc = "compensate", !.cur = p]
  <2>1. s \in DrawRec /\ DrawOK(s)
    BY <1>a, <1>14 DEF PersistFail, DrawRec, DrawPC, DrawOK, PrePop, Writing
  <2>2. Owner(d) /\ s.key = dr[d].key
    BY <1>a, <1>14 DEF PersistFail, Owner, DrawOK, DrawRec
  <2>3. dr[d].pc \in Writing /\ p \in dr[d].todo /\ dr[d].key \in Keys /\ dr[d].prize \in Prizes
    BY <1>14, <1>a DEF PersistFail, Writing, LocalOK
  <2>4. (\A r \in won' : RowOK(r)) /\ Apart'
    <3>1. CASE won' = won
      BY <1>14, <1>g, <3>1 DEF PersistFail, Apart
    <3>2. CASE InsertDraw(dr[d].key, p, dr[d].prize)
      BY <1>14, <2>3, <3>2, WritingRow, InsertBatch DEF PersistFail
    <3>. QED  BY <1>14, <3>1, <3>2 DEF PersistFail
  <2>. QED  BY <1>14, <1>f, <2>1, <2>2, <2>4, BecomeBatch DEF PersistFail
<1>15. CASE Compensate(d)
  <2>. DEFINE p == dr[d].cur
  <2>1. p \in Participants /\ p \in dr[d].todo /\ dr[d].pc \in Writing
    BY <1>15, <1>a DEF Compensate, LocalOK, DrawRec, Writing
  <2>2. AfterRow(d, p) \in DrawRec
    BY <1>15, <2>1, AfterRowType DEF Compensate
  <2>3. \A r \in failures' : RowOK(r)
    BY <1>15, <1>f, <2>1, WritingRow DEF Compensate
  <2>4. UNCHANGED <<batch, idemp, undone, wk>> /\ UNCHANGED won
    BY <1>15 DEF Compensate
  <2>5. Apart'
    BY <1>g, <2>4 DEF Apart
  <2>6. Become(d, AfterRow(d, p))
    BY <1>15 DEF Compensate
  <2>. HIDE DEF p
  <2>. QED  BY <1>g, <2>1, <2>2, <2>3, <2>4, <2>5, <2>6, AfterRowBatch, BecomeBatch
<1>16. CASE IssueRedeem(d)
  <2>. DEFINE p == dr[d].cur
  <2>1. p \in Participants /\ dr[d].pc \in Writing
    BY <1>16, <1>a DEF IssueRedeem, LocalOK, DrawRec, Writing
  <2>2. AfterWinner(d, p) \in DrawRec
    BY <1>16, <2>1, AfterWinnerType DEF IssueRedeem
  <2>. QED  BY <1>16, <2>1, <2>2, AfterWinnerBatch, BecomeQuiet DEF IssueRedeem
<1>17. CASE DrawReturn(d)
  <2>1. DrawIdle \in DrawRec /\ DrawOK(DrawIdle) /\ ~OwnerState(DrawIdle)
    BY DEF DrawIdle, DrawRec, DrawPC, Reply, DrawOK, OwnerState, PrePop, Writing
  <2>. QED  BY <1>17, <2>1, BecomeQuiet DEF DrawReturn
<1>18. CASE AbortDraw(d)
  <2>. DEFINE s == [DrawIdle EXCEPT !.pc = "replied", !.reply = "error"]
  <2>1. s \in DrawRec /\ DrawOK(s) /\ ~OwnerState(s)
    BY DEF DrawIdle, DrawRec, DrawPC, Reply, DrawOK, OwnerState, PrePop, Writing
  <2>. QED  BY <1>18, <2>1, BecomeQuiet DEF AbortDraw
<1>. QED
  BY <1>1, <1>2, <1>3, <1>4, <1>5, <1>6, <1>7, <1>8, <1>9, <1>10, <1>11, <1>12,
     <1>13, <1>14, <1>15, <1>16, <1>17, <1>18 DEF DrawStep

\* The steps of other handlers leave the requests and the batches alone.
LEMMA OtherQuiet ==
  ASSUME BatchInv, UNCHANGED <<dr, batch, idemp>>, RowsOfBatch', Apart'
  PROVE  BatchInv'
BY DEF BatchInv, DrawOK, KeyOK, OneOwner, Owner

\* Each step of an undo, of an edit and of the worker keeps one batch per key.
LEMMA OtherBatch ==
  ASSUME TInv, BatchInv,
         \/ \E u \in Undoers : \/ \E k \in Keys : UndoLua(u, k)
                               \/ UndoStep(u) \/ AbortUndo(u)
         \/ \E e \in Editors :
              \/ \E p \in Participants : ImportRow(e, p) \/ DeleteCheck(e, p)
              \/ DeleteRow(e) \/ EditBump(e) \/ AbortEdit(e)
         \/ WorkerStep \/ AbortWorker \/ UNCHANGED vars
  PROVE  BatchInv'
<1>. USE DEF redis, mysql
<1>a. RowsOfBatch /\ Apart
  BY DEF BatchInv
<1>b. ASSUME UNCHANGED <<dr, batch, idemp, won, undone, failures, wk>> PROVE BatchInv'
  <2>1. RowsOfBatch' /\ Apart'
    BY <1>a, <1>b DEF RowsOfBatch, Apart
  <2>. QED  BY <1>b, <2>1, OtherQuiet
<1>1. ASSUME NEW u \in Undoers, NEW k \in Keys, UndoLua(u, k) PROVE BatchInv'
  <2>1. \A j \in Keys : idemp'[j] = IF j = k THEN [state |-> "undone", ids |-> {}] ELSE idemp[j]
    BY <1>1 DEF UndoLua, TInv, TypeInv, TypeOK
  <2>2. \A j \in Keys : KeyOK(j)'
    BY <1>1, <2>1 DEF UndoLua, IdempHit, BatchInv, KeyOK
  <2>3. UNCHANGED <<dr, batch, won, undone, failures, wk>>
    BY <1>1 DEF UndoLua
  <2>4. RowsOfBatch' /\ Apart'
    BY <1>a, <2>3 DEF RowsOfBatch, Apart
  <2>5. (\A d \in Drawers : DrawOK(dr[d])') /\ OneOwner'
    BY <2>3 DEF BatchInv, DrawOK, OneOwner, Owner
  <2>. QED  BY <2>2, <2>4, <2>5 DEF BatchInv
<1>2. ASSUME NEW u \in Undoers, UndoMark(u) PROVE BatchInv'
  <2>1. /\ UNCHANGED <<dr, batch, idemp, failures, wk>>
        /\ won' \cup undone' = won \cup undone
    BY <1>2 DEF UndoMark
  <2>2. RowsOfBatch'
    BY <1>a, <2>1 DEF RowsOfBatch
  <2>3. Apart'
    BY <1>2, <1>a DEF UndoMark, Apart
  <2>. QED  BY <2>1, <2>2, <2>3, OtherQuiet
<1>3. ASSUME NEW u \in Undoers, UndoBump(u) \/ AbortUndo(u) PROVE BatchInv'
  BY <1>3, <1>b DEF UndoBump, AbortUndo
<1>4. ASSUME NEW e \in Editors, NEW p \in Participants, ImportRow(e, p) \/ DeleteCheck(e, p)
      PROVE  BatchInv'
  BY <1>4, <1>b DEF ImportRow, DeleteCheck
<1>5. ASSUME NEW e \in Editors, DeleteRow(e) \/ EditBump(e) \/ AbortEdit(e) PROVE BatchInv'
  BY <1>5, <1>b DEF DeleteRow, EditBump, AbortEdit
<1>6. ASSUME NEW r \in Rows, WorkerInsert(r) PROVE BatchInv'
  <2>1. /\ r.key \in Keys /\ r.part \in Participants /\ r.prize \in Prizes
        /\ r = Row(r.key, r.part, r.prize) /\ RowOK(r)
    BY <1>6, <1>a DEF WorkerInsert, Rows, Row, RowsOfBatch, RowOK
  <2>2. UNCHANGED <<dr, batch, idemp, undone, failures>> /\ wk' = r
    BY <1>6 DEF WorkerInsert
  <2>3. InsertDraw(r.key, r.part, r.prize)
    BY <1>6 DEF WorkerInsert
  <2>4. (\A q \in won' : RowOK(q)) /\ Apart'
    BY <2>1, <2>2, <2>3, InsertBatch
  <2>5. RowsOfBatch'
    BY <1>a, <2>1, <2>2, <2>4 DEF RowsOfBatch, RowOK
  <2>. QED  BY <2>2, <2>4, <2>5, OtherQuiet
<1>7. ASSUME WorkerResolve \/ AbortWorker PROVE BatchInv'
  <2>1. /\ UNCHANGED <<dr, batch, idemp, won, undone>>
        /\ failures' \subseteq failures /\ wk' = NoRow
    BY <1>7 DEF WorkerResolve, AbortWorker
  <2>2. RowsOfBatch' /\ Apart'
    BY <1>a, <2>1 DEF RowsOfBatch, Apart
  <2>. QED  BY <2>1, <2>2, OtherQuiet
<1>8. CASE UNCHANGED vars
  BY <1>8, <1>b DEF vars
<1>. QED
  BY <1>1, <1>2, <1>3, <1>4, <1>5, <1>6, <1>7, <1>8 DEF UndoStep, WorkerStep

LEMMA BatchStep == TInv /\ BatchInv /\ [Next]_vars => BatchInv'
BY TypeStep, DrawBatch, OtherBatch DEF Next

LEMMA OneBatch == Spec => [](TInv /\ BatchInv)
BY InitType, InitBatch, TypeStep, BatchStep, PTL DEF Spec

\* However many handlers run and whatever fails, two requests never both draw
\* and write a batch under one key.
THEOREM OwnerUnique == Spec => []OneOwner
<1>1. BatchInv => OneOwner
  BY DEF BatchInv
<1>. QED  BY <1>1, OneBatch, PTL

\* draw_records, persist_failures and the worker hold rows of winners only.
THEOREM RowsAreWinners == Spec => []RowsOfBatch
<1>1. BatchInv => RowsOfBatch
  BY DEF BatchInv
<1>. QED  BY <1>1, OneBatch, PTL

\* An answer with winners is the whole batch, whether drawn or replayed.
THEOREM AnswersAreBatches == Spec => []AnswersBatch
<1>1. BatchInv => AnswersBatch
  BY DEF BatchInv, DrawOK, AnswersBatch
<1>. QED  BY <1>1, OneBatch, PTL

\* Only the pop changes what a key has drawn, and only the pop and the undo
\* what Redis remembers of it.
LEMMA IdempStep ==
  ASSUME [Next]_vars
  PROVE  \/ UNCHANGED <<batch, idemp>>
         \/ \E d \in Drawers, W \in SUBSET Participants : LuaPop(d, W)
         \/ \E u \in Undoers, j \in Keys : UndoLua(u, j)
<1>. USE DEF redis, mysql
<1>1. ASSUME NEW d \in Drawers, NEW z \in Prizes, NEW j \in Keys, DrawRequest(d, z, j)
      PROVE  UNCHANGED <<batch, idemp>>
  BY <1>1 DEF DrawRequest
<1>2. ASSUME NEW d \in Drawers, DrawStep(d) \/ AbortDraw(d)
      PROVE  UNCHANGED <<batch, idemp>> \/ \E W \in SUBSET Participants : LuaPop(d, W)
  BY <1>2 DEF DrawStep, ReadRosterVersion, LuaReplay, LuaClosed, LuaStale,
       LuaInsufficient, QueryEligible, RebuildDel, RebuildAdd, RebuildMark, LoadWinners,
       PersistOk, PersistFail, Compensate, IssueRedeem, DrawReturn, AbortDraw
<1>3. ASSUME NEW u \in Undoers, UndoStep(u) \/ AbortUndo(u)
      PROVE  UNCHANGED <<batch, idemp>>
  BY <1>3 DEF UndoStep, UndoMark, UndoBump, AbortUndo
<1>4. ASSUME NEW e \in Editors, NEW p \in Participants, ImportRow(e, p) \/ DeleteCheck(e, p)
      PROVE  UNCHANGED <<batch, idemp>>
  BY <1>4 DEF ImportRow, DeleteCheck
<1>5. ASSUME NEW e \in Editors, DeleteRow(e) \/ EditBump(e) \/ AbortEdit(e)
      PROVE  UNCHANGED <<batch, idemp>>
  BY <1>5 DEF DeleteRow, EditBump, AbortEdit
<1>6. ASSUME WorkerStep \/ AbortWorker \/ UNCHANGED vars
      PROVE  UNCHANGED <<batch, idemp>>
  BY <1>6 DEF WorkerStep, WorkerInsert, WorkerResolve, AbortWorker, vars
<1>. QED  BY <1>1, <1>2, <1>3, <1>4, <1>5, <1>6 DEF Next

\* A step changes neither what a key has drawn nor the mark of an undo.
LEMMA KeyStep ==
  ASSUME TInv, BatchInv, [Next]_vars, NEW k \in Keys
  PROVE  /\ batch[k] # NoBatch => batch'[k] = batch[k]
         /\ idemp[k].state = "undone" => idemp'[k].state = "undone"
<1>. USE DEF redis, mysql
<1>1. ASSUME NEW d \in Drawers, NEW W \in SUBSET Participants, LuaPop(d, W),
             dr[d].key = k
      PROVE  batch[k] = NoBatch /\ idemp[k].state = "fresh"
  BY <1>1 DEF LuaPop, IdempHit, BatchInv, KeyOK, TInv, TypeInv, TypeOK
<1>2. ASSUME NEW d \in Drawers, NEW W \in SUBSET Participants, LuaPop(d, W),
             dr[d].key # k
      PROVE  batch'[k] = batch[k] /\ idemp'[k] = idemp[k]
  BY <1>2 DEF LuaPop, TInv, TypeInv, TypeOK
<1>3. ASSUME NEW u \in Undoers, NEW j \in Keys, UndoLua(u, j)
      PROVE  /\ batch'[k] = batch[k]
             /\ idemp'[k] = idemp[k] \/ idemp'[k].state = "undone"
  BY <1>3 DEF UndoLua, TInv, TypeInv, TypeOK
<1>. QED  BY <1>1, <1>2, <1>3, IdempStep

\* A key draws at most once, and an undone batch stays undone.
THEOREM DrawsOnce == Spec => KeyDrawsOnce
<1>1. TInv /\ BatchInv /\ [Next]_vars =>
        [\A k \in Keys :
           /\ batch[k] # NoBatch => batch'[k] = batch[k]
           /\ idemp[k].state = "undone" => idemp'[k].state = "undone"]_vars
  BY KeyStep
<1>. QED  BY <1>1, OneBatch, PTL DEF Spec, KeyDrawsOnce

\* A step never turns an undone row back into a winning one.
LEMMA UndoneStep ==
  ASSUME TInv, BatchInv, [Next]_vars
  PROVE  undone \subseteq undone' /\ won' \cap undone = {}
<1>. USE DEF redis, mysql
<1>1. won \cap undone = {}
  BY DEF BatchInv, Apart
<1>2. ASSUME NEW k, NEW p, NEW z, InsertDraw(k, p, z)
      PROVE  won' \cap undone = {}
  BY <1>1, <1>2 DEF InsertDraw, RowExists, Row
<1>3. \/ UNCHANGED <<won, undone>>
      \/ UNCHANGED undone /\ \E k, p, z : InsertDraw(k, p, z)
      \/ \E u \in Undoers : UndoMark(u)
  <2>1. ASSUME NEW d \in Drawers, NEW z \in Prizes, NEW j \in Keys, DrawRequest(d, z, j)
        PROVE  UNCHANGED <<won, undone>>
    BY <2>1 DEF DrawRequest
  <2>2. ASSUME NEW d \in Drawers, DrawStep(d) \/ AbortDraw(d)
        PROVE  \/ UNCHANGED <<won, undone>>
               \/ UNCHANGED undone /\ \E k, p, z : InsertDraw(k, p, z)
    BY <2>2 DEF DrawStep, ReadRosterVersion, LuaReplay, LuaClosed, LuaStale,
         LuaInsufficient, LuaPop, QueryEligible, RebuildDel, RebuildAdd, RebuildMark,
         LoadWinners, PersistOk, PersistFail, Compensate, IssueRedeem, DrawReturn, AbortDraw
  <2>3. ASSUME NEW u \in Undoers, (\E k \in Keys : UndoLua(u, k)) \/ UndoBump(u) \/ AbortUndo(u)
        PROVE  UNCHANGED <<won, undone>>
    BY <2>3 DEF UndoLua, UndoBump, AbortUndo
  <2>4. ASSUME NEW e \in Editors, NEW p \in Participants, ImportRow(e, p) \/ DeleteCheck(e, p)
        PROVE  UNCHANGED <<won, undone>>
    BY <2>4 DEF ImportRow, DeleteCheck
  <2>5. ASSUME NEW e \in Editors, DeleteRow(e) \/ EditBump(e) \/ AbortEdit(e)
        PROVE  UNCHANGED <<won, undone>>
    BY <2>5 DEF DeleteRow, EditBump, AbortEdit
  <2>6. ASSUME WorkerStep
        PROVE  \/ UNCHANGED <<won, undone>>
               \/ UNCHANGED undone /\ \E k, p, z : InsertDraw(k, p, z)
    BY <2>6 DEF WorkerStep, WorkerInsert, WorkerResolve
  <2>7. ASSUME AbortWorker \/ UNCHANGED vars
        PROVE  UNCHANGED <<won, undone>>
    BY <2>7 DEF AbortWorker, vars
  <2>. QED  BY <2>1, <2>2, <2>3, <2>4, <2>5, <2>6, <2>7 DEF Next, UndoStep
<1>4. ASSUME NEW u \in Undoers, UndoMark(u)
      PROVE  undone \subseteq undone' /\ won' \cap undone = {}
  BY <1>1, <1>4 DEF UndoMark
<1>. QED  BY <1>1, <1>2, <1>3, <1>4

\* Undone rows stay undone, whatever is replayed and by whom.
THEOREM UndoneForGood == Spec => UndoneRowsStay
<1>1. TInv /\ BatchInv /\ [Next]_vars =>
        [undone \subseteq undone' /\ won' \cap undone = {}]_vars
  BY UndoneStep
<1>. QED  BY <1>1, OneBatch, PTL DEF Spec, UndoneRowsStay
-----------------------------------------------------------------------------
(* Nothing is lost.                                                        *)

\* No handler is stopped, no compensation row fails and nobody is deleted.
NothingLost == Deletable = {} /\ "abort" \notin Faults /\ "compensate" \notin Faults

Listed == {p \in Participants : roster[p] = "listed"}

\* The winner is in draw_records or waits in persist_failures.
Written(k, p) == Recorded(k, p) \/ Deferred(k, p)

\* The winners that a handler in state s still has to deal with.
InHand(s) == IF ~OwnerState(s) THEN {} ELSE IF s.pc = "views" THEN s.ids ELSE s.todo

\* Who is in a pool, or was taken from one, is on the roster; a winner whose
\* code is issued has been written, and so has one whose replay is resolved.
SafeHands ==
  /\ \A z \in Prizes : pool[z] \subseteq Listed
  /\ \A d \in Drawers : ~dr[d].dup => dr[d].ids \subseteq Listed
  /\ \A e \in Editors : ed[e].pc # "delete"
  /\ \A d \in Drawers : dr[d].pc = "redeem" => Written(dr[d].key, dr[d].cur)
  /\ wk # NoRow => Recorded(wk.key, wk.part)

LossInv == SafeHands /\ Accounted

LEMMA InHandUnsettled == \A d \in Drawers : Unsettled(d) = InHand(dr[d])
BY DEF Unsettled, InHand, Owner, OwnerState, Writing

\* An insert leaves the rows there are, and leaves the winner recorded.
LEMMA InsertRecords ==
  ASSUME NEW k, NEW p, NEW z, InsertDraw(k, p, z), UNCHANGED undone
  PROVE  /\ Recorded(k, p)'
         /\ \A j, q : Recorded(j, q) => Recorded(j, q)'
<1>1. won \subseteq won'
  BY DEF InsertDraw
<1>2. CASE RowExists(k, p)
  BY <1>1, <1>2 DEF Recorded, RowExists
<1>3. CASE ~RowExists(k, p)
  <2>1. Row(k, p, z) \in won' /\ Row(k, p, z).key = k /\ Row(k, p, z).part = p
    BY <1>3 DEF InsertDraw, Row
  <2>. QED  BY <1>1, <2>1 DEF Recorded
<1>. QED  BY <1>2, <1>3

\* What is written stays written: the worker resolves a row it has replayed.
LEMMA StaysWritten ==
  ASSUME SafeHands, [Next]_vars, NEW k, NEW p, Written(k, p)
  PROVE  Written(k, p)'
<1>. USE DEF redis, mysql
<1>1. ASSUME UNCHANGED <<won, undone, failures>> PROVE Written(k, p)'
  BY <1>1 DEF Written, Recorded, Deferred
<1>2. ASSUME NEW j, NEW q, NEW z, InsertDraw(j, q, z), UNCHANGED <<undone, failures>>
      PROVE  Written(k, p)'
  BY <1>2, InsertRecords DEF Written, Deferred
<1>3. ASSUME NEW d \in Drawers, Compensate(d) PROVE Written(k, p)'
  BY <1>3 DEF Compensate, Written, Recorded, Deferred
<1>4. ASSUME NEW u \in Undoers, UndoMark(u) PROVE Written(k, p)'
  BY <1>4 DEF UndoMark, Written, Recorded, Deferred
<1>5. CASE WorkerResolve
  <2>1. Recorded(k, p) => Recorded(k, p)'
    BY <1>5 DEF WorkerResolve, Recorded
  <2>2. Deferred(k, p) => Deferred(k, p)' \/ Recorded(k, p)
    BY <1>5 DEF WorkerResolve, Deferred, SafeHands
  <2>. QED  BY <2>1, <2>2 DEF Written
<1>6. ASSUME NEW d \in Drawers, NEW z \in Prizes, NEW j \in Keys, DrawRequest(d, z, j)
      PROVE  Written(k, p)'
  BY <1>1, <1>6 DEF DrawRequest
<1>7. ASSUME NEW d \in Drawers, DrawStep(d) \/ AbortDraw(d) PROVE Written(k, p)'
  <2>1. ASSUME NEW q \in Participants, PersistOk(d, q) \/ PersistFail(d, q)
        PROVE  Written(k, p)'
    BY <1>1, <1>2, <2>1 DEF PersistOk, PersistFail
  <2>. QED
    BY <1>1, <1>3, <1>7, <2>1 DEF DrawStep, ReadRosterVersion, LuaReplay, LuaClosed,
       LuaStale, LuaInsufficient, LuaPop, QueryEligible, RebuildDel, RebuildAdd,
       RebuildMark, LoadWinners, IssueRedeem, DrawReturn, AbortDraw
<1>8. ASSUME NEW u \in Undoers, (\E j \in Keys : UndoLua(u, j)) \/ UndoBump(u) \/ AbortUndo(u)
      PROVE  Written(k, p)'
  BY <1>1, <1>8 DEF UndoLua, UndoBump, AbortUndo
<1>9. ASSUME NEW e \in Editors, NEW q \in Participants, ImportRow(e, q) \/ DeleteCheck(e, q)
      PROVE  Written(k, p)'
  BY <1>1, <1>9 DEF ImportRow, DeleteCheck
<1>10. ASSUME NEW e \in Editors, DeleteRow(e) \/ EditBump(e) \/ AbortEdit(e)
       PROVE  Written(k, p)'
  BY <1>1, <1>10 DEF DeleteRow, EditBump, AbortEdit
<1>11. ASSUME NEW r \in Rows, WorkerInsert(r) PROVE Written(k, p)'
  BY <1>2, <1>11 DEF WorkerInsert
<1>12. CASE AbortWorker \/ UNCHANGED vars
  BY <1>1, <1>12 DEF AbortWorker, vars
<1>. QED
  BY <1>3, <1>4, <1>5, <1>6, <1>7, <1>8, <1>9, <1>10, <1>11, <1>12
     DEF Next, UndoStep, WorkerStep

\* A step of request d loses nobody if d keeps in hand, under its key, the
\* winners it had in hand and has not written.
LEMMA BecomeLoss ==
  ASSUME TInv, LossInv, NEW d \in Drawers, NEW s \in DrawRec, Become(d, s),
         \A k \in Keys, p \in Participants : Written(k, p) => Written(k, p)',
         UNCHANGED <<roster, ed, wk, batch>>,
         \A z \in Prizes : pool'[z] \subseteq Listed,
         wk # NoRow => Recorded(wk.key, wk.part)',
         ~s.dup => s.ids \subseteq Listed,
         \A k, p : s.pc = "redeem" /\ s.key = k /\ s.cur = p => Written(k, p)',
         \A k \in Keys, p \in InHand(dr[d]) :
           dr[d].key = k => Written(k, p)' \/ (p \in InHand(s) /\ s.key = k)
  PROVE  LossInv'
<1>1. \A c \in Drawers : dr'[c] = IF c = d THEN s ELSE dr[c]
  BY DEF TInv, TypeInv, TypeOK, Become
<1>2. Listed' = Listed
  BY DEF Listed
<1>3. \A c \in Drawers : dr[c].pc = "redeem" => dr[c].key \in Keys /\ dr[c].cur \in Participants
  <2>. SUFFICES ASSUME NEW c \in Drawers, dr[c].pc = "redeem"
                PROVE  dr[c].key \in Keys /\ dr[c].cur \in Participants
    OBVIOUS
  <2>1. LocalOK(dr[c]) /\ dr[c] \in DrawRec
    BY DEF TInv, TypeInv, TypeOK, LocalInv
  <2>. QED  BY <2>1 DEF LocalOK, DrawRec
<1>4. SafeHands'
  <2>1. \A z \in Prizes : (pool[z] \subseteq Listed)'
    BY <1>2
  <2>2. \A c \in Drawers : (~dr[c].dup => dr[c].ids \subseteq Listed)'
    BY <1>1, <1>2 DEF LossInv, SafeHands
  <2>3. \A e \in Editors : (ed[e].pc # "delete")'
    BY DEF LossInv, SafeHands
  <2>4. ASSUME NEW c \in Drawers, NEW k, NEW p,
               dr'[c].pc = "redeem", dr'[c].key = k, dr'[c].cur = p
        PROVE  Written(k, p)'
    <3>1. CASE c = d
      BY <1>1, <2>4, <3>1
    <3>2. CASE c # d
      <4>1. Written(k, p) /\ k \in Keys /\ p \in Participants
        BY <1>1, <1>3, <2>4, <3>2 DEF LossInv, SafeHands
      <4>. QED  BY <4>1
    <3>. QED  BY <3>1, <3>2
  <2>5. (wk # NoRow => Recorded(wk.key, wk.part))'
    BY DEF Recorded
  <2>6. \A c \in Drawers : (dr[c].pc = "redeem" => Written(dr[c].key, dr[c].cur))'
    BY <2>4
  <2>. QED  BY <2>1, <2>2, <2>3, <2>5, <2>6 DEF SafeHands
<1>5. Accounted'
  <2>. SUFFICES ASSUME NEW k \in Keys, NEW p \in batch[k].ids
                PROVE  Written(k, p)' \/ \E c \in Drawers : dr'[c].key = k /\ p \in Unsettled(c)'
    BY DEF Accounted, Written
  <2>0. p \in Participants
    BY DEF TInv, TypeInv, TypeOK
  <2>1. CASE Written(k, p)
    BY <2>0, <2>1
  <2>2. ASSUME NEW c \in Drawers, dr[c].key = k, p \in Unsettled(c)
        PROVE  Written(k, p)' \/ \E b \in Drawers : dr'[b].key = k /\ p \in Unsettled(b)'
    <3>1. p \in InHand(dr[c])
      BY <2>2, InHandUnsettled
    <3>2. \A b \in Drawers : p \in InHand(dr'[b]) => p \in Unsettled(b)'
      BY DEF Unsettled, InHand, Owner, OwnerState, Writing
    <3>3. CASE c # d
      BY <1>1, <2>2, <3>1, <3>2, <3>3
    <3>4. CASE c = d
      BY <1>1, <2>2, <3>1, <3>2, <3>4
    <3>. QED  BY <3>3, <3>4
  <2>. QED  BY <2>1, <2>2 DEF LossInv, Accounted, Written
<1>. QED  BY <1>4, <1>5 DEF LossInv

\* A step that writes nothing to MySQL loses nobody if those d had in hand are
\* still in its hand.
LEMMA QuietLoss ==
  ASSUME TInv, LossInv, NEW d \in Drawers, NEW s \in DrawRec, Become(d, s),
         UNCHANGED <<roster, won, undone, failures, ed, wk, batch>>,
         \A z \in Prizes : pool'[z] \subseteq Listed,
         ~s.dup => s.ids \subseteq Listed,
         s.pc # "redeem",
         \A p \in InHand(dr[d]) : p \in InHand(s) /\ s.key = dr[d].key
  PROVE  LossInv'
<1>1. \A k \in Keys, p \in Participants : Written(k, p) => Written(k, p)'
  BY DEF Written, Recorded, Deferred
<1>2. wk # NoRow => Recorded(wk.key, wk.part)'
  BY DEF LossInv, SafeHands, Recorded
<1>. QED  BY <1>1, <1>2, BecomeLoss

\* The pop: the key had no batch, and d has its winners in hand.
LEMMA PopLoss ==
  ASSUME TInv, BatchInv, LossInv, NEW d \in Drawers, NEW W \in SUBSET Participants,
         LuaPop(d, W)
  PROVE  LossInv'
<1>. DEFINE k == dr[d].key
            z == dr[d].prize
            s == [dr[d] EXCEPT !.pc = "views", !.ids = W]
<1>. USE DEF mysql
<1>1. dr[d] \in DrawRec /\ DrawOK(dr[d]) /\ k \in Keys /\ z \in Prizes
  BY DEF TInv, TypeInv, TypeOK, BatchInv, LocalInv, LocalOK, LuaPop, InScript
<1>2. \A c \in Drawers : dr'[c] = IF c = d THEN s ELSE dr[c]
  BY DEF LuaPop, Become, TInv, TypeInv, TypeOK
<1>3. \A j \in Keys : batch'[j] = IF j = k THEN [prize |-> z, ids |-> W] ELSE batch[j]
  BY <1>1 DEF LuaPop, TInv, TypeInv, TypeOK
<1>4. s.pc = "views" /\ s.ids = W /\ s.key = k /\ ~s.dup
  BY <1>1 DEF DrawRec, LuaPop, InScript, DrawOK, PrePop
<1>5. Listed' = Listed
  BY DEF LuaPop, Listed
<1>6. W \subseteq Listed /\ \A y \in Prizes : pool'[y] \subseteq Listed
  BY <1>1 DEF LuaPop, LossInv, SafeHands, TInv, TypeInv, TypeOK
<1>7. InHand(dr[d]) = {} /\ InHand(s) = W
  BY <1>4 DEF LuaPop, InScript, InHand, OwnerState, Writing
<1>. HIDE DEF s, k, z
<1>8. SafeHands'
  <2>1. UNCHANGED <<won, undone, failures, ed, wk>>
    BY DEF LuaPop
  <2>2. \A c \in Drawers : (~dr[c].dup => dr[c].ids \subseteq Listed)'
    BY <1>2, <1>4, <1>5, <1>6 DEF LossInv, SafeHands
  <2>3. \A c \in Drawers : (dr[c].pc = "redeem" => Written(dr[c].key, dr[c].cur))'
    BY <1>2, <1>4, <2>1 DEF LossInv, SafeHands, Written, Recorded, Deferred
  <2>4. (wk # NoRow => Recorded(wk.key, wk.part))'
    BY <2>1 DEF LossInv, SafeHands, Recorded
  <2>. QED  BY <1>5, <1>6, <2>1, <2>2, <2>3, <2>4 DEF LossInv, SafeHands
<1>9. Accounted'
  <2>1. UNCHANGED <<won, undone, failures>>
    BY DEF LuaPop
  <2>2. \A b \in Drawers : Unsettled(b)' = InHand(dr'[b])
    BY DEF Unsettled, InHand, Owner, OwnerState, Writing
  <2>. SUFFICES ASSUME NEW j \in Keys, NEW p \in batch'[j].ids
                PROVE  \/ Written(j, p)'
                       \/ \E b \in Drawers : dr'[b].key = j /\ p \in Unsettled(b)'
    BY DEF Accounted, Written
  <2>3. CASE j = k
    BY <1>2, <1>3, <1>4, <1>7, <2>2, <2>3
  <2>4. CASE j # k
    <3>1. p \in batch[j].ids
      BY <1>3, <2>4
    <3>2. Written(j, p) => Written(j, p)'
      BY <2>1 DEF Written, Recorded, Deferred
    <3>3. ASSUME NEW b \in Drawers, dr[b].key = j, p \in Unsettled(b)
          PROVE  dr'[b].key = j /\ p \in Unsettled(b)'
      <4>1. b # d
        BY <2>4, <3>3 DEF k
      <4>. QED  BY <1>2, <2>2, <3>3, <4>1, InHandUnsettled
    <3>. QED  BY <3>1, <3>2, <3>3 DEF LossInv, Accounted, Written
  <2>. QED  BY <2>3, <2>4
<1>. QED  BY <1>8, <1>9 DEF LossInv

\* A winner who is written leaves the hand of the request.
LEMMA AfterWinnerHand ==
  ASSUME TInv, NEW d \in Drawers, dr[d].pc \in Writing, NEW p \in Participants
  PROVE  LET s == AfterWinner(d, p)
         IN /\ InHand(dr[d]) \subseteq InHand(s) \cup {p}
            /\ s.key = dr[d].key /\ s.pc # "redeem" /\ s.ids = dr[d].ids /\ s.dup = dr[d].dup
<1>. DEFINE pc    == IF dr[d].todo = {p} THEN "replied" ELSE "persist"
            reply == IF dr[d].todo = {p} THEN "won" ELSE "none"
            s     == [dr[d] EXCEPT !.pc = pc, !.reply = reply,
                                   !.todo = dr[d].todo \ {p}, !.cur = None]
<1>1. dr[d] \in DrawRec
  BY DEF TInv, TypeInv, TypeOK
<1>2. AfterWinner(d, p) = s
  BY DEF AfterWinner
<1>3. pc \in {"persist", "replied"} /\ (pc = "replied" => dr[d].todo = {p})
  OBVIOUS
<1>. HIDE DEF pc, reply
<1>4. /\ s.pc = pc /\ s.todo = dr[d].todo \ {p} /\ s.key = dr[d].key
      /\ s.ids = dr[d].ids /\ s.dup = dr[d].dup
  BY <1>1 DEF DrawRec
<1>. QED
  BY <1>2, <1>3, <1>4 DEF InHand, OwnerState, Writing

LEMMA AfterRowHand ==
  ASSUME TInv, NEW d \in Drawers, dr[d].pc \in Writing, NEW p \in Participants
  PROVE  LET s == AfterRow(d, p)
         IN /\ InHand(dr[d]) \subseteq InHand(s) \cup {p}
            /\ s.key = dr[d].key /\ s.ids = dr[d].ids /\ s.dup = dr[d].dup
            /\ s.pc = "redeem" => s.cur = p
<1>1. CASE p \in Registered
  <2>. DEFINE s == [dr[d] EXCEPT !.pc = "redeem", !.cur = p]
  <2>1. dr[d] \in DrawRec
    BY DEF TInv, TypeInv, TypeOK
  <2>2. AfterRow(d, p) = s
    BY <1>1 DEF AfterRow
  <2>3. /\ s.pc = "redeem" /\ s.todo = dr[d].todo /\ s.key = dr[d].key
        /\ s.ids = dr[d].ids /\ s.dup = dr[d].dup /\ s.cur = p
    BY <2>1 DEF DrawRec
  <2>. HIDE DEF s
  <2>. QED  BY <2>2, <2>3 DEF InHand, OwnerState, Writing
<1>2. CASE p \notin Registered
  BY <1>2, AfterWinnerHand DEF AfterRow
<1>. QED  BY <1>1, <1>2

\* Each step of a draw request loses nobody.
LEMMA DrawLoss ==
  ASSUME TInv, BatchInv, LossInv, NothingLost, [Next]_vars, NEW d \in Drawers,
         \/ \E z \in Prizes, k \in Keys : DrawRequest(d, z, k)
         \/ DrawStep(d)
         \/ AbortDraw(d)
  PROVE  LossInv'
<1>. USE DEF redis, mysql
<1>a. /\ dr[d] \in DrawRec /\ DrawOK(dr[d]) /\ LocalOK(dr[d])
      /\ ~dr[d].dup => dr[d].ids \subseteq Listed
      /\ \A z \in Prizes : pool[z] \subseteq Listed
  BY DEF TInv, TypeInv, TypeOK, LocalInv, BatchInv, LossInv, SafeHands
<1>b. \A k \in Keys, p \in Participants : Written(k, p) => Written(k, p)'
  BY StaysWritten DEF LossInv
<1>c. ASSUME NEW what \in Reply,
             Become(d, [dr[d] EXCEPT !.pc = "replied", !.reply = what]),
             UNCHANGED <<pool, roster, won, undone, failures, ed, wk, batch>>,
             InHand(dr[d]) = {}
      PROVE  LossInv'
  <2>. DEFINE s == [dr[d] EXCEPT !.pc = "replied", !.reply = what]
  <2>1. s \in DrawRec /\ s.pc # "redeem" /\ s.dup = dr[d].dup /\ s.ids = dr[d].ids
    BY <1>a DEF DrawRec, DrawPC
  <2>9. Become(d, s) /\ UNCHANGED <<roster, won, undone, failures, ed, wk, batch, pool>>
    BY <1>c
  <2>. HIDE DEF s
  <2>. QED  BY <1>a, <1>c, <2>1, <2>9, QuietLoss
<1>d. {"undone", "refused", "error", "replay"} \subseteq Reply
  BY DEF Reply
<1>e. dr[d].pc \in PrePop \cup {"idle", "replied"} \/ dr[d].dup => InHand(dr[d]) = {}
  BY DEF InHand, OwnerState, Writing, PrePop
<1>1. ASSUME NEW z \in Prizes, NEW k \in Keys, DrawRequest(d, z, k) PROVE LossInv'
  <2>. DEFINE left == Remaining(z)
              n == IF PerRound[z] > left THEN left ELSE PerRound[z]
              s == [DrawIdle EXCEPT !.pc = "replied", !.key = k, !.prize = z,
                                    !.reply = "exhausted"]
              t == [DrawIdle EXCEPT !.pc = "version", !.key = k, !.prize = z,
                                    !.count = n]
  <2>i. InHand(dr[d]) = {}
    BY <1>1, <1>e DEF DrawRequest
  <2>1. CASE left <= 0
    <3>1. s \in DrawRec /\ s.pc # "redeem" /\ s.ids = {}
      BY DEF DrawIdle, DrawRec, DrawPC, Reply
    <3>2. Become(d, s)
      BY <1>1, <2>1 DEF DrawRequest
    <3>9. Become(d, s) /\ UNCHANGED <<roster, won, undone, failures, ed, wk, batch, pool>>
      BY <1>1, <3>1, <3>2 DEF DrawRequest
    <3>. HIDE DEF s
    <3>. QED  BY <1>a, <2>i, <3>1, <3>2, <3>9, QuietLoss
  <2>2. CASE ~(left <= 0)
    <3>1. n \in Nat
      BY <2>2, RemainingType, LiveAssumption DEF TInv
    <3>2. Become(d, t)
      BY <1>1, <2>2 DEF DrawRequest
    <3>. HIDE DEF n
    <3>3. t \in DrawRec /\ t.pc # "redeem" /\ t.ids = {}
      BY <3>1 DEF DrawIdle, DrawRec, DrawPC, Reply
    <3>9. Become(d, t) /\ UNCHANGED <<roster, won, undone, failures, ed, wk, batch, pool>>
      BY <1>1, <3>2 DEF DrawRequest
    <3>. HIDE DEF t
    <3>. QED  BY <1>a, <2>i, <3>2, <3>3, <3>9, QuietLoss
  <2>. QED  BY <2>1, <2>2
<1>2. CASE ReadRosterVersion(d)
  <2>. DEFINE s == [dr[d] EXCEPT !.pc = "draw", !.ver = ver]
  <2>1. s \in DrawRec /\ s.pc # "redeem" /\ s.dup = dr[d].dup /\ s.ids = dr[d].ids
    BY <1>a DEF DrawRec, DrawPC, TInv, TypeInv, TypeOK
  <2>2. InHand(dr[d]) = {}
    BY <1>2, <1>e DEF ReadRosterVersion, PrePop
  <2>9. Become(d, s) /\ UNCHANGED <<roster, won, undone, failures, ed, wk, batch, pool>>
    BY <1>2 DEF ReadRosterVersion
  <2>. HIDE DEF s
  <2>. QED  BY <1>a, <2>1, <2>2, <2>9, QuietLoss
<1>3. CASE LuaReplay(d)
  <2>. DEFINE k == dr[d].key
              t == [dr[d] EXCEPT !.pc = "views", !.dup = TRUE, !.ids = idemp[k].ids]
  <2>0. k \in Keys /\ InHand(dr[d]) = {}
    BY <1>a, <1>e, <1>3 DEF LuaReplay, InScript, LocalOK, PrePop
  <2>1. CASE idemp[k].state = "undone"
    BY <1>3, <1>c, <1>d, <2>0, <2>1 DEF LuaReplay, Answer
  <2>2. CASE idemp[k].state # "undone"
    <3>1. t \in DrawRec /\ t.pc # "redeem" /\ t.dup
      BY <1>a, <2>0 DEF DrawRec, DrawPC, TInv, TypeInv, TypeOK
    <3>9. Become(d, t) /\ UNCHANGED <<roster, won, undone, failures, ed, wk, batch, pool>>
      BY <1>3, <2>2 DEF LuaReplay
    <3>. HIDE DEF t
    <3>. QED  BY <1>a, <2>0, <2>2, <3>1, <3>9, QuietLoss
  <2>. QED  BY <2>1, <2>2
<1>4. CASE LuaClosed(d) \/ LuaInsufficient(d) \/ (LuaStale(d) /\ Answer(d, "refused"))
  BY <1>4, <1>c, <1>d, <1>e DEF LuaClosed, LuaInsufficient, LuaStale, Answer, InScript, PrePop
<1>5. CASE LuaStale(d) /\ Goto(d, "eligible")
  <2>. DEFINE s == [dr[d] EXCEPT !.pc = "eligible"]
  <2>1. s \in DrawRec /\ s.pc # "redeem" /\ s.dup = dr[d].dup /\ s.ids = dr[d].ids
    BY <1>a DEF DrawRec, DrawPC
  <2>2. InHand(dr[d]) = {}
    BY <1>5, <1>e DEF LuaStale, InScript, PrePop
  <2>9. Become(d, s) /\ UNCHANGED <<roster, won, undone, failures, ed, wk, batch, pool>>
    BY <1>5 DEF LuaStale, Goto
  <2>. HIDE DEF s
  <2>. QED  BY <1>a, <2>1, <2>2, <2>9, QuietLoss
<1>6. LuaStale(d) => Answer(d, "refused") \/ Goto(d, "eligible")
  BY DEF LuaStale
<1>7. ASSUME NEW W \in SUBSET Participants, LuaPop(d, W) PROVE LossInv'
  BY <1>7, PopLoss
<1>8. CASE QueryEligible(d)
  <2>. DEFINE s == [dr[d] EXCEPT !.pc = "del", !.ids = Eligible(dr[d].prize)]
  <2>1. Eligible(dr[d].prize) \subseteq Listed /\ Listed \subseteq Participants
    BY DEF Eligible, Listed
  <2>2. s \in DrawRec /\ s.pc # "redeem" /\ s.ids \subseteq Listed
    BY <1>a, <2>1 DEF DrawRec, DrawPC
  <2>3. InHand(dr[d]) = {}
    BY <1>8, <1>e DEF QueryEligible, PrePop
  <2>9. Become(d, s) /\ UNCHANGED <<roster, won, undone, failures, ed, wk, batch, pool>>
    BY <1>8 DEF QueryEligible
  <2>. HIDE DEF s
  <2>. QED  BY <1>a, <2>2, <2>3, <2>9, QuietLoss
<1>9. CASE RebuildDel(d)
  <2>. DEFINE s == [dr[d] EXCEPT !.pc = "add"]
  <2>1. s \in DrawRec /\ s.pc # "redeem" /\ s.dup = dr[d].dup /\ s.ids = dr[d].ids
    BY <1>a DEF DrawRec, DrawPC
  <2>2. InHand(dr[d]) = {} /\ \A z \in Prizes : pool'[z] \subseteq Listed
    BY <1>9, <1>a, <1>e DEF RebuildDel, PrePop, TInv, TypeInv, TypeOK
  <2>9. Become(d, s) /\ UNCHANGED <<roster, won, undone, failures, ed, wk, batch>>
    BY <1>9 DEF RebuildDel, Goto
  <2>. HIDE DEF s
  <2>. QED  BY <1>a, <2>1, <2>2, <2>9, QuietLoss
<1>10. CASE RebuildAdd(d)
  <2>. DEFINE s == [dr[d] EXCEPT !.pc = "mark"]
  <2>1. s \in DrawRec /\ s.pc # "redeem" /\ s.dup = dr[d].dup /\ s.ids = dr[d].ids
    BY <1>a DEF DrawRec, DrawPC
  <2>2. dr[d].ids \subseteq Listed
    BY <1>10, <1>a DEF RebuildAdd, DrawOK, PrePop
  <2>3. InHand(dr[d]) = {} /\ \A z \in Prizes : pool'[z] \subseteq Listed
    BY <1>10, <1>a, <1>e, <2>2 DEF RebuildAdd, PrePop, TInv, TypeInv, TypeOK
  <2>9. Become(d, s) /\ UNCHANGED <<roster, won, undone, failures, ed, wk, batch>>
    BY <1>10 DEF RebuildAdd, Goto
  <2>. HIDE DEF s
  <2>. QED  BY <1>a, <2>1, <2>3, <2>9, QuietLoss
<1>11. CASE RebuildMark(d)
  <2>. DEFINE s == [dr[d] EXCEPT !.pc = "redraw", !.ids = {}]
  <2>1. s \in DrawRec /\ s.pc # "redeem" /\ s.ids = {}
    BY <1>a DEF DrawRec, DrawPC
  <2>2. InHand(dr[d]) = {}
    BY <1>11, <1>e DEF RebuildMark, PrePop
  <2>9. Become(d, s) /\ UNCHANGED <<roster, won, undone, failures, ed, wk, batch, pool>>
    BY <1>11 DEF RebuildMark
  <2>. HIDE DEF s
  <2>. QED  BY <1>a, <2>1, <2>2, <2>9, QuietLoss
<1>12. CASE LoadWinners(d)
  <2>. DEFINE t == [dr[d] EXCEPT !.pc = "persist", !.todo = dr[d].ids]
  <2>1. CASE dr[d].dup
    BY <1>12, <1>c, <1>d, <1>e, <2>1 DEF LoadWinners, Answer
  <2>2. CASE ~dr[d].dup
    <3>1. Become(d, t)
      BY <1>12, <1>a, <2>2 DEF LoadWinners, Listed
    <3>2. /\ t \in DrawRec /\ t.pc = "persist" /\ t.todo = dr[d].ids /\ t.key = dr[d].key
          /\ t.ids = dr[d].ids /\ t.dup = dr[d].dup
      BY <1>a DEF DrawRec, DrawPC
    <3>3. InHand(dr[d]) \subseteq InHand(t)
      BY <1>12, <2>2, <3>2 DEF LoadWinners, InHand, OwnerState, Writing
    <3>. HIDE DEF t
    <3>9. Become(d, t) /\ UNCHANGED <<roster, won, undone, failures, ed, wk, batch, pool>>
      BY <1>12, <3>1, <3>2 DEF LoadWinners
    <3>. HIDE DEF t
    <3>. QED  BY <1>a, <3>1, <3>2, <3>3, <3>9, QuietLoss
  <2>. QED  BY <2>1, <2>2
<1>13. ASSUME NEW p \in Participants, PersistOk(d, p) PROVE LossInv'
  <2>. DEFINE k == dr[d].key
              s == AfterRow(d, p)
  <2>1. dr[d].pc \in Writing /\ s \in DrawRec /\ Become(d, s)
    BY <1>13, AfterRowType DEF PersistOk, Writing
  <2>2. /\ InHand(dr[d]) \subseteq InHand(s) \cup {p}
        /\ s.key = dr[d].key /\ s.ids = dr[d].ids /\ s.dup = dr[d].dup
        /\ s.pc = "redeem" => s.cur = p
    BY <2>1, AfterRowHand
  <2>3. \A j, q : Recorded(j, q) => Recorded(j, q)'
    BY <1>13, InsertRecords DEF PersistOk
  <2>4. \A j : j = k => Written(j, p)'
    <3>. SUFFICES ASSUME NEW j, j = k PROVE Written(j, p)'
      OBVIOUS
    <3>. QED  BY <1>13, InsertRecords DEF PersistOk, Written
  <2>5. wk # NoRow => Recorded(wk.key, wk.part)'
    <3>1. wk' = wk
      BY <1>13 DEF PersistOk
    <3>2. wk # NoRow => \E r \in won' \cup undone' : r.key = wk.key /\ r.part = wk.part
      BY <2>3 DEF LossInv, SafeHands, Recorded
    <3>. QED  BY <3>1, <3>2 DEF Recorded
  <2>6. UNCHANGED <<roster, ed, wk, batch, pool>>
    BY <1>13 DEF PersistOk
  <2>. HIDE DEF s
  <2>. QED  BY <1>a, <1>b, <2>1, <2>2, <2>4, <2>5, <2>6, BecomeLoss
<1>14. ASSUME NEW p \in Participants, PersistFail(d, p) PROVE LossInv'
  <2>. DEFINE s == [dr[d] EXCEPT !.pc = "compensate", !.cur = p]
  <2>1. s \in DrawRec /\ Become(d, s)
    BY <1>14, <1>a DEF PersistFail, DrawRec, DrawPC
  <2>2. /\ s.pc = "compensate" /\ s.key = dr[d].key /\ s.ids = dr[d].ids
        /\ s.dup = dr[d].dup /\ s.todo = dr[d].todo
    BY <1>a DEF DrawRec
  <2>3. InHand(dr[d]) \subseteq InHand(s)
    BY <1>14, <2>2 DEF PersistFail, InHand, OwnerState, Writing
  <2>4. UNCHANGED undone /\ won \subseteq won'
    BY <1>14 DEF PersistFail, InsertDraw
  <2>5. wk # NoRow => Recorded(wk.key, wk.part)'
    <3>1. wk' = wk
      BY <1>14 DEF PersistFail
    <3>. QED  BY <2>4, <3>1 DEF LossInv, SafeHands, Recorded
  <2>6. UNCHANGED <<roster, ed, wk, batch, pool>>
    BY <1>14 DEF PersistFail
  <2>. HIDE DEF s
  <2>. QED  BY <1>a, <1>b, <2>1, <2>2, <2>3, <2>5, <2>6, BecomeLoss
<1>15. CASE Compensate(d)
  <2>. DEFINE k == dr[d].key
              p == dr[d].cur
              s == AfterRow(d, p)
  <2>0. dr[d].pc \in Writing /\ p \in Participants
    BY <1>15, <1>a DEF Compensate, Writing, LocalOK, DrawRec
  <2>1. s \in DrawRec /\ Become(d, s)
    BY <1>15, <1>a, <2>0, AfterRowType DEF Compensate, LocalOK
  <2>2. /\ InHand(dr[d]) \subseteq InHand(s) \cup {p}
        /\ s.key = dr[d].key /\ s.ids = dr[d].ids /\ s.dup = dr[d].dup
        /\ s.pc = "redeem" => s.cur = p
    BY <2>0, AfterRowHand
  <2>3. \A j, q : j = k /\ q = p => Written(j, q)'
    <3>. SUFFICES ASSUME NEW j, NEW q, j = k, q = p PROVE Written(j, q)'
      OBVIOUS
    <3>1. Row(j, q, dr[d].prize) \in failures'
      BY <1>15 DEF Compensate, NothingLost
    <3>. QED  BY <3>1 DEF Written, Deferred, Row
  <2>4. wk # NoRow => Recorded(wk.key, wk.part)'
    BY <1>15 DEF Compensate, LossInv, SafeHands, Recorded
  <2>5. UNCHANGED <<roster, ed, wk, batch, pool>>
    BY <1>15 DEF Compensate
  <2>. HIDE DEF s
  <2>. QED  BY <1>a, <1>b, <2>1, <2>2, <2>3, <2>4, <2>5, BecomeLoss
<1>16. CASE IssueRedeem(d)
  <2>. DEFINE k == dr[d].key
              p == dr[d].cur
              s == AfterWinner(d, p)
  <2>0. dr[d].pc \in Writing /\ p \in Participants /\ k \in Keys
    BY <1>16, <1>a DEF IssueRedeem, Writing, LocalOK, DrawRec
  <2>1. s \in DrawRec /\ Become(d, s)
    BY <1>16, <1>a, <2>0, AfterWinnerType DEF IssueRedeem, LocalOK
  <2>2. /\ InHand(dr[d]) \subseteq InHand(s) \cup {p}
        /\ s.key = dr[d].key /\ s.pc # "redeem" /\ s.ids = dr[d].ids /\ s.dup = dr[d].dup
    BY <2>0, AfterWinnerHand
  <2>3. Written(k, p)
    BY <1>16 DEF IssueRedeem, LossInv, SafeHands
  <2>4. \A j \in Keys, q \in Participants : j = k /\ q = p => Written(j, q)'
    <3>. SUFFICES ASSUME NEW j \in Keys, NEW q \in Participants, j = k, q = p
                  PROVE  Written(j, q)'
      OBVIOUS
    <3>. QED  BY <1>b, <2>3
  <2>5. wk # NoRow => Recorded(wk.key, wk.part)'
    BY <1>16 DEF IssueRedeem, LossInv, SafeHands, Recorded
  <2>6. UNCHANGED <<roster, ed, wk, batch, pool>>
    BY <1>16 DEF IssueRedeem
  <2>. HIDE DEF s
  <2>. QED  BY <1>a, <1>b, <2>0, <2>1, <2>2, <2>4, <2>5, <2>6, BecomeLoss
<1>17. CASE DrawReturn(d)
  <2>1. DrawIdle \in DrawRec /\ DrawIdle.pc # "redeem" /\ DrawIdle.ids = {}
    BY DEF DrawIdle, DrawRec, DrawPC, Reply
  <2>2. InHand(dr[d]) = {}
    BY <1>17, <1>e DEF DrawReturn
  <2>9. Become(d, DrawIdle) /\ UNCHANGED <<roster, won, undone, failures, ed, wk, batch, pool>>
    BY <1>17 DEF DrawReturn
  <2>. QED  BY <1>a, <2>1, <2>2, <2>9, QuietLoss
<1>18. ~AbortDraw(d)
  BY DEF AbortDraw, NothingLost
<1>. QED
  BY <1>1, <1>2, <1>3, <1>4, <1>5, <1>6, <1>7, <1>8, <1>9, <1>10, <1>11, <1>12,
     <1>13, <1>14, <1>15, <1>16, <1>17, <1>18 DEF DrawStep

\* The steps of other handlers lose nobody.
LEMMA OtherLoss ==
  ASSUME TInv, LossInv, NothingLost, [Next]_vars,
         \/ \E u \in Undoers : \/ \E k \in Keys : UndoLua(u, k)
                               \/ UndoStep(u) \/ AbortUndo(u)
         \/ \E e \in Editors :
              \/ \E p \in Participants : ImportRow(e, p) \/ DeleteCheck(e, p)
              \/ DeleteRow(e) \/ EditBump(e) \/ AbortEdit(e)
         \/ WorkerStep \/ AbortWorker \/ UNCHANGED vars
  PROVE  LossInv'
<1>. USE DEF redis, mysql
<1>a. \A k \in Keys, p \in Participants : Written(k, p) => Written(k, p)'
  BY StaysWritten DEF LossInv
<1>b. UNCHANGED <<pool, dr, batch>>
  <2>1. ASSUME NEW u \in Undoers, (\E k \in Keys : UndoLua(u, k)) \/ UndoStep(u) \/ AbortUndo(u)
        PROVE  UNCHANGED <<pool, dr, batch>>
    BY <2>1 DEF UndoLua, UndoStep, UndoMark, UndoBump, AbortUndo
  <2>2. ASSUME NEW e \in Editors,
               \/ \E p \in Participants : ImportRow(e, p) \/ DeleteCheck(e, p)
               \/ DeleteRow(e) \/ EditBump(e) \/ AbortEdit(e)
        PROVE  UNCHANGED <<pool, dr, batch>>
    BY <2>2 DEF ImportRow, DeleteCheck, DeleteRow, EditBump, AbortEdit
  <2>3. CASE WorkerStep \/ AbortWorker \/ UNCHANGED vars
    BY <2>3 DEF WorkerStep, WorkerInsert, WorkerResolve, AbortWorker, vars
  <2>. QED  BY <2>1, <2>2, <2>3
<1>c. Accounted'
  <2>1. \A c \in Drawers : Unsettled(c)' = Unsettled(c)
    BY <1>b DEF Unsettled, Owner
  <2>. SUFFICES ASSUME NEW k \in Keys, NEW p \in batch[k].ids
                PROVE  Written(k, p)' \/ \E c \in Drawers : dr[c].key = k /\ p \in Unsettled(c)
    BY <1>b, <2>1 DEF Accounted, Written
  <2>2. p \in Participants
    BY DEF TInv, TypeInv, TypeOK
  <2>. QED  BY <1>a, <2>2 DEF LossInv, Accounted, Written
<1>d. \A c \in Drawers : dr[c].pc = "redeem" =>
        /\ dr[c].key \in Keys /\ dr[c].cur \in Participants
        /\ Written(dr[c].key, dr[c].cur)
  <2>. SUFFICES ASSUME NEW c \in Drawers, dr[c].pc = "redeem"
                PROVE  /\ dr[c].key \in Keys /\ dr[c].cur \in Participants
                       /\ Written(dr[c].key, dr[c].cur)
    OBVIOUS
  <2>1. LocalOK(dr[c]) /\ dr[c] \in DrawRec
    BY DEF TInv, TypeInv, TypeOK, LocalInv
  <2>. QED  BY <2>1 DEF LocalOK, DrawRec, LossInv, SafeHands
<1>e. \A c \in Drawers : (dr[c].pc = "redeem" => Written(dr[c].key, dr[c].cur))'
  <2>1. ASSUME NEW c \in Drawers, NEW k \in Keys, NEW p \in Participants,
               dr[c].pc = "redeem", dr[c].key = k, dr[c].cur = p
        PROVE  Written(k, p)'
    BY <1>a, <1>d, <2>1
  <2>2. ASSUME NEW c \in Drawers, dr[c].pc = "redeem"
        PROVE  Written(dr[c].key, dr[c].cur)'
    <3>1. PICK k \in Keys, p \in Participants : k = dr[c].key /\ p = dr[c].cur
      BY <1>d, <2>2
    <3>2. Written(k, p)'
      BY <2>1, <2>2, <3>1
    <3>. QED  BY <1>b, <3>1, <3>2
  <2>. QED  BY <1>b, <2>2
<1>f. ASSUME Listed \subseteq Listed', \A e \in Editors : ed'[e].pc # "delete",
             (wk # NoRow => Recorded(wk.key, wk.part))'
      PROVE  LossInv'
  <2>1. \A z \in Prizes : (pool[z] \subseteq Listed)'
    BY <1>b, <1>f DEF LossInv, SafeHands
  <2>2. \A c \in Drawers : (~dr[c].dup => dr[c].ids \subseteq Listed)'
    BY <1>b, <1>f DEF LossInv, SafeHands
  <2>. QED  BY <1>c, <1>e, <1>f, <2>1, <2>2 DEF LossInv, SafeHands
<1>g. ASSUME UNCHANGED roster PROVE Listed' = Listed
  BY <1>g DEF Listed
<1>h. ASSUME UNCHANGED <<wk, won, undone>> PROVE (wk # NoRow => Recorded(wk.key, wk.part))'
  BY <1>h DEF LossInv, SafeHands, Recorded
<1>i. \A e \in Editors : ed[e].pc # "delete"
  BY DEF LossInv, SafeHands
<1>1. ASSUME NEW u \in Undoers, (\E k \in Keys : UndoLua(u, k)) \/ UndoBump(u) \/ AbortUndo(u)
      PROVE  LossInv'
  BY <1>1, <1>f, <1>g, <1>h, <1>i DEF UndoLua, UndoBump, AbortUndo
<1>2. ASSUME NEW u \in Undoers, UndoMark(u) PROVE LossInv'
  <2>1. wk' = wk /\ won' \cup undone' = won \cup undone
    BY <1>2 DEF UndoMark
  <2>2. (wk # NoRow => Recorded(wk.key, wk.part))'
    BY <2>1 DEF LossInv, SafeHands, Recorded
  <2>. QED  BY <1>2, <1>f, <1>g, <1>i, <2>2 DEF UndoMark
<1>3. ASSUME NEW e \in Editors, NEW p \in Participants, ImportRow(e, p) PROVE LossInv'
  <2>1. Listed \subseteq Listed'
    BY <1>3 DEF ImportRow, Listed, TInv, TypeInv, TypeOK
  <2>2. \A f \in Editors : ed'[f].pc # "delete"
    BY <1>3, <1>i DEF ImportRow, TInv, TypeInv, TypeOK
  <2>. QED  BY <1>3, <1>f, <1>h, <2>1, <2>2 DEF ImportRow
<1>4. ASSUME NEW e \in Editors, NEW p \in Participants, DeleteCheck(e, p) PROVE LossInv'
  BY <1>4 DEF DeleteCheck, NothingLost
<1>5. ASSUME NEW e \in Editors, DeleteRow(e) PROVE LossInv'
  BY <1>5, <1>i DEF DeleteRow
<1>6. ASSUME NEW e \in Editors, EditBump(e) \/ AbortEdit(e) PROVE LossInv'
  <2>1. \A f \in Editors : ed'[f].pc # "delete"
    BY <1>6, <1>i DEF EditBump, AbortEdit, EditIdle, TInv, TypeInv, TypeOK
  <2>. QED  BY <1>6, <1>f, <1>g, <1>h, <2>1 DEF EditBump, AbortEdit
<1>7. ASSUME NEW r \in Rows, WorkerInsert(r) PROVE LossInv'
  <2>1. wk' = r /\ UNCHANGED <<roster, ed, undone>>
    BY <1>7 DEF WorkerInsert
  <2>2. Recorded(r.key, r.part)'
    BY <1>7, InsertRecords DEF WorkerInsert
  <2>3. (wk # NoRow => Recorded(wk.key, wk.part))'
    BY <2>1, <2>2 DEF Recorded
  <2>. QED  BY <1>f, <1>g, <1>i, <2>1, <2>3
<1>8. CASE WorkerResolve \/ AbortWorker
  <2>1. wk' = NoRow /\ UNCHANGED <<roster, ed>>
    BY <1>8 DEF WorkerResolve, AbortWorker
  <2>. QED  BY <1>f, <1>g, <1>i, <2>1
<1>9. CASE UNCHANGED vars
  BY <1>9, <1>f, <1>g, <1>h, <1>i DEF vars
<1>. QED
  BY <1>1, <1>2, <1>3, <1>4, <1>5, <1>6, <1>7, <1>8, <1>9 DEF UndoStep, WorkerStep

LEMMA InitLoss == Init => LossInv
BY DEF Init, LossInv, SafeHands, Accounted, DrawIdle, EditIdle, NoBatch

LEMMA LossStep == TInv /\ BatchInv /\ LossInv /\ NothingLost /\ [Next]_vars => LossInv'
BY DrawLoss, OtherLoss DEF Next

\* Every winner popped from a pool is in draw_records, waits in persist_failures
\* or is in the hands of the request that popped it: for any number of requests,
\* undos and inserts that fail, if handlers run on and nobody is deleted.
THEOREM WinnersAccounted == ASSUME NothingLost PROVE Spec => []Accounted
<1>1. TInv /\ BatchInv /\ LossInv /\ [Next]_vars => LossInv'
  BY LossStep
<1>2. LossInv => Accounted
  BY DEF LossInv
<1>. QED  BY <1>1, <1>2, InitLoss, OneBatch, PTL DEF Spec
-----------------------------------------------------------------------------
(* Draw requests that come one at a time, beside any undos, edits and        *)
(* failures: who holds what, and how much of it.                             *)

Alone == \A c, d \in Drawers : c = d

\* The rows that a handler in state s has still to write.
Hand(s) == {Row(s.key, p, s.prize) : p \in InHand(s)}

\* The rows that make somebody a holder of a prize, or will.
Entries == Book \cup failures

\* Nobody who holds prize z is p.
Free(p, z) == \A r \in Entries : r.prize = z => r.part # p

LEMMA InBook ==
  /\ \A r : r \in Book <=> r \in won \/ \E d \in Drawers : r \in Hand(dr[d])
  /\ \A r : r \in Book' <=> r \in won' \/ \E d \in Drawers : r \in Hand(dr'[d])
BY DEF Book, Unsettled, Hand, InHand, Owner, OwnerState, Writing

-----------------------------------------------------------------------------
(* What a step of the request does, except for the pop.                    *)

\* What it has still to write it had to write before, it writes nothing else,
\* and a pool gets only the people whom the request has found eligible.
Quiet(d) ==
  /\ \A c \in Drawers : c # d => dr'[c] = dr[c]
  /\ won \subseteq won' /\ won' \subseteq won \cup Hand(dr[d])
  /\ failures' \subseteq failures \cup Hand(dr[d])
  /\ Hand(dr'[d]) \subseteq Hand(dr[d])
  /\ \A z \in Prizes : pool'[z] \subseteq
       IF dr[d].pc = "add" /\ dr[d].prize = z THEN pool[z] \cup dr[d].ids ELSE pool[z]
  /\ \/ dr'[d].pc \notin {"del", "add"}
     \/ dr[d].pc = "del" /\ dr'[d].prize = dr[d].prize /\ dr'[d].ids = dr[d].ids
     \/ /\ dr[d].pc = "eligible"
        /\ dr'[d].prize = dr[d].prize /\ dr'[d].ids = Eligible(dr[d].prize)
  /\ UNCHANGED <<undone, batch>>

\* A request that is not about to draw is not about to draw another size.
SameSize(d) == dr'[d].pc \in PrePop =>
  dr[d].pc \in PrePop /\ dr'[d].prize = dr[d].prize /\ dr'[d].count = dr[d].count

\* It compensates for a winner only after a failed insert.
OnlyFailing(d) ==
  dr'[d].pc = "compensate" => \E p \in Participants : PersistFail(d, p)

\* A step to a state s that holds nothing more, and writes nothing.
LEMMA BecomeSilent ==
  ASSUME TInv, NEW d \in Drawers, NEW s, Become(d, s),
         \A p \in InHand(s) : p \in InHand(dr[d]) /\ s.key = dr[d].key /\ s.prize = dr[d].prize,
         s.pc \notin {"del", "add"}, UNCHANGED <<won, failures, pool, undone, batch>>
  PROVE  Quiet(d) /\ dr'[d] = s
<1>1. \A c \in Drawers : dr'[c] = IF c = d THEN s ELSE dr[c]
  BY DEF TInv, TypeInv, TypeOK, Become
<1>2. Hand(s) \subseteq Hand(dr[d])
  BY DEF Hand
<1>. QED  BY <1>1, <1>2 DEF Quiet

\* The winner who is dealt with is no longer in the hands of the request.
LEMMA AfterWinnerRest ==
  ASSUME TInv, NEW d \in Drawers, dr[d].pc \in Writing, NEW p
  PROVE  LET s == AfterWinner(d, p)
         IN /\ s.key = dr[d].key /\ s.prize = dr[d].prize
            /\ s.pc \in {"persist", "replied"}
            /\ \A q \in InHand(s) : q \in InHand(dr[d])
<1>. DEFINE pc    == IF dr[d].todo = {p} THEN "replied" ELSE "persist"
            reply == IF dr[d].todo = {p} THEN "won" ELSE "none"
            s     == [dr[d] EXCEPT !.pc = pc, !.reply = reply,
                                   !.todo = dr[d].todo \ {p}, !.cur = None]
<1>1. dr[d] \in DrawRec
  BY DEF TInv, TypeInv, TypeOK
<1>2. AfterWinner(d, p) = s
  BY DEF AfterWinner
<1>3. pc \in {"persist", "replied"}
  OBVIOUS
<1>. HIDE DEF pc, reply
<1>4. /\ s.pc = pc /\ s.todo = dr[d].todo \ {p} /\ s.key = dr[d].key
      /\ s.prize = dr[d].prize /\ s.dup = dr[d].dup
  BY <1>1 DEF DrawRec
<1>. HIDE DEF s
<1>. QED
  BY <1>2, <1>3, <1>4 DEF InHand, OwnerState, Writing

LEMMA AfterRowRest ==
  ASSUME TInv, NEW d \in Drawers, dr[d].pc \in Writing, NEW p
  PROVE  LET s == AfterRow(d, p)
         IN /\ s.key = dr[d].key /\ s.prize = dr[d].prize
            /\ s.pc \in {"persist", "redeem", "replied"}
            /\ \A q \in InHand(s) : q \in InHand(dr[d])
<1>1. CASE p \in Registered
  <2>. DEFINE s == [dr[d] EXCEPT !.pc = "redeem", !.cur = p]
  <2>1. dr[d] \in DrawRec
    BY DEF TInv, TypeInv, TypeOK
  <2>2. AfterRow(d, p) = s
    BY <1>1 DEF AfterRow
  <2>3. /\ s.pc = "redeem" /\ s.todo = dr[d].todo /\ s.key = dr[d].key
        /\ s.prize = dr[d].prize /\ s.dup = dr[d].dup
    BY <2>1 DEF DrawRec
  <2>. HIDE DEF s
  <2>. QED  BY <2>2, <2>3 DEF InHand, OwnerState, Writing
<1>2. CASE p \notin Registered
  BY <1>2, AfterWinnerRest DEF AfterRow
<1>. QED  BY <1>1, <1>2

\* A step that writes the row of a winner in hand, or only its compensation.
LEMMA BecomeWriter ==
  ASSUME TInv, NEW d \in Drawers, NEW s, Become(d, s), NEW p \in InHand(dr[d]),
         \/ won' = won
         \/ InsertDraw(dr[d].key, p, dr[d].prize),
         failures' \subseteq failures \cup {Row(dr[d].key, p, dr[d].prize)},
         s.key = dr[d].key, s.prize = dr[d].prize,
         \A q \in InHand(s) : q \in InHand(dr[d]),
         s.pc \notin {"del", "add"}, UNCHANGED <<pool, undone, batch>>
  PROVE  Quiet(d) /\ dr'[d] = s
<1>1. \A c \in Drawers : dr'[c] = IF c = d THEN s ELSE dr[c]
  BY DEF TInv, TypeInv, TypeOK, Become
<1>2. Hand(s) \subseteq Hand(dr[d])
  BY DEF Hand
<1>3. Row(dr[d].key, p, dr[d].prize) \in Hand(dr[d])
  BY DEF Hand
<1>4. won \subseteq won' /\ won' \subseteq won \cup Hand(dr[d])
  BY <1>3 DEF InsertDraw
<1>5. failures' \subseteq failures \cup Hand(dr[d])
  BY <1>3
<1>6. \A z \in Prizes : pool'[z] \subseteq pool[z]
  OBVIOUS
<1>. QED  BY <1>1, <1>2, <1>4, <1>5, <1>6 DEF Quiet

LEMMA RequestQuiet ==
  ASSUME TInv, NEW d \in Drawers, NEW z \in Prizes, NEW k \in Keys, DrawRequest(d, z, k)
  PROVE  /\ Quiet(d) /\ OnlyFailing(d)
         /\ dr'[d].pc \in PrePop =>
              /\ dr'[d].prize = z /\ Remaining(z) > 0
              /\ dr'[d].count <= PerRound[z] /\ dr'[d].count <= Remaining(z)
<1>. DEFINE left == Remaining(z)
            n == IF PerRound[z] > left THEN left ELSE PerRound[z]
            s == [DrawIdle EXCEPT !.pc = "replied", !.key = k, !.prize = z,
                                  !.reply = "exhausted"]
            t == [DrawIdle EXCEPT !.pc = "version", !.key = k, !.prize = z,
                                  !.count = n]
<1>. USE DEF mysql, redis
<1>1. CASE left <= 0
  <2>1. Become(d, s)
    BY <1>1 DEF DrawRequest
  <2>2. s.pc = "replied" /\ \A p \in InHand(s) : FALSE
    BY DEF DrawIdle, InHand, OwnerState, Writing
  <2>3. UNCHANGED <<won, failures, pool, undone, batch>>
    BY DEF DrawRequest
  <2>. HIDE DEF s
  <2>4. Quiet(d) /\ dr'[d] = s
    BY <2>1, <2>2, <2>3, BecomeSilent
  <2>. QED  BY <2>2, <2>4 DEF PrePop, OnlyFailing
<1>2. CASE ~(left <= 0)
  <2>1. Become(d, t)
    BY <1>2 DEF DrawRequest
  <2>2. /\ t.pc = "version" /\ t.prize = z /\ t.count = n
        /\ \A p \in InHand(t) : FALSE
    BY DEF DrawIdle, InHand, OwnerState, Writing
  <2>3. UNCHANGED <<won, failures, pool, undone, batch>>
    BY DEF DrawRequest
  <2>4. left \in Int /\ left > 0 /\ n <= PerRound[z] /\ n <= left
    BY <1>2, RemainingType, LiveAssumption DEF TInv
  <2>. HIDE DEF t, left, n
  <2>5. Quiet(d) /\ dr'[d] = t
    BY <2>1, <2>2, <2>3, BecomeSilent
  <2>. QED  BY <2>2, <2>4, <2>5 DEF left, OnlyFailing
<1>. QED  BY <1>1, <1>2

\* Every other step of the request but the pop.
LEMMA DrawQuiet ==
  ASSUME TInv, BatchInv, NEW d \in Drawers,
         DrawStep(d) \/ AbortDraw(d),
         \A W \in SUBSET Participants : ~LuaPop(d, W)
  PROVE  Quiet(d) /\ SameSize(d) /\ OnlyFailing(d)
<1>. USE DEF mysql, redis
<1>a. dr[d] \in DrawRec /\ DrawOK(dr[d]) /\ LocalOK(dr[d])
  BY DEF TInv, TypeInv, TypeOK, BatchInv, LocalInv
<1>b. dr[d].pc \in PrePop \cup {"idle", "replied"} \/ dr[d].dup => \A p \in InHand(dr[d]) : FALSE
  BY DEF InHand, OwnerState, Writing, PrePop
<1>c. ASSUME NEW what, Answer(d, what), UNCHANGED <<won, failures, pool, undone, batch>>
      PROVE  Quiet(d) /\ SameSize(d) /\ OnlyFailing(d)
  <2>. DEFINE s == [dr[d] EXCEPT !.pc = "replied", !.reply = what]
  <2>1. Become(d, s)
    BY <1>c DEF Answer
  <2>2. s.pc = "replied" /\ \A p \in InHand(s) : FALSE
    BY <1>a DEF DrawRec, InHand, OwnerState, Writing
  <2>. HIDE DEF s
  <2>3. Quiet(d) /\ dr'[d] = s
    BY <1>c, <2>1, <2>2, BecomeSilent
  <2>. QED  BY <2>2, <2>3 DEF SameSize, OnlyFailing, PrePop
<1>d. \A s : Become(d, s) => dr'[d] = s
  BY DEF Become, TInv, TypeInv, TypeOK
<1>1. CASE ReadRosterVersion(d)
  <2>. DEFINE s == [dr[d] EXCEPT !.pc = "draw", !.ver = ver]
  <2>1. Become(d, s) /\ UNCHANGED <<won, failures, pool, undone, batch>>
    BY <1>1 DEF ReadRosterVersion
  <2>2. /\ s.pc = "draw" /\ s.prize = dr[d].prize /\ s.count = dr[d].count
        /\ \A p \in InHand(s) : FALSE
    BY <1>a DEF DrawRec, InHand, OwnerState, Writing
  <2>3. dr[d].pc \in PrePop
    BY <1>1 DEF ReadRosterVersion, PrePop
  <2>. HIDE DEF s
  <2>4. Quiet(d) /\ dr'[d] = s
    BY <2>1, <2>2, BecomeSilent
  <2>. QED  BY <2>2, <2>3, <2>4 DEF SameSize, OnlyFailing
<1>2. CASE LuaReplay(d)
  <2>. DEFINE s == [dr[d] EXCEPT !.pc = "views", !.dup = TRUE,
                                 !.ids = idemp[dr[d].key].ids]
  <2>1. UNCHANGED <<won, failures, pool, undone, batch>>
    BY <1>2 DEF LuaReplay
  <2>2. CASE Answer(d, "undone")
    BY <2>1, <2>2, <1>c
  <2>3. CASE Become(d, s)
    <3>1. s.pc = "views" /\ \A p \in InHand(s) : FALSE
      BY <1>a DEF DrawRec, InHand, OwnerState, Writing
    <3>. HIDE DEF s
    <3>2. Quiet(d) /\ dr'[d] = s
      BY <2>1, <2>3, <3>1, BecomeSilent
    <3>. QED  BY <3>1, <3>2 DEF SameSize, OnlyFailing, PrePop
  <2>. QED  BY <1>2, <2>2, <2>3 DEF LuaReplay
<1>3. CASE LuaClosed(d) \/ LuaInsufficient(d)
  BY <1>3, <1>c DEF LuaClosed, LuaInsufficient
<1>4. CASE LuaStale(d)
  <2>. DEFINE s == [dr[d] EXCEPT !.pc = "eligible"]
  <2>1. UNCHANGED <<won, failures, pool, undone, batch>>
    BY <1>4 DEF LuaStale
  <2>2. CASE Answer(d, "refused")
    BY <2>1, <2>2, <1>c
  <2>3. CASE Become(d, s)
    <3>1. /\ s.pc = "eligible" /\ s.prize = dr[d].prize /\ s.count = dr[d].count
          /\ \A p \in InHand(s) : FALSE
      BY <1>a DEF DrawRec, InHand, OwnerState, Writing
    <3>2. dr[d].pc \in PrePop
      BY <1>4 DEF LuaStale, InScript, PrePop
    <3>. HIDE DEF s
    <3>3. Quiet(d) /\ dr'[d] = s
      BY <2>1, <2>3, <3>1, BecomeSilent
    <3>. QED  BY <3>1, <3>2, <3>3 DEF SameSize, OnlyFailing, PrePop
  <2>. QED  BY <1>4, <2>2, <2>3 DEF LuaStale, Goto
<1>5. CASE QueryEligible(d) \/ RebuildDel(d) \/ RebuildAdd(d) \/ RebuildMark(d)
  <2>1. /\ UNCHANGED <<won, failures, undone, batch>> /\ dr[d].pc \in PrePop
        /\ \A c \in Drawers : c # d => dr'[c] = dr[c]
    BY <1>5 DEF QueryEligible, RebuildDel, RebuildAdd, RebuildMark, Goto, Become,
                PrePop, TInv, TypeInv, TypeOK
  <2>2. /\ dr'[d].pc \in {"del", "add", "mark", "redraw"}
        /\ dr'[d].prize = dr[d].prize /\ dr'[d].count = dr[d].count
        /\ \/ dr'[d].pc \notin {"del", "add"}
           \/ dr[d].pc = "del" /\ dr'[d].ids = dr[d].ids
           \/ dr[d].pc = "eligible" /\ dr'[d].ids = Eligible(dr[d].prize)
    <3>1. CASE QueryEligible(d)
      <4>1. dr'[d] = [dr[d] EXCEPT !.pc = "del", !.ids = Eligible(dr[d].prize)]
        BY <1>d, <3>1 DEF QueryEligible
      <4>. QED  BY <1>a, <3>1, <4>1 DEF QueryEligible, DrawRec
    <3>2. CASE RebuildDel(d)
      <4>1. dr'[d] = [dr[d] EXCEPT !.pc = "add"]
        BY <1>d, <3>2 DEF RebuildDel, Goto
      <4>. QED  BY <1>a, <3>2, <4>1 DEF RebuildDel, DrawRec
    <3>3. CASE RebuildAdd(d)
      <4>1. dr'[d] = [dr[d] EXCEPT !.pc = "mark"]
        BY <1>d, <3>3 DEF RebuildAdd, Goto
      <4>. QED  BY <1>a, <4>1 DEF DrawRec
    <3>4. CASE RebuildMark(d)
      <4>1. dr'[d] = [dr[d] EXCEPT !.pc = "redraw", !.ids = {}]
        BY <1>d, <3>4 DEF RebuildMark
      <4>. QED  BY <1>a, <4>1 DEF DrawRec
    <3>. QED  BY <1>5, <3>1, <3>2, <3>3, <3>4
  <2>3. \A p \in InHand(dr'[d]) : FALSE
    BY <2>2 DEF InHand, OwnerState, Writing
  <2>4. Hand(dr'[d]) \subseteq Hand(dr[d])
    BY <2>3 DEF Hand
  <2>5. \A z \in Prizes : pool'[z] \subseteq
          IF dr[d].pc = "add" /\ dr[d].prize = z THEN pool[z] \cup dr[d].ids ELSE pool[z]
    BY <1>a, <1>5 DEF QueryEligible, RebuildDel, RebuildAdd, RebuildMark, LocalOK,
                TInv, TypeInv, TypeOK
  <2>. QED  BY <2>1, <2>2, <2>4, <2>5 DEF Quiet, SameSize, OnlyFailing, PrePop
<1>6. CASE LoadWinners(d)
  <2>. DEFINE s == [dr[d] EXCEPT !.pc = "persist", !.todo = dr[d].ids]
  <2>1. UNCHANGED <<won, failures, pool, undone, batch>>
    BY <1>6 DEF LoadWinners
  <2>2. CASE Answer(d, "error") \/ Answer(d, "replay")
    BY <2>1, <2>2, <1>c
  <2>3. CASE Become(d, s)
    <3>1. s.pc = "persist" /\ s.key = dr[d].key /\ s.prize = dr[d].prize
          /\ s.todo = dr[d].ids /\ s.dup = dr[d].dup
      BY <1>a DEF DrawRec
    <3>. HIDE DEF s
    <3>2. \A p \in InHand(s) : p \in InHand(dr[d])
      BY <1>6, <3>1 DEF LoadWinners, InHand, OwnerState, Writing
    <3>3. Quiet(d) /\ dr'[d] = s
      BY <2>1, <2>3, <3>1, <3>2, BecomeSilent
    <3>. QED  BY <3>1, <3>3 DEF SameSize, OnlyFailing, PrePop
  <2>. QED  BY <1>6, <2>2, <2>3 DEF LoadWinners
<1>7. ASSUME NEW p \in Participants, PersistOk(d, p) PROVE Quiet(d) /\ SameSize(d) /\ OnlyFailing(d)
  <2>. DEFINE s == AfterRow(d, p)
  <2>1. p \in InHand(dr[d]) /\ dr[d].pc \in Writing
    BY <1>a, <1>7 DEF PersistOk, InHand, OwnerState, Writing, DrawOK
  <2>2. /\ s.key = dr[d].key /\ s.prize = dr[d].prize
        /\ s.pc \in {"persist", "redeem", "replied"}
        /\ \A q \in InHand(s) : q \in InHand(dr[d])
    BY <2>1, AfterRowRest
  <2>. HIDE DEF s
  <2>3. /\ Become(d, s) /\ InsertDraw(dr[d].key, p, dr[d].prize)
        /\ UNCHANGED <<failures, pool, undone, batch>>
    BY <1>7 DEF PersistOk, s
  <2>4. Quiet(d) /\ dr'[d] = s
    BY <2>1, <2>2, <2>3, BecomeWriter
  <2>. QED  BY <2>2, <2>4 DEF SameSize, OnlyFailing, PrePop
<1>8. ASSUME NEW p \in Participants, PersistFail(d, p) PROVE Quiet(d) /\ SameSize(d) /\ OnlyFailing(d)
  <2>. DEFINE s == [dr[d] EXCEPT !.pc = "compensate", !.cur = p]
  <2>1. p \in InHand(dr[d])
    BY <1>a, <1>8 DEF PersistFail, InHand, OwnerState, Writing, DrawOK
  <2>2. /\ s.pc = "compensate" /\ s.key = dr[d].key /\ s.prize = dr[d].prize
        /\ s.todo = dr[d].todo /\ s.dup = dr[d].dup
    BY <1>a DEF DrawRec
  <2>. HIDE DEF s
  <2>3. \A q \in InHand(s) : q \in InHand(dr[d])
    BY <1>8, <2>2 DEF PersistFail, InHand, OwnerState, Writing
  <2>4. /\ Become(d, s) /\ (won' = won \/ InsertDraw(dr[d].key, p, dr[d].prize))
        /\ UNCHANGED <<failures, pool, undone, batch>>
    BY <1>8 DEF PersistFail, s
  <2>5. Quiet(d) /\ dr'[d] = s
    BY <2>1, <2>2, <2>3, <2>4, BecomeWriter
  <2>. QED  BY <1>8, <2>2, <2>5 DEF SameSize, OnlyFailing, PrePop
<1>9. CASE Compensate(d)
  <2>. DEFINE p == dr[d].cur
              s == AfterRow(d, p)
  <2>1. p \in InHand(dr[d]) /\ dr[d].pc \in Writing
    BY <1>a, <1>9 DEF Compensate, InHand, OwnerState, Writing, DrawOK, LocalOK
  <2>2. /\ s.key = dr[d].key /\ s.prize = dr[d].prize
        /\ s.pc \in {"persist", "redeem", "replied"}
        /\ \A q \in InHand(s) : q \in InHand(dr[d])
    BY <2>1, AfterRowRest
  <2>3. /\ Become(d, s) /\ failures' \subseteq failures \cup {Row(dr[d].key, p, dr[d].prize)}
        /\ UNCHANGED <<won, pool, undone, batch>>
    BY <1>9 DEF Compensate
  <2>. HIDE DEF s, p
  <2>4. Quiet(d) /\ dr'[d] = s
    BY <2>1, <2>2, <2>3, BecomeWriter
  <2>. QED  BY <2>2, <2>4 DEF SameSize, OnlyFailing, PrePop
<1>10. CASE IssueRedeem(d)
  <2>. DEFINE p == dr[d].cur
              s == AfterWinner(d, p)
  <2>1. dr[d].pc \in Writing
    BY <1>10 DEF IssueRedeem, Writing
  <2>2. /\ s.key = dr[d].key /\ s.prize = dr[d].prize
        /\ s.pc \in {"persist", "replied"}
        /\ \A q \in InHand(s) : q \in InHand(dr[d])
    BY <2>1, AfterWinnerRest
  <2>3. Become(d, s) /\ UNCHANGED <<won, failures, pool, undone, batch>>
    BY <1>10 DEF IssueRedeem
  <2>. HIDE DEF s, p
  <2>4. Quiet(d) /\ dr'[d] = s
    BY <2>2, <2>3, BecomeSilent
  <2>. QED  BY <2>2, <2>4 DEF SameSize, OnlyFailing, PrePop
<1>11. CASE DrawReturn(d) \/ AbortDraw(d)
  <2>1. PICK s : /\ s.pc \in {"idle", "replied"} /\ s.key = s.key
                 /\ Become(d, s) /\ UNCHANGED <<won, failures, pool, undone, batch>>
    <3>. DEFINE t == [DrawIdle EXCEPT !.pc = "replied", !.reply = "error"]
    <3>1. DrawIdle.pc = "idle" /\ t.pc = "replied"
      BY DEF DrawIdle
    <3>2. Become(d, DrawIdle) \/ Become(d, t)
      BY <1>11 DEF DrawReturn, AbortDraw
    <3>3. UNCHANGED <<won, failures, pool, undone, batch>>
      BY <1>11 DEF DrawReturn, AbortDraw
    <3>. QED  BY <3>1, <3>2, <3>3
  <2>2. \A p \in InHand(s) : FALSE
    BY <2>1 DEF InHand, OwnerState, Writing
  <2>3. Quiet(d) /\ dr'[d] = s
    BY <2>1, <2>2, BecomeSilent
  <2>. QED  BY <2>1, <2>3 DEF SameSize, OnlyFailing, PrePop
<1>. QED
  BY <1>1, <1>2, <1>3, <1>4, <1>5, <1>6, <1>7, <1>8, <1>9, <1>10, <1>11 DEF DrawStep

\* The pop: W goes from the pool into the hands of the request, which had none.
LEMMA PopHand ==
  ASSUME TInv, BatchInv, NEW d \in Drawers, NEW W \in SUBSET Participants, LuaPop(d, W)
  PROVE  LET k == dr[d].key
             z == dr[d].prize
         IN /\ dr[d].pc \in PrePop /\ k \in Keys /\ z \in Prizes
            /\ \A c \in Drawers : c # d => dr'[c] = dr[c]
            /\ Hand(dr[d]) = {} /\ Hand(dr'[d]) = {Row(k, p, z) : p \in W}
            /\ dr'[d].pc = "views"
            /\ W \subseteq pool[z] /\ \A y \in Prizes : pool'[y] \subseteq pool[y]
            /\ UNCHANGED <<won, failures, undone>>
<1>. DEFINE s == [dr[d] EXCEPT !.pc = "views", !.ids = W]
<1>1. dr[d] \in DrawRec /\ DrawOK(dr[d]) /\ LocalOK(dr[d]) /\ dr[d].pc \in {"draw", "redraw"}
  BY DEF TInv, TypeInv, TypeOK, BatchInv, LocalInv, LuaPop, InScript
<1>2. \A c \in Drawers : dr'[c] = IF c = d THEN s ELSE dr[c]
  BY DEF LuaPop, Become, TInv, TypeInv, TypeOK
<1>3. s.pc = "views" /\ s.ids = W /\ s.key = dr[d].key /\ s.prize = dr[d].prize /\ ~s.dup
  BY <1>1 DEF DrawRec, DrawOK, PrePop
<1>4. InHand(s) = W /\ \A p \in InHand(dr[d]) : FALSE
  BY <1>1, <1>3 DEF InHand, OwnerState, Writing
<1>5. Hand(s) = {Row(dr[d].key, p, dr[d].prize) : p \in W} /\ Hand(dr[d]) = {}
  BY <1>3, <1>4 DEF Hand
<1>6. \A y \in Prizes : pool'[y] \subseteq pool[y]
  BY DEF LuaPop, TInv, TypeInv, TypeOK
<1>. HIDE DEF s
<1>. QED  BY <1>1, <1>2, <1>3, <1>5, <1>6 DEF LuaPop, LocalOK, PrePop, mysql

\* What is nobody's draw request.
Aside == \/ \E u \in Undoers : \/ \E k \in Keys : UndoLua(u, k)
                               \/ UndoStep(u) \/ AbortUndo(u)
         \/ \E e \in Editors :
              \/ \E p \in Participants : ImportRow(e, p) \/ DeleteCheck(e, p)
              \/ DeleteRow(e) \/ EditBump(e) \/ AbortEdit(e)
         \/ WorkerStep \/ AbortWorker \/ UNCHANGED vars

\* A step is a request, its pop, another step of it, or none of its own.
LEMMA StepKinds ==
  ASSUME TInv, BatchInv, [Next]_vars
  PROVE  \/ Aside
         \/ \E d \in Drawers, z \in Prizes, k \in Keys : DrawRequest(d, z, k)
         \/ \E d \in Drawers, W \in SUBSET Participants : LuaPop(d, W)
         \/ \E d \in Drawers : Quiet(d) /\ SameSize(d)
BY DrawQuiet DEF Next, Aside

\* Nothing that others do makes a new holder: the worker inserts what waits in
\* persist_failures.
LEMMA AsideEntries ==
  ASSUME TInv, Aside
  PROVE  /\ Entries' \subseteq Entries
         /\ UNCHANGED <<pool, dr, batch>>
<1>. USE DEF redis, mysql
<1>1. UNCHANGED <<pool, dr, batch>>
  BY DEF Aside, UndoLua, UndoStep, UndoMark, UndoBump, AbortUndo, ImportRow, DeleteCheck,
         DeleteRow, EditBump, AbortEdit, WorkerStep, WorkerInsert, WorkerResolve,
         AbortWorker, vars
<1>2. won' \subseteq won \cup failures /\ failures' \subseteq failures
  <2>1. ASSUME NEW r \in Rows, WorkerInsert(r) PROVE won' \subseteq won \cup failures
    <3>1. r = Row(r.key, r.part, r.prize)
      BY DEF Rows, Row
    <3>. QED  BY <2>1, <3>1 DEF WorkerInsert, InsertDraw
  <2>2. ASSUME NEW u \in Undoers, UndoMark(u) PROVE won' \subseteq won
    BY <2>2 DEF UndoMark
  <2>3. \/ UNCHANGED won \/ \E r \in Rows : WorkerInsert(r)
        \/ \E u \in Undoers : UndoMark(u)
    BY DEF Aside, UndoLua, UndoStep, UndoBump, AbortUndo, ImportRow, DeleteCheck,
           DeleteRow, EditBump, AbortEdit, WorkerStep, WorkerResolve, AbortWorker, vars
  <2>4. failures' \subseteq failures
    BY DEF Aside, UndoLua, UndoStep, UndoMark, UndoBump, AbortUndo, ImportRow, DeleteCheck,
           DeleteRow, EditBump, AbortEdit, WorkerStep, WorkerInsert, WorkerResolve,
           AbortWorker, vars
  <2>. QED  BY <2>1, <2>2, <2>3, <2>4
<1>3. \A r \in Book' : r \in Book \cup failures
  BY <1>1, <1>2, InBook
<1>. QED  BY <1>1, <1>2, <1>3 DEF Entries

\* With one request, its quiet steps make no new holder, and lose rows of its
\* batch only.
LEMMA QuietBook ==
  ASSUME TInv, Alone, NEW d \in Drawers, Quiet(d)
  PROVE  /\ Book' \subseteq Book
         /\ Entries' \subseteq Entries
         /\ \A r \in Book \ Book' : r.key = dr[d].key
<1>1. \A c \in Drawers : Hand(dr'[c]) \subseteq Hand(dr[c])
  BY DEF Quiet
<1>2. Book' \subseteq Book
  BY <1>1, InBook DEF Quiet
<1>3. Entries' \subseteq Entries
  BY <1>2, InBook DEF Entries, Quiet
<1>4. \A r \in Hand(dr[d]) : r.key = dr[d].key
  BY DEF Hand, Row
<1>5. \A r \in Book \ Book' : r \in Hand(dr[d])
  BY InBook DEF Quiet, Alone
<1>. QED  BY <1>2, <1>3, <1>4, <1>5
-----------------------------------------------------------------------------
(* Nobody holds a prize twice.                                             *)

\* Whoever is in the pool of a prize, or about to be put into it, holds none of
\* that prize.
RepeatInv ==
  /\ NoRepeat
  /\ \A z \in Prizes : \A p \in pool[z] : Free(p, z)
  /\ \A d \in Drawers : dr[d].pc \in {"del", "add"} =>
       \A p \in dr[d].ids : Free(p, dr[d].prize)

LEMMA InitRepeat == Init => RepeatInv
<1>. SUFFICES ASSUME Init PROVE RepeatInv
  OBVIOUS
<1>1. \A d \in Drawers : dr[d].pc = "idle" /\ \A p \in InHand(dr[d]) : FALSE
  BY DEF Init, DrawIdle, InHand, OwnerState, Writing
<1>2. \A r : r \notin Book /\ r \notin failures
  BY <1>1, InBook DEF Init, Hand
<1>. QED  BY <1>1, <1>2 DEF Init, RepeatInv, NoRepeat

\* No new holder, no new repetition.
LEMMA FewerEntries ==
  ASSUME Entries' \subseteq Entries
  PROVE  /\ NoRepeat => NoRepeat'
         /\ \A p, z : Free(p, z) => \A r \in Entries' : r.prize = z => r.part # p
BY DEF NoRepeat, Free, Entries

\* A rebuilt pool leaves out whoever holds the prize or waits for it.
LEMMA EligibleFree ==
  ASSUME TInv, Alone, NEW d \in Drawers, dr[d].pc = "eligible",
         NEW p \in Eligible(dr[d].prize)
  PROVE  Free(p, dr[d].prize)
<1>1. \A q \in InHand(dr[d]) : FALSE
  BY DEF InHand, OwnerState, Writing
<1>2. \A r \in Entries : r \in won \cup failures
  BY <1>1, InBook DEF Entries, Alone, Hand
<1>. QED  BY <1>2 DEF Free, Eligible, HasWonFor, Pending

LEMMA RepeatStep ==
  ASSUME Alone, TInv, BatchInv, RepeatInv, [Next]_vars
  PROVE  RepeatInv'
<1>1. CASE Aside
  <2>1. Entries' \subseteq Entries /\ UNCHANGED <<pool, dr>>
    BY <1>1, AsideEntries
  <2>. QED  BY <2>1, FewerEntries DEF RepeatInv, Free
<1>2. ASSUME NEW d \in Drawers, Quiet(d) PROVE RepeatInv'
  <2>1. /\ NoRepeat => NoRepeat'
        /\ \A p, z : Free(p, z) => \A r \in Entries' : r.prize = z => r.part # p
    BY <1>2, QuietBook, FewerEntries
  <2>2. \A z \in Prizes : \A p \in pool'[z] : \A r \in Entries' : r.prize = z => r.part # p
    BY <1>2, <2>1 DEF RepeatInv, Quiet
  <2>3. ASSUME dr'[d].pc \in {"del", "add"}
        PROVE  \A p \in dr'[d].ids : \A r \in Entries' : r.prize = dr'[d].prize => r.part # p
    <3>1. CASE dr[d].pc = "del" /\ dr'[d].prize = dr[d].prize /\ dr'[d].ids = dr[d].ids
      BY <2>1, <3>1 DEF RepeatInv
    <3>2. CASE /\ dr[d].pc = "eligible"
               /\ dr'[d].prize = dr[d].prize /\ dr'[d].ids = Eligible(dr[d].prize)
      BY <2>1, <3>2, EligibleFree
    <3>. QED  BY <1>2, <2>3, <3>1, <3>2 DEF Quiet
  <2>4. \A c \in Drawers : dr'[c].pc \in {"del", "add"} =>
          \A p \in dr'[c].ids : \A r \in Entries' : r.prize = dr'[c].prize => r.part # p
    BY <2>3 DEF Alone
  <2>. QED
    BY <2>1, <2>2, <2>4 DEF RepeatInv, Free
<1>3. ASSUME NEW d \in Drawers, NEW W \in SUBSET Participants, LuaPop(d, W)
      PROVE  RepeatInv'
  <2>. DEFINE k == dr[d].key
              z == dr[d].prize
  <2>1. /\ k \in Keys /\ z \in Prizes
        /\ Hand(dr'[d]) = {Row(k, p, z) : p \in W}
        /\ dr'[d].pc = "views"
        /\ W \subseteq pool[z] /\ \A y \in Prizes : pool'[y] \subseteq pool[y]
        /\ UNCHANGED <<won, failures>>
    BY <1>3, PopHand
  <2>2. \A r \in Entries' : r \in Entries \/ \E p \in W : r = Row(k, p, z)
    BY <2>1, InBook DEF Entries, Alone
  <2>3. \A p \in W : Free(p, z)
    BY <2>1 DEF RepeatInv
  <2>. HIDE DEF k, z
  <2>4. \A r, s \in Entries' : r.part = s.part /\ r.prize = s.prize => r.key = s.key
    BY <2>2, <2>3 DEF RepeatInv, NoRepeat, Entries, Free, Row
  <2>5. \A y \in Prizes : \A p \in pool'[y] : Free(p, y)'
    <3>. SUFFICES ASSUME NEW y \in Prizes, NEW p \in pool'[y], NEW r \in Entries',
                         r.prize = y, r.part = p
                  PROVE  FALSE
      BY DEF Free
    <3>1. p \in pool[y] /\ Free(p, y)
      BY <2>1 DEF RepeatInv
    <3>2. PICK q \in W : r = Row(k, q, z)
      BY <2>2, <3>1 DEF Free
    <3>3. y = z /\ p \in W
      BY <3>2 DEF Row
    <3>4. p \notin pool'[z]
      BY <1>3, <2>1, <3>3 DEF LuaPop, TInv, TypeInv, TypeOK, z
    <3>. QED  BY <3>3, <3>4
  <2>6. \A c \in Drawers : dr'[c].pc \notin {"del", "add"}
    BY <2>1 DEF Alone
  <2>. QED  BY <2>4, <2>5, <2>6 DEF RepeatInv, NoRepeat, Entries
<1>. QED  BY <1>1, <1>2, <1>3, StepKinds, RequestQuiet

\* While requests come one at a time, no interleaving with undos, edits and the
\* worker, and no failure, lets a person hold one prize through two batches.
THEOREM OnePrizeOnce == ASSUME Alone PROVE Spec => []NoRepeat
<1>1. TInv /\ BatchInv /\ RepeatInv /\ [Next]_vars => RepeatInv'
  BY RepeatStep
<1>2. RepeatInv => NoRepeat
  BY DEF RepeatInv
<1>. QED  BY <1>1, <1>2, InitRepeat, OneBatch, PTL DEF Spec

-----------------------------------------------------------------------------
(* Quotas, where an insert that reports an error has left its row.         *)

NoLostInsert == "insert" \notin Faults

\* What waits in persist_failures has a row already, won or undone: to replay it
\* changes nothing.
RecordInv ==
  /\ \A r \in failures : Recorded(r.key, r.part)
  /\ \A d \in Drawers : dr[d].pc = "compensate" => Recorded(dr[d].key, dr[d].cur)

LEMMA InitRecord == Init => RecordInv
BY DEF Init, RecordInv, DrawIdle

\* Rows of draw_records change their status and never go away.
LEMMA RowsStay ==
  ASSUME TInv, BatchInv, [Next]_vars
  PROVE  \A r \in won \cup undone : r \in won' \cup undone'
<1>. USE DEF redis, mysql
<1>1. ASSUME NEW u \in Undoers, UndoMark(u) PROVE \A r \in won : r \in won' \cup undone'
  BY <1>1 DEF UndoMark
<1>2. CASE Aside
  <2>1. (won \subseteq won' \/ \E u \in Undoers : UndoMark(u)) /\ undone \subseteq undone'
    BY <1>2 DEF Aside, UndoLua, UndoStep, UndoMark, UndoBump, AbortUndo, ImportRow,
          DeleteCheck, DeleteRow, EditBump, AbortEdit, WorkerStep, WorkerInsert,
          InsertDraw, WorkerResolve, AbortWorker, vars
  <2>. QED  BY <1>1, <2>1
<1>3. ASSUME NEW d \in Drawers, Quiet(d) PROVE \A r \in won \cup undone : r \in won' \cup undone'
  BY <1>3 DEF Quiet
<1>4. ASSUME NEW d \in Drawers, NEW W \in SUBSET Participants, LuaPop(d, W)
      PROVE  \A r \in won \cup undone : r \in won' \cup undone'
  BY <1>4 DEF LuaPop
<1>. QED  BY <1>2, <1>3, <1>4, StepKinds, RequestQuiet

\* Without lost inserts, only a compensation adds to persist_failures, and its
\* winner has a row.
LEMMA RecordStep ==
  ASSUME TInv, BatchInv, RecordInv, NoLostInsert, [Next]_vars
  PROVE  RecordInv'
<1>. DEFINE Rec(k, p)  == \E r \in won \cup undone : r.key = k /\ r.part = p
            Rec1(k, p) == \E r \in won' \cup undone' : r.key = k /\ r.part = p
<1>. USE DEF redis, mysql
<1>a. \A k, p : Rec(k, p) => Rec1(k, p)
  BY RowsStay
<1>b. /\ \A r \in failures : Rec(r.key, r.part)
      /\ \A d \in Drawers : dr[d].pc = "compensate" => Rec(dr[d].key, dr[d].cur)
  BY DEF RecordInv, Recorded
<1>. SUFFICES /\ \A r \in failures' : Rec1(r.key, r.part)
              /\ \A d \in Drawers : dr'[d].pc = "compensate" => Rec1(dr'[d].key, dr'[d].cur)
  BY DEF RecordInv, Recorded
<1>c. \A k, p, z : InsertDraw(k, p, z) /\ UNCHANGED undone => Rec1(k, p)
  BY InsertRecords DEF Recorded
<1>. HIDE DEF Rec, Rec1
<1>1. CASE Aside
  <2>1. UNCHANGED dr /\ failures' \subseteq failures
    BY <1>1 DEF Aside, UndoLua, UndoStep, UndoMark, UndoBump, AbortUndo, ImportRow,
          DeleteCheck, DeleteRow, EditBump, AbortEdit, WorkerStep, WorkerInsert,
          WorkerResolve, AbortWorker, vars
  <2>. QED  BY <1>a, <1>b, <2>1
<1>2. ASSUME NEW d \in Drawers, NEW W \in SUBSET Participants, LuaPop(d, W)
      PROVE  /\ \A r \in failures' : Rec1(r.key, r.part)
             /\ \A c \in Drawers : dr'[c].pc = "compensate" => Rec1(dr'[c].key, dr'[c].cur)
  <2>1. /\ UNCHANGED failures /\ dr'[d].pc = "views"
        /\ \A c \in Drawers : c # d => dr'[c] = dr[c]
    BY <1>2, PopHand
  <2>. QED  BY <1>a, <1>b, <2>1
<1>3. ASSUME NEW d \in Drawers, Quiet(d), OnlyFailing(d),
             \/ \E z \in Prizes, k \in Keys : DrawRequest(d, z, k)
             \/ DrawStep(d) \/ AbortDraw(d)
      PROVE  /\ \A r \in failures' : Rec1(r.key, r.part)
             /\ \A c \in Drawers : dr'[c].pc = "compensate" => Rec1(dr'[c].key, dr'[c].cur)
  <2>1. ASSUME UNCHANGED failures PROVE \A r \in failures' : Rec1(r.key, r.part)
    BY <1>a, <1>b, <2>1
  <2>2. ASSUME Compensate(d) PROVE \A r \in failures' : Rec1(r.key, r.part)
    <3>1. Rec(dr[d].key, dr[d].cur)
      BY <1>b, <2>2 DEF Compensate
    <3>2. \A r \in failures' : r \in failures \/ r = Row(dr[d].key, dr[d].cur, dr[d].prize)
      BY <2>2 DEF Compensate
    <3>. DEFINE row == Row(dr[d].key, dr[d].cur, dr[d].prize)
    <3>3. Rec(row.key, row.part)
      BY <3>1 DEF Row
    <3>4. \A r \in failures' : Rec(r.key, r.part)
      BY <1>b, <3>2, <3>3
    <3>. QED  BY <1>a, <3>4
  <2>3. UNCHANGED failures \/ Compensate(d)
    <3>1. ASSUME NEW z \in Prizes, NEW k \in Keys, DrawRequest(d, z, k) PROVE UNCHANGED failures
      BY <3>1 DEF DrawRequest
    <3>2. ASSUME DrawStep(d) PROVE UNCHANGED failures \/ Compensate(d)
      BY <3>2 DEF DrawStep, ReadRosterVersion, LuaReplay, LuaClosed, LuaStale,
            LuaInsufficient, LuaPop, QueryEligible, RebuildDel, RebuildAdd, RebuildMark,
            LoadWinners, PersistOk, PersistFail, IssueRedeem, DrawReturn
    <3>3. ASSUME AbortDraw(d) PROVE UNCHANGED failures
      BY <3>3 DEF AbortDraw
    <3>. QED  BY <1>3, <3>1, <3>2, <3>3
  <2>4. ASSUME NEW p \in Participants, PersistFail(d, p)
        PROVE  Rec1(dr'[d].key, dr'[d].cur)
    <3>. DEFINE s == [dr[d] EXCEPT !.pc = "compensate", !.cur = p]
    <3>1. dr'[d] = s /\ InsertDraw(dr[d].key, p, dr[d].prize) /\ UNCHANGED undone
      BY <2>4 DEF PersistFail, NoLostInsert, Become, TInv, TypeInv, TypeOK
    <3>2. s.key = dr[d].key /\ s.cur = p
      BY DEF TInv, TypeInv, TypeOK, DrawRec
    <3>. HIDE DEF s
    <3>. QED  BY <1>c, <3>1, <3>2
  <2>5. ASSUME NEW c \in Drawers, dr'[c].pc = "compensate"
        PROVE  Rec1(dr'[c].key, dr'[c].cur)
    <3>1. CASE c = d
      BY <1>3, <2>4, <2>5, <3>1 DEF OnlyFailing
    <3>2. CASE c # d
      BY <1>3, <1>a, <1>b, <2>5, <3>2 DEF Quiet
    <3>. QED  BY <3>1, <3>2
  <2>. QED  BY <2>1, <2>2, <2>3, <2>5
<1>4. ASSUME NEW d \in Drawers,
             \/ \E z \in Prizes, k \in Keys : DrawRequest(d, z, k)
             \/ DrawStep(d) \/ AbortDraw(d),
             \A W \in SUBSET Participants : ~LuaPop(d, W)
      PROVE  Quiet(d) /\ OnlyFailing(d)
  BY <1>4, RequestQuiet, DrawQuiet
<1>. QED  BY <1>1, <1>2, <1>3, <1>4 DEF Next, Aside

\* A batch of people makes as many rows as people, at the most.
LEMMA HandCard ==
  ASSUME NEW W \in SUBSET Participants, NEW k, NEW z
  PROVE  LET H == {Row(k, p, z) : p \in W}
         IN IsFiniteSet(H) /\ Cardinality(H) <= Cardinality(W)
<1>. DEFINE H == {Row(k, p, z) : p \in W}
            f == [p \in W |-> Row(k, p, z)]
<1>1. IsFiniteSet(W)
  BY FS_Subset, LiveAssumption
<1>2. f \in Surjection(W, H)
  BY DEF Surjection
<1>. HIDE DEF f, H
<1>3. IsFiniteSet(H) /\ Cardinality(H) <= Cardinality(W)
  BY <1>1, <1>2, FS_Surjection
<1>. QED  BY <1>3 DEF H

LEMMA BookFinite == ASSUME TInv, Alone PROVE IsFiniteSet(Book)
<1>1. IsFiniteSet(won)
  BY DEF TInv, TypeInv
<1>2. CASE Drawers = {}
  <2>1. Book = won
    BY <1>2, InBook
  <2>. QED  BY <1>1, <2>1
<1>3. ASSUME NEW d \in Drawers PROVE IsFiniteSet(Book)
  <2>1. InHand(dr[d]) \in SUBSET Participants
    BY DEF TInv, TypeInv, TypeOK, DrawRec, InHand
  <2>2. IsFiniteSet(Hand(dr[d]))
    BY <2>1, HandCard DEF Hand
  <2>3. \A r \in Book : r \in won \cup Hand(dr[d])
    BY InBook DEF Alone
  <2>4. IsFiniteSet(won \cup Hand(dr[d]))
    BY <1>1, <2>2, FS_Union
  <2>. QED  BY <2>3, <2>4, FS_Subset
<1>. QED  BY <1>2, <1>3

\* Others make no new holder, and of draw_records they take only what an undo
\* covers.
LEMMA AsideBook ==
  ASSUME TInv, BatchInv, RecordInv, Aside
  PROVE  /\ won' \subseteq won /\ Book' \subseteq Book
         /\ \/ Book' = Book
            \/ \E u \in Undoers :
                 UndoMark(u) /\ \A r \in Book \ Book' : r.key \in Covers[ud[u].key]
<1>. USE DEF redis, mysql
<1>1. UNCHANGED dr
  BY AsideEntries
<1>2. ASSUME NEW r \in Rows, WorkerInsert(r) PROVE UNCHANGED won
  <2>1. RowExists(r.key, r.part)
    BY <1>2 DEF WorkerInsert, RecordInv, Recorded, RowExists
  <2>. QED  BY <1>2, <2>1 DEF WorkerInsert, InsertDraw
<1>3. ASSUME NEW u \in Undoers, UndoMark(u)
      PROVE  won' \subseteq won /\ \A r \in won \ won' : r.key \in Covers[ud[u].key]
  BY <1>3 DEF UndoMark
<1>4. UNCHANGED won \/ \E u \in Undoers : UndoMark(u)
  <2>1. \/ UNCHANGED won \/ \E r \in Rows : WorkerInsert(r)
        \/ \E u \in Undoers : UndoMark(u)
    BY DEF Aside, UndoLua, UndoStep, UndoBump, AbortUndo, ImportRow, DeleteCheck,
           DeleteRow, EditBump, AbortEdit, WorkerStep, WorkerResolve, AbortWorker, vars
  <2>. QED  BY <1>2, <2>1
<1>5. won' \subseteq won
  BY <1>3, <1>4
<1>6. /\ Book' \subseteq Book
      /\ \A r \in Book \ Book' : r \in won \ won'
      /\ UNCHANGED won => Book' = Book
  BY <1>1, <1>5, InBook
<1>. QED  BY <1>3, <1>4, <1>5, <1>6

\* The places that are left are enough for the batch that is to be drawn.
QuotaInv ==
  /\ NoOversell
  /\ \A d \in Drawers : dr[d].pc \in PrePop =>
       /\ dr[d].count <= PerRound[dr[d].prize]
       /\ dr[d].count <= Remaining(dr[d].prize)

\* Fewer rows leave more places.
LEMMA RemainingGrows ==
  ASSUME TInv, won' \subseteq won, NEW z \in Prizes
  PROVE  Remaining(z)' \in Int /\ Remaining(z) \in Int /\ Remaining(z) <= Remaining(z)'
<1>1. IsFiniteSet(Winners(z)) /\ Winners(z)' \subseteq Winners(z)
  BY FS_Subset DEF TInv, TypeInv, Winners
<1>2. /\ IsFiniteSet(Winners(z)') /\ Cardinality(Winners(z)') <= Cardinality(Winners(z))
      /\ Cardinality(Winners(z)') \in Nat /\ Cardinality(Winners(z)) \in Nat
  BY <1>1, FS_Subset, FS_CardinalityType
<1>. QED  BY <1>2, LiveAssumption DEF Remaining

LEMMA FewerHolders ==
  ASSUME TInv, Alone, Book' \subseteq Book, NoOversell
  PROVE  NoOversell'
<1>. SUFFICES ASSUME NEW z \in Prizes
              PROVE  Cardinality({r \in Book' : r.prize = z}) <= Stock[z]
  BY DEF NoOversell
<1>. DEFINE old == {r \in Book : r.prize = z}
            new == {r \in Book' : r.prize = z}
<1>1. IsFiniteSet(old) /\ new \subseteq old
  BY BookFinite, FS_Subset
<1>2. Cardinality(old) <= Stock[z] /\ Stock[z] \in Nat
  BY LiveAssumption DEF NoOversell
<1>. HIDE DEF old, new
<1>3. /\ Cardinality(new) <= Cardinality(old)
      /\ Cardinality(new) \in Nat /\ Cardinality(old) \in Nat
  BY <1>1, FS_Subset, FS_CardinalityType
<1>4. Cardinality(new) <= Stock[z]
  BY <1>2, <1>3
<1>. QED  BY <1>4 DEF new

\* When the request has nothing in hand, the book is draw_records.
LEMMA EmptyHand ==
  ASSUME Alone, NEW d \in Drawers, dr[d].pc \in PrePop \cup {"idle", "replied"}
  PROVE  Book = won
<1>1. \A p \in InHand(dr[d]) : FALSE
  BY DEF PrePop, InHand, OwnerState, Writing
<1>2. \A r : r \in Book <=> r \in won
  BY <1>1, InBook DEF Alone, Hand
<1>. QED  BY <1>2

\* The pop makes no more holders than there are places.
LEMMA PopQuota ==
  ASSUME Alone, TInv, BatchInv, QuotaInv, NEW d \in Drawers,
         NEW W \in SUBSET Participants, LuaPop(d, W)
  PROVE  LET k == dr[d].key
             z == dr[d].prize
         IN /\ Book' = Book \cup {Row(k, p, z) : p \in W}
            /\ Cardinality({r \in Book : r.prize = z}) + Cardinality(W) <= Stock[z]
            /\ NoOversell'
<1>. DEFINE k == dr[d].key
            z == dr[d].prize
            H == {Row(k, p, z) : p \in W}
            old(y) == {r \in Book : r.prize = y}
            new(y) == {r \in Book' : r.prize = y}
<1>1. /\ z \in Prizes /\ Hand(dr'[d]) = H /\ dr[d].pc \in PrePop /\ UNCHANGED won
  BY PopHand
<1>2. Book = won
  BY <1>1, EmptyHand
<1>3. Book' = Book \cup H
  <2>1. \A r : r \in Book' <=> r \in Book \/ r \in H
    BY <1>1, <1>2, InBook DEF Alone
  <2>. QED  BY <2>1
<1>4. Cardinality(W) <= Remaining(z)
  BY <1>1 DEF QuotaInv, LuaPop
<1>5. IsFiniteSet(W) /\ IsFiniteSet(H) /\ Cardinality(H) <= Cardinality(W)
  <2>1. IsFiniteSet(W)
    BY FS_Subset, LiveAssumption
  <2>2. IsFiniteSet(H) /\ Cardinality(H) <= Cardinality(W)
    BY HandCard
  <2>. QED  BY <2>1, <2>2
<1>6. old(z) = Winners(z)
  BY <1>2 DEF Winners
<1>7. \A y \in Prizes : IsFiniteSet(old(y)) /\ Cardinality(old(y)) <= Stock[y]
  BY BookFinite, FS_Subset DEF QuotaInv, NoOversell
<1>8. /\ Cardinality(W) \in Nat /\ Cardinality(H) \in Nat /\ Cardinality(old(z)) \in Nat
      /\ Stock[z] \in Nat
  BY <1>1, <1>5, <1>7, FS_CardinalityType, LiveAssumption
<1>9. Cardinality(old(z)) + Cardinality(W) <= Stock[z]
  <2>1. Cardinality(W) <= Stock[z] - Cardinality(old(z))
    BY <1>4, <1>6 DEF Remaining
  <2>. HIDE DEF k, z, H, old, new
  <2>. QED  BY <2>1, <1>8
<1>10. \A r \in H : r.prize = z
  BY DEF Row
<1>11. new(z) = old(z) \cup H /\ \A y : y # z => new(y) = old(y)
  BY <1>3, <1>10
<1>. HIDE DEF k, z, H, old, new
<1>12. /\ IsFiniteSet(old(z) \cap H)
       /\ Cardinality(new(z)) = Cardinality(old(z)) + Cardinality(H) - Cardinality(old(z) \cap H)
  BY <1>1, <1>5, <1>7, <1>11, FS_Union, FS_Subset
<1>13. Cardinality(old(z) \cap H) \in Nat
  BY <1>12, FS_CardinalityType
<1>14. Cardinality(new(z)) <= Stock[z]
  BY <1>5, <1>8, <1>9, <1>12, <1>13
<1>15. \A y \in Prizes : Cardinality(new(y)) <= Stock[y]
  BY <1>7, <1>11, <1>14
<1>. QED  BY <1>3, <1>9, <1>15 DEF k, z, H, old, new, NoOversell

LEMMA InitQuota == Init => QuotaInv
<1>. SUFFICES ASSUME Init PROVE QuotaInv
  OBVIOUS
<1>1. \A d \in Drawers : dr[d].pc = "idle" /\ \A p \in InHand(dr[d]) : FALSE
  BY DEF Init, DrawIdle, InHand, OwnerState, Writing
<1>2. \A z \in Prizes : {r \in Book : r.prize = z} = {}
  BY <1>1, InBook DEF Init, Hand
<1>3. Cardinality({}) = 0 /\ \A z \in Prizes : 0 <= Stock[z]
  BY FS_EmptySet, LiveAssumption
<1>4. NoOversell
  BY <1>2, <1>3 DEF NoOversell
<1>. QED  BY <1>1, <1>4 DEF QuotaInv, PrePop

LEMMA QuotaStep ==
  ASSUME Alone, TInv, BatchInv, RecordInv, QuotaInv, [Next]_vars
  PROVE  QuotaInv'
<1>1. CASE Aside
  <2>1. won' \subseteq won /\ Book' \subseteq Book /\ UNCHANGED dr
    BY <1>1, AsideBook, AsideEntries
  <2>2. NoOversell'
    BY <2>1, FewerHolders DEF QuotaInv
  <2>3. ASSUME NEW d \in Drawers, dr[d].pc \in PrePop
        PROVE  dr[d].count \in Nat /\ dr[d].prize \in Prizes
    BY <2>3 DEF TInv, TypeInv, TypeOK, LocalInv, LocalOK, DrawRec, PrePop
  <2>4. ASSUME NEW d \in Drawers, dr[d].pc \in PrePop
        PROVE  dr[d].count <= Remaining(dr[d].prize)'
    <3>1. dr[d].count <= Remaining(dr[d].prize)
      BY <2>4 DEF QuotaInv
    <3>. QED  BY <2>1, <2>3, <2>4, <3>1, RemainingGrows
  <2>. QED  BY <2>1, <2>2, <2>4 DEF QuotaInv
<1>2. ASSUME NEW d \in Drawers, NEW W \in SUBSET Participants, LuaPop(d, W)
      PROVE  QuotaInv'
  <2>1. NoOversell' /\ dr'[d].pc = "views"
    BY <1>2, PopQuota, PopHand
  <2>2. \A c \in Drawers : dr'[c].pc \notin PrePop
    BY <2>1 DEF Alone, PrePop
  <2>. QED  BY <2>1, <2>2 DEF QuotaInv
<1>3. ASSUME NEW d \in Drawers, Quiet(d), SameSize(d) PROVE QuotaInv'
  <2>1. NoOversell'
    BY <1>3, QuietBook, FewerHolders DEF QuotaInv
  <2>2. ASSUME dr'[d].pc \in PrePop
        PROVE  /\ dr'[d].prize = dr[d].prize /\ dr'[d].count = dr[d].count
               /\ dr[d].pc \in PrePop /\ UNCHANGED won
    <3>1. dr[d].pc \in PrePop
      BY <1>3, <2>2 DEF SameSize
    <3>2. \A p \in InHand(dr[d]) : FALSE
      BY <3>1 DEF PrePop, InHand, OwnerState, Writing
    <3>3. Hand(dr[d]) = {}
      BY <3>2 DEF Hand
    <3>. QED  BY <1>3, <2>2, <3>1, <3>3 DEF SameSize, Quiet
  <2>3. \A c \in Drawers : (dr'[c].pc \in PrePop =>
          /\ dr'[c].count <= PerRound[dr'[c].prize]
          /\ dr'[c].count <= Stock[dr'[c].prize]
                              - Cardinality({r \in won' : r.prize = dr'[c].prize}))
    BY <2>2 DEF Alone, QuotaInv, Remaining, Winners
  <2>. QED  BY <2>1, <2>3 DEF QuotaInv, Remaining, Winners
<1>4. ASSUME NEW d \in Drawers, NEW z \in Prizes, NEW k \in Keys, DrawRequest(d, z, k)
      PROVE  QuotaInv'
  <2>1. /\ Quiet(d)
        /\ dr'[d].pc \in PrePop =>
             /\ dr'[d].prize = z
             /\ dr'[d].count <= PerRound[z] /\ dr'[d].count <= Remaining(z)
    BY <1>4, RequestQuiet
  <2>2. NoOversell'
    BY <2>1, QuietBook, FewerHolders DEF QuotaInv
  <2>3. UNCHANGED won
    BY <1>4 DEF DrawRequest, mysql
  <2>4. \A c \in Drawers : (dr'[c].pc \in PrePop =>
          /\ dr'[c].count <= PerRound[dr'[c].prize]
          /\ dr'[c].count <= Stock[dr'[c].prize]
                              - Cardinality({r \in won' : r.prize = dr'[c].prize}))
    BY <2>1, <2>3 DEF Alone, Remaining, Winners
  <2>. QED  BY <2>2, <2>4 DEF QuotaInv, Remaining, Winners
<1>. QED  BY <1>1, <1>2, <1>3, <1>4, StepKinds

LEMMA AloneInv == ASSUME Alone, NoLostInsert
                  PROVE  Spec => [](TInv /\ BatchInv /\ RepeatInv /\ RecordInv /\ QuotaInv)
<1>1. TInv /\ BatchInv /\ RepeatInv /\ [Next]_vars => RepeatInv'
  BY RepeatStep
<1>2. TInv /\ BatchInv /\ RecordInv /\ [Next]_vars => RecordInv'
  BY RecordStep
<1>3. TInv /\ BatchInv /\ RecordInv /\ QuotaInv /\ [Next]_vars => QuotaInv'
  BY QuotaStep
<1>. QED
  BY <1>1, <1>2, <1>3, InitRepeat, InitRecord, InitQuota, OneBatch, PTL DEF Spec

\* While requests come one at a time and an insert that reports an error has
\* left its row, no more people hold a prize than it has places, whatever is
\* undone, edited, replayed or given up meanwhile.
THEOREM WithinStock == ASSUME Alone, NoLostInsert PROVE Spec => []NoOversell
<1>1. QuotaInv => NoOversell
  BY DEF QuotaInv
<1>. QED  BY <1>1, AloneInv, PTL

-----------------------------------------------------------------------------
(* The draw implements the book.                                           *)

\* An undo that is about to mark rows has marked its key.
VoidInv == \A u \in Undoers : ud[u].pc = "mark" => ud[u].key \in Void

LEMMA InitVoid == Init => VoidInv
BY DEF Init, VoidInv, UndoIdle

LEMMA VoidStep ==
  ASSUME TInv, BatchInv, VoidInv, [Next]_vars
  PROVE  VoidInv'
<1>. SUFFICES ASSUME NEW u \in Undoers, ud'[u].pc = "mark"
              PROVE  ud'[u].key \in Void'
  BY DEF VoidInv
<1>1. \/ ud'[u] = ud[u]
      \/ \E k \in Keys : UndoLua(u, k)
  <2>. USE DEF TInv, TypeInv, TypeOK
  <2>1. ASSUME NEW v \in Undoers, NEW k \in Keys, UndoLua(v, k), v # u
        PROVE  ud'[u] = ud[u]
    BY <2>1 DEF UndoLua
  <2>2. ASSUME NEW v \in Undoers, UndoStep(v) \/ AbortUndo(v)
        PROVE  ud'[u] = ud[u]
    BY <2>2 DEF UndoStep, UndoMark, UndoBump, AbortUndo, UndoIdle
  <2>3. ASSUME NEW d \in Drawers,
               \/ \E z \in Prizes, k \in Keys : DrawRequest(d, z, k)
               \/ DrawStep(d) \/ AbortDraw(d)
        PROVE  UNCHANGED ud
    BY <2>3 DEF DrawRequest, DrawStep, ReadRosterVersion, LuaReplay, LuaClosed, LuaStale,
         LuaInsufficient, LuaPop, QueryEligible, RebuildDel, RebuildAdd, RebuildMark,
         LoadWinners, PersistOk, PersistFail, Compensate, IssueRedeem, DrawReturn, AbortDraw
  <2>4. ASSUME NEW e \in Editors,
               \/ \E p \in Participants : ImportRow(e, p) \/ DeleteCheck(e, p)
               \/ DeleteRow(e) \/ EditBump(e) \/ AbortEdit(e)
        PROVE  UNCHANGED ud
    BY <2>4 DEF ImportRow, DeleteCheck, DeleteRow, EditBump, AbortEdit
  <2>5. ASSUME WorkerStep \/ AbortWorker \/ UNCHANGED vars
        PROVE  UNCHANGED ud
    BY <2>5 DEF WorkerStep, WorkerInsert, WorkerResolve, AbortWorker, vars
  <2>. QED  BY <2>1, <2>2, <2>3, <2>4, <2>5 DEF Next
<1>2. CASE ud'[u] = ud[u]
  <2>1. ud[u].key \in Keys /\ idemp[ud[u].key].state = "undone"
    BY <1>2 DEF VoidInv, Void
  <2>. QED  BY <1>2, <2>1, KeyStep DEF Void
<1>3. ASSUME NEW k \in Keys, UndoLua(u, k) PROVE ud'[u].key \in Void'
  BY <1>3 DEF UndoLua, Void, TInv, TypeInv, TypeOK
<1>. QED  BY <1>1, <1>2, <1>3

LEMMA BookInit == Init => Abstract!Init
<1>. SUFFICES ASSUME Init PROVE Abstract!Init
  OBVIOUS
<1>1. \A d \in Drawers : \A p \in InHand(dr[d]) : FALSE
  BY DEF Init, DrawIdle, InHand, OwnerState, Writing
<1>2. Book = {} /\ Spent = {} /\ Void = {}
  BY <1>1, InBook DEF Init, Hand, Spent, Void, Fresh
<1>. QED  BY <1>2 DEF Abstract!Init

\* A step of the others orders an undo, carries one out, or is a stutter.
LEMMA AsideOnBook ==
  ASSUME TInv, BatchInv, RecordInv, VoidInv, Aside
  PROVE  [Abstract!Next]_<<Book, Spent, Void>>
<1>. USE DEF redis, mysql
<1>1. Spent' = Spent
  BY AsideEntries DEF Spent
<1>2. ASSUME NEW u \in Undoers, NEW k \in Keys, UndoLua(u, k)
      PROVE  [Abstract!Next]_<<Book, Spent, Void>>
  <2>1. UNCHANGED <<won, dr>>
    BY <1>2 DEF UndoLua
  <2>2. Book' = Book
    BY <2>1, InBook
  <2>3. Void' = Void \cup {k} /\ k \in Spent
    BY <1>2 DEF UndoLua, IdempHit, Void, Spent, BatchInv, KeyOK, NoBatch, TInv, TypeInv,
                TypeOK
  <2>4. k \notin Void => Abstract!Order(k)
    BY <1>1, <2>2, <2>3 DEF Abstract!Order
  <2>. QED  BY <1>1, <2>2, <2>3, <2>4 DEF Abstract!Next
<1>3. ASSUME \A u \in Undoers, k \in Keys : ~UndoLua(u, k)
      PROVE  [Abstract!Next]_<<Book, Spent, Void>>
  <2>1. UNCHANGED idemp
    BY <1>3 DEF Aside, UndoStep, UndoMark, UndoBump, AbortUndo, ImportRow, DeleteCheck,
           DeleteRow, EditBump, AbortEdit, WorkerStep, WorkerInsert, WorkerResolve,
           AbortWorker, vars
  <2>2. Void' = Void
    BY <2>1 DEF Void
  <2>3. ASSUME NEW u \in Undoers, UndoMark(u), Book' \subseteq Book, Book' # Book,
               \A r \in Book \ Book' : r.key \in Covers[ud[u].key]
        PROVE  Abstract!Next
    <3>1. ud[u].key \in Void /\ ud[u].key \in Keys
      BY <2>3 DEF VoidInv, Void, UndoMark
    <3>2. Abstract!Undo(ud[u].key)
      BY <1>1, <2>2, <2>3, <3>1 DEF Abstract!Undo, Abstract!Shrink
    <3>. QED  BY <3>1, <3>2 DEF Abstract!Next
  <2>. QED  BY <1>1, <2>2, <2>3, AsideBook
<1>. QED  BY <1>2, <1>3

LEMMA BookStep ==
  ASSUME Alone, TInv, BatchInv, RepeatInv, RecordInv, QuotaInv, VoidInv, [Next]_vars
  PROVE  [Abstract!Next]_<<Book, Spent, Void>>
<1>1. CASE Aside
  BY <1>1, AsideOnBook
<1>2. ASSUME NEW d \in Drawers, Quiet(d), UNCHANGED idemp
      PROVE  [Abstract!Next]_<<Book, Spent, Void>>
  <2>1. /\ Book' \subseteq Book /\ Spent' = Spent /\ Void' = Void
        /\ \A r \in Book \ Book' : r.key = dr[d].key
    BY <1>2, QuietBook DEF Quiet, Spent, Void
  <2>2. CASE Book' # Book
    <3>1. Hand(dr[d]) # {}
      BY <1>2, <2>2, <2>1, InBook DEF Quiet, Alone
    <3>2. ~dr[d].dup /\ dr[d].pc \in {"views"} \cup Writing
      BY <3>1 DEF Hand, InHand, OwnerState
    <3>3. dr[d].key \in Keys /\ batch[dr[d].key] # NoBatch
      BY <3>2 DEF BatchInv, DrawOK, NoBatch
    <3>4. Abstract!Lose(dr[d].key)
      BY <2>1, <2>2, <3>3 DEF Abstract!Lose, Abstract!Shrink, Spent
    <3>. QED  BY <3>3, <3>4 DEF Abstract!Next
  <2>. QED  BY <2>1, <2>2
<1>3. ASSUME NEW d \in Drawers, NEW W \in SUBSET Participants, LuaPop(d, W)
      PROVE  [Abstract!Next]_<<Book, Spent, Void>>
  <2>. DEFINE k == dr[d].key
              z == dr[d].prize
  <2>1. /\ k \in Keys /\ z \in Prizes /\ dr[d].pc \in PrePop
        /\ W \subseteq pool[z]
    BY <1>3, PopHand
  <2>2. /\ Book' = Book \cup {Row(k, p, z) : p \in W}
        /\ Cardinality({r \in Book : r.prize = z}) + Cardinality(W) <= Stock[z]
    BY <1>3, PopQuota
  <2>3. k \notin Spent
    BY <1>3, <2>1 DEF BatchInv, KeyOK, LuaPop, IdempHit, Spent
  <2>4. Spent' = Spent \cup {k}
    <3>1. \A j \in Keys : batch'[j] = IF j = k THEN [prize |-> z, ids |-> W] ELSE batch[j]
      BY <1>3, <2>1 DEF LuaPop, TInv, TypeInv, TypeOK
    <3>2. [prize |-> z, ids |-> W] # NoBatch
      BY <2>1, LiveAssumption DEF NoBatch
    <3>. HIDE DEF k, z
    <3>. QED  BY <2>1, <3>1, <3>2 DEF Spent
  <2>v. Void' = Void
    BY <1>3, <2>1 DEF LuaPop, IdempHit, Void, TInv, TypeInv, TypeOK
  <2>5. Cardinality(W) = dr[d].count /\ dr[d].count >= 1 /\ dr[d].count <= PerRound[z]
    BY <1>3, <2>1 DEF LuaPop, BatchInv, DrawOK, QuotaInv
  <2>6. W # {}
    BY <2>5, FS_EmptySet
  <2>7. \A r \in {q \in Book : q.prize = z} : r.part \notin W
    BY <2>1 DEF RepeatInv, Free, Entries
  <2>8. {Row(k, p, z) : p \in W} = {[key |-> k, part |-> p, prize |-> z] : p \in W}
    BY DEF Row
  <2>. HIDE DEF k, z
  <2>9. Book' = Book \cup {[key |-> k, part |-> p, prize |-> z] : p \in W}
    BY <2>2, <2>8
  <2>10. Cardinality(W) <= PerRound[z]
    BY <2>1, <2>5, LiveAssumption DEF TInv, TypeInv, TypeOK, DrawRec
  <2>. DEFINE held == Abstract!Holders(z)
              H == {[key |-> k, part |-> p, prize |-> z] : p \in W}
  <2>11. held = {r \in Book : r.prize = z}
    BY DEF Abstract!Holders
  <2>12. Cardinality(held) + Cardinality(W) <= Stock[z] /\ \A r \in held : r.part \notin W
    BY <2>2, <2>7, <2>11
  <2>13. Book' = Book \cup H
    BY <2>9
  <2>c. \A S : Abstract!Cardinality(S) = Cardinality(S)
    BY DEF Abstract!Cardinality, Cardinality
  <2>. HIDE DEF held, H
  <2>14. Abstract!Grant(k, z, W)
    BY <2>3, <2>4, <2>v, <2>6, <2>10, <2>12, <2>13, <2>c DEF Abstract!Grant, held, H
  <2>. QED  BY <2>1, <2>14 DEF Abstract!Next
<1>4. \/ UNCHANGED idemp \/ Aside
      \/ \E d \in Drawers, W \in SUBSET Participants : LuaPop(d, W)
  BY IdempStep DEF Aside
<1>. QED  BY <1>1, <1>2, <1>3, <1>4, StepKinds, RequestQuiet

\* Under the same conditions the live draw does to draw_records, and to the
\* winners in hand, only what the book of the prizes allows: a batch is entered
\* once, for new holders and within the stock, and afterwards loses rows only
\* with its request or to the undo of a key whose pattern covers it.
THEOREM DrawIsBook == ASSUME Alone, NoLostInsert PROVE Spec => RefinesPrizeBook
<1>1. TInv /\ BatchInv /\ RepeatInv /\ RecordInv /\ QuotaInv /\ VoidInv
        /\ [Next]_vars => [Abstract!Next]_<<Book, Spent, Void>>
  BY BookStep
<1>2. TInv /\ BatchInv /\ VoidInv /\ [Next]_vars => VoidInv'
  BY VoidStep
<1>. QED
  BY <1>1, <1>2, InitVoid, BookInit, AloneInv, PTL DEF Spec, RefinesPrizeBook, Abstract!Spec

-----------------------------------------------------------------------------
(* A pool that is up to date follows the roster.                           *)

EveryBump == "nobump" \notin Faults

\* Nobody has been deleted whose deletion the version does not show yet.
NoneDeleting == \A e \in Editors : ed[e].pc # "bump"

\* A request rebuilds a pool that is older than the version it has read, and
\* marks what it finds with that version only if the pool holds just those who
\* were eligible.
RebuildOK(s) ==
  /\ s.pc \in PrePop \ {"version"} => s.ver <= ver
  /\ s.pc = "draw" => \A z \in Prizes : built[z] <= s.ver
  /\ s.pc \in {"eligible", "del", "add", "mark"} => built[s.prize] < s.ver
  /\ s.pc = "add" => pool[s.prize] = {}
  /\ s.pc = "mark" => pool[s.prize] \subseteq s.ids
  /\ s.pc \in {"del", "add", "mark"} /\ s.ver = ver /\ NoneDeleting => s.ids \subseteq Listed

PoolOK(z) ==
  /\ built[z] <= ver
  /\ built[z] = ver /\ NoneDeleting => pool[z] \subseteq Listed

PoolInv == /\ \A d \in Drawers : RebuildOK(dr[d])
           /\ \A z \in Prizes : PoolOK(z)

LEMMA InitPool == Init => PoolInv
BY DEF Init, PoolInv, RebuildOK, PoolOK, DrawIdle, PrePop, NotBuilt

LEMMA AsidePool ==
  ASSUME TInv, EveryBump, PoolInv, Aside
  PROVE  PoolInv'
<1>. USE DEF redis, mysql
<1>1. UNCHANGED <<pool, built, dr>>
  BY DEF Aside, UndoLua, UndoStep, UndoMark, UndoBump, AbortUndo, ImportRow, DeleteCheck,
         DeleteRow, EditBump, AbortEdit, WorkerStep, WorkerInsert, WorkerResolve,
         AbortWorker, vars
<1>2. /\ ver \in Nat /\ \A z \in Prizes : built[z] \in Int
      /\ \A d \in Drawers : dr[d].ver \in Nat /\ (dr[d].pc \in PrePop => dr[d].prize \in Prizes)
  BY DEF TInv, TypeInv, TypeOK, DrawRec, NotBuilt, LocalInv, LocalOK, PrePop
<1>3. CASE ver' = ver + 1
  <2>1. \A z \in Prizes : built[z] <= ver /\ built[z] <= ver' /\ built[z] # ver'
    BY <1>2, <1>3 DEF PoolInv, PoolOK
  <2>2. \A d \in Drawers : dr[d].pc \in PrePop \ {"version"} => dr[d].ver <= ver' /\ dr[d].ver # ver'
    BY <1>2, <1>3 DEF PoolInv, RebuildOK
  <2>3. \A d \in Drawers : RebuildOK(dr[d])'
    BY <1>1, <2>2 DEF PoolInv, RebuildOK, PrePop
  <2>. QED  BY <1>1, <2>1, <2>3 DEF PoolInv, PoolOK
<1>4. CASE ver' = ver /\ (NoneDeleting' => NoneDeleting /\ Listed \subseteq Listed')
  BY <1>1, <1>4 DEF PoolInv, PoolOK, RebuildOK
<1>5. ver' = ver + 1 \/ (ver' = ver /\ (NoneDeleting' => NoneDeleting /\ Listed \subseteq Listed'))
  <2>1. ASSUME UNCHANGED <<ver, roster, ed>>
        PROVE  ver' = ver /\ (NoneDeleting' => NoneDeleting /\ Listed \subseteq Listed')
    BY <2>1 DEF NoneDeleting, Listed
  <2>2. ASSUME NEW e \in Editors, NEW p \in Participants, ImportRow(e, p)
        PROVE  ver' = ver /\ (NoneDeleting' => NoneDeleting /\ Listed \subseteq Listed')
    <3>1. ver' = ver /\ Listed \subseteq Listed'
      BY <2>2 DEF ImportRow, Listed, TInv, TypeInv, TypeOK
    <3>2. \A f \in Editors : ed[f].pc = "bump" => ed'[f].pc = "bump"
      BY <2>2 DEF ImportRow, TInv, TypeInv, TypeOK
    <3>. QED  BY <3>1, <3>2 DEF NoneDeleting
  <2>3. ASSUME NEW e \in Editors, NEW p \in Participants, DeleteCheck(e, p)
        PROVE  ver' = ver /\ (NoneDeleting' => NoneDeleting /\ Listed \subseteq Listed')
    <3>1. ver' = ver /\ Listed \subseteq Listed'
      BY <2>3 DEF DeleteCheck, Listed
    <3>2. \A f \in Editors : ed[f].pc = "bump" => ed'[f].pc = "bump"
      BY <2>3 DEF DeleteCheck, TInv, TypeInv, TypeOK
    <3>. QED  BY <3>1, <3>2 DEF NoneDeleting
  <2>4. ASSUME NEW e \in Editors, DeleteRow(e)
        PROVE  ver' = ver /\ (NoneDeleting' => NoneDeleting /\ Listed \subseteq Listed')
    <3>1. CASE roster[ed[e].part] = "listed"
      <4>1. ed' = [ed EXCEPT ![e] = [pc |-> "bump", part |-> None]] /\ ver' = ver
        BY <2>4, <3>1 DEF DeleteRow
      <4>2. ed'[e].pc = "bump"
        BY <4>1 DEF TInv, TypeInv, TypeOK
      <4>. QED  BY <4>1, <4>2 DEF NoneDeleting
    <3>2. CASE roster[ed[e].part] # "listed"
      <4>1. ed' = [ed EXCEPT ![e] = EditIdle] /\ UNCHANGED <<ver, roster>> /\ ed[e].pc = "delete"
        BY <2>4, <3>2 DEF DeleteRow
      <4>2. \A f \in Editors : ed[f].pc = "bump" => ed'[f].pc = "bump"
        BY <4>1 DEF TInv, TypeInv, TypeOK
      <4>. QED  BY <4>1, <4>2 DEF NoneDeleting, Listed
    <3>. QED  BY <3>1, <3>2
  <2>5. \/ UNCHANGED <<ver, roster, ed>> \/ ver' = ver + 1
        \/ \E e \in Editors : DeleteRow(e)
        \/ \E e \in Editors, p \in Participants : ImportRow(e, p) \/ DeleteCheck(e, p)
    BY DEF Aside, UndoLua, UndoStep, UndoMark, UndoBump, AbortUndo, EditBump, AbortEdit,
           EveryBump, WorkerStep, WorkerInsert, WorkerResolve, AbortWorker, vars
  <2>. QED  BY <2>1, <2>2, <2>3, <2>4, <2>5
<1>. QED  BY <1>3, <1>4, <1>5

LEMMA DrawPool ==
  ASSUME TInv, BatchInv, Alone, PoolInv, NEW d \in Drawers,
         \/ \E z \in Prizes, k \in Keys : DrawRequest(d, z, k)
         \/ DrawStep(d) \/ AbortDraw(d)
  PROVE  PoolInv'
<1>. USE DEF redis, mysql
<1>a. dr[d] \in DrawRec /\ LocalOK(dr[d]) /\ RebuildOK(dr[d])
  BY DEF TInv, TypeInv, TypeOK, LocalInv, PoolInv
<1>b. UNCHANGED <<ver, roster, ed>>
  <2>1. ASSUME NEW z \in Prizes, NEW k \in Keys, DrawRequest(d, z, k)
        PROVE  UNCHANGED <<ver, roster, ed>>
    BY <2>1 DEF DrawRequest
  <2>2. ASSUME DrawStep(d) PROVE UNCHANGED <<ver, roster, ed>>
    BY <2>2 DEF DrawStep, ReadRosterVersion, LuaReplay, LuaClosed, LuaStale,
          LuaInsufficient, LuaPop, QueryEligible, RebuildDel, RebuildAdd, RebuildMark,
          LoadWinners, PersistOk, PersistFail, Compensate, IssueRedeem, DrawReturn
  <2>3. ASSUME AbortDraw(d) PROVE UNCHANGED <<ver, roster, ed>>
    BY <2>3 DEF AbortDraw
  <2>. QED  BY <2>1, <2>2, <2>3
<1>c. Listed' = Listed /\ NoneDeleting' = NoneDeleting /\ ver' = ver /\ ver \in Nat
  BY <1>b DEF Listed, NoneDeleting, TInv, TypeInv, TypeOK
<1>d. \A z \in Prizes : PoolOK(z) /\ built[z] \in Int
  BY DEF PoolInv, TInv, TypeInv, TypeOK, NotBuilt
<1>e. \A s : Become(d, s) => dr'[d] = s
  BY DEF Become, TInv, TypeInv, TypeOK
<1>f. ASSUME RebuildOK(dr[d])', \A z \in Prizes : PoolOK(z)' PROVE PoolInv'
  <2>1. \A c \in Drawers : dr'[c] = dr'[d]
    BY DEF Alone
  <2>. QED  BY <1>f, <2>1 DEF PoolInv, RebuildOK
<1>1. ASSUME dr'[d].pc \notin PrePop \ {"version"},
             UNCHANGED built, \A z \in Prizes : pool'[z] \subseteq pool[z]
      PROVE  PoolInv'
  <2>1. \A z \in Prizes : PoolOK(z)'
    BY <1>1, <1>c, <1>d DEF PoolOK
  <2>2. \A c \in Drawers : dr'[c].pc \notin PrePop \ {"version"}
    BY <1>1 DEF Alone
  <2>. QED  BY <2>1, <2>2 DEF PoolInv, RebuildOK, PrePop
<1>2. CASE ReadRosterVersion(d)
  <2>. DEFINE s == [dr[d] EXCEPT !.pc = "draw", !.ver = ver]
  <2>1. s.pc = "draw" /\ s.ver = ver
    BY <1>a DEF DrawRec
  <2>2. Become(d, s) /\ UNCHANGED <<built, pool>>
    BY <1>2 DEF ReadRosterVersion
  <2>. HIDE DEF s
  <2>e. dr'[d] = s
    BY <1>e, <2>2
  <2>3. \A z \in Prizes : PoolOK(z)'
    BY <1>c, <1>d, <2>2 DEF PoolOK
  <2>4. RebuildOK(dr[d])'
    BY <1>c, <1>d, <2>e, <2>1, <2>2 DEF RebuildOK, PoolOK
  <2>. QED  BY <1>f, <2>3, <2>4
<1>3. CASE LuaStale(d)
  <2>. DEFINE s == [dr[d] EXCEPT !.pc = "eligible"]
              t == [dr[d] EXCEPT !.pc = "replied", !.reply = "refused"]
  <2>1. /\ s.pc = "eligible" /\ s.ver = dr[d].ver /\ s.prize = dr[d].prize
        /\ t.pc = "replied"
    BY <1>a DEF DrawRec
  <2>2. /\ \/ Become(d, s) /\ dr[d].pc = "draw"
           \/ Become(d, t)
        /\ UNCHANGED <<built, pool>>
    BY <1>3 DEF LuaStale, Goto, Answer
  <2>. HIDE DEF s, t
  <2>3. CASE Become(d, t)
    BY <1>1, <1>e, <2>1, <2>2, <2>3 DEF PrePop
  <2>4. CASE Become(d, s) /\ dr[d].pc = "draw"
    <3>1. \A z \in Prizes : PoolOK(z)'
      BY <1>c, <1>d, <2>2 DEF PoolOK
    <3>2. dr[d].prize \in Prizes /\ built[dr[d].prize] # dr[d].ver /\ dr[d].ver \in Nat
      BY <1>3, <1>a DEF LuaStale, InScript, PoolCurrent, LocalOK, DrawRec
    <3>3. built[dr[d].prize] < dr[d].ver /\ dr[d].ver <= ver
      BY <1>a, <1>d, <2>4, <3>2 DEF RebuildOK, PrePop
    <3>4. RebuildOK(dr[d])'
      BY <1>c, <1>e, <2>1, <2>4, <2>2, <3>3 DEF RebuildOK
    <3>. QED  BY <1>f, <3>1, <3>4
  <2>. QED  BY <2>2, <2>3, <2>4
<1>4. CASE QueryEligible(d)
  <2>. DEFINE s == [dr[d] EXCEPT !.pc = "del", !.ids = Eligible(dr[d].prize)]
  <2>1. /\ s.pc = "del" /\ s.ver = dr[d].ver /\ s.prize = dr[d].prize
        /\ s.ids = Eligible(dr[d].prize)
    BY <1>a DEF DrawRec
  <2>2. Become(d, s) /\ UNCHANGED <<built, pool>> /\ dr[d].pc = "eligible"
    BY <1>4 DEF QueryEligible
  <2>. HIDE DEF s
  <2>e. dr'[d] = s
    BY <1>e, <2>2
  <2>3. \A z \in Prizes : PoolOK(z)'
    BY <1>c, <1>d, <2>2 DEF PoolOK
  <2>4. Eligible(dr[d].prize) \subseteq Listed
    BY DEF Eligible, Listed
  <2>5. RebuildOK(dr[d])'
    BY <1>a, <1>c, <2>e, <2>1, <2>2, <2>4 DEF RebuildOK, PrePop
  <2>. QED  BY <1>f, <2>3, <2>5
<1>5. CASE RebuildDel(d)
  <2>. DEFINE s == [dr[d] EXCEPT !.pc = "add"]
  <2>1. /\ s.pc = "add" /\ s.ver = dr[d].ver /\ s.prize = dr[d].prize
        /\ s.ids = dr[d].ids
    BY <1>a DEF DrawRec
  <2>2. Become(d, s) /\ UNCHANGED built /\ dr[d].pc = "del"
    BY <1>5 DEF RebuildDel, Goto
  <2>. HIDE DEF s
  <2>e. dr'[d] = s
    BY <1>e, <2>2
  <2>3. pool'[dr[d].prize] = {} /\ \A z \in Prizes : pool'[z] \subseteq pool[z]
    BY <1>5, <1>a DEF RebuildDel, LocalOK, TInv, TypeInv, TypeOK
  <2>4. \A z \in Prizes : PoolOK(z)'
    BY <1>c, <1>d, <2>2, <2>3 DEF PoolOK
  <2>5. RebuildOK(dr[d])'
    BY <1>a, <1>c, <2>e, <2>1, <2>2, <2>3 DEF RebuildOK, PrePop
  <2>. QED  BY <1>f, <2>4, <2>5
<1>6. CASE RebuildAdd(d)
  <2>. DEFINE s == [dr[d] EXCEPT !.pc = "mark"]
  <2>1. /\ s.pc = "mark" /\ s.ver = dr[d].ver /\ s.prize = dr[d].prize
        /\ s.ids = dr[d].ids
    BY <1>a DEF DrawRec
  <2>2. Become(d, s) /\ UNCHANGED built /\ dr[d].pc = "add"
    BY <1>6 DEF RebuildAdd, Goto
  <2>. HIDE DEF s
  <2>e. dr'[d] = s
    BY <1>e, <2>2
  <2>3. /\ pool'[dr[d].prize] = dr[d].ids
        /\ \A z \in Prizes : z # dr[d].prize => pool'[z] = pool[z]
    BY <1>a, <1>6 DEF RebuildAdd, RebuildOK, LocalOK, TInv, TypeInv, TypeOK
  <2>4. dr[d].prize \in Prizes /\ built[dr[d].prize] < ver
    BY <1>a, <1>c, <1>d, <2>2 DEF RebuildOK, PrePop, LocalOK, DrawRec
  <2>5. \A z \in Prizes : PoolOK(z)'
    BY <1>c, <1>d, <2>2, <2>3, <2>4 DEF PoolOK
  <2>6. RebuildOK(dr[d])'
    BY <1>a, <1>c, <2>e, <2>1, <2>2, <2>3 DEF RebuildOK, PrePop
  <2>. QED  BY <1>f, <2>5, <2>6
<1>7. CASE RebuildMark(d)
  <2>. DEFINE s == [dr[d] EXCEPT !.pc = "redraw", !.ids = {}]
  <2>1. s.pc = "redraw" /\ s.ver = dr[d].ver
    BY <1>a DEF DrawRec
  <2>2. Become(d, s) /\ UNCHANGED pool /\ dr[d].pc = "mark"
    BY <1>7 DEF RebuildMark
  <2>. HIDE DEF s
  <2>e. dr'[d] = s
    BY <1>e, <2>2
  <2>3. /\ built'[dr[d].prize] = dr[d].ver /\ dr[d].prize \in Prizes
        /\ \A z \in Prizes : z # dr[d].prize => built'[z] = built[z]
    BY <1>a, <1>7 DEF RebuildMark, LocalOK, TInv, TypeInv, TypeOK
  <2>4. /\ dr[d].ver <= ver
        /\ dr[d].ver = ver /\ NoneDeleting => pool[dr[d].prize] \subseteq Listed
    BY <1>a, <2>2 DEF RebuildOK, PrePop
  <2>5. \A z \in Prizes : PoolOK(z)'
    BY <1>c, <1>d, <2>2, <2>3, <2>4 DEF PoolOK
  <2>6. RebuildOK(dr[d])'
    BY <1>c, <2>e, <2>1, <2>4 DEF RebuildOK
  <2>. QED  BY <1>f, <2>5, <2>6
<1>8. CASE LuaReplay(d) \/ LuaClosed(d) \/ LuaInsufficient(d) \/ AbortDraw(d)
  <2>1. dr'[d].pc \in {"views", "replied"}
    <3>. DEFINE s == [dr[d] EXCEPT !.pc = "views", !.dup = TRUE,
                                   !.ids = idemp[dr[d].key].ids]
                t(what) == [dr[d] EXCEPT !.pc = "replied", !.reply = what]
                f == [DrawIdle EXCEPT !.pc = "replied", !.reply = "error"]
    <3>1. s.pc = "views" /\ (\A what : t(what).pc = "replied") /\ f.pc = "replied"
      BY <1>a DEF DrawRec, DrawIdle
    <3>2. Become(d, s) \/ (\E what : Become(d, t(what))) \/ Become(d, f)
      BY <1>8 DEF LuaReplay, LuaClosed, LuaInsufficient, AbortDraw, Answer
    <3>. HIDE DEF s, t, f
    <3>. QED  BY <1>e, <3>1, <3>2
  <2>2. UNCHANGED <<built, pool>>
    BY <1>8 DEF LuaReplay, LuaClosed, LuaInsufficient, AbortDraw
  <2>. QED  BY <1>1, <2>1, <2>2 DEF PrePop
<1>9. ASSUME NEW W \in SUBSET Participants, LuaPop(d, W) PROVE PoolInv'
  <2>1. UNCHANGED built
    BY <1>9 DEF LuaPop
  <2>2. dr'[d].pc = "views" /\ \A y \in Prizes : pool'[y] \subseteq pool[y]
    BY <1>9, PopHand
  <2>. QED  BY <1>1, <2>1, <2>2 DEF PrePop
<1>10. ASSUME NEW z \in Prizes, NEW k \in Keys, DrawRequest(d, z, k) PROVE PoolInv'
  <2>. DEFINE s    == [DrawIdle EXCEPT !.pc = "replied", !.key = k, !.prize = z,
                                       !.reply = "exhausted"]
              t(n) == [DrawIdle EXCEPT !.pc = "version", !.key = k, !.prize = z, !.count = n]
  <2>1. s.pc = "replied" /\ \A n : t(n).pc = "version"
    BY DEF DrawIdle
  <2>2. UNCHANGED <<built, pool>> /\ (Become(d, s) \/ \E n : Become(d, t(n)))
    BY <1>10 DEF DrawRequest
  <2>. HIDE DEF s, t
  <2>. QED  BY <1>1, <1>e, <2>1, <2>2 DEF PrePop
<1>11. ASSUME \/ LoadWinners(d) \/ Compensate(d) \/ IssueRedeem(d) \/ DrawReturn(d)
              \/ \E p \in Participants : PersistOk(d, p) \/ PersistFail(d, p)
       PROVE  PoolInv'
  <2>1. dr[d].pc \notin PrePop /\ UNCHANGED <<built, pool>>
    BY <1>11 DEF LoadWinners, Compensate, IssueRedeem, DrawReturn, PersistOk, PersistFail,
          PrePop
  <2>2. DrawStep(d) /\ \A W \in SUBSET Participants : ~LuaPop(d, W)
    BY <1>11, <2>1 DEF DrawStep, LuaPop, InScript, PrePop
  <2>3. dr'[d].pc \notin PrePop
    BY <2>1, <2>2, DrawQuiet DEF SameSize
  <2>. QED  BY <1>1, <2>1, <2>3
<1>. QED
  BY <1>2, <1>3, <1>4, <1>5, <1>6, <1>7, <1>8, <1>9, <1>10, <1>11 DEF DrawStep

LEMMA PoolStep ==
  ASSUME Alone, EveryBump, TInv, BatchInv, PoolInv, [Next]_vars
  PROVE  PoolInv'
BY AsidePool, DrawPool DEF Next, Aside

LEMMA PoolsFollow == TInv /\ RepeatInv /\ PoolInv => PoolFollowsRoster
<1>. SUFFICES ASSUME TInv, RepeatInv, PoolInv, NEW z \in Prizes, built[z] = ver,
                     \A e \in Editors : ed[e].pc \notin {"import", "bump"},
                     NEW p \in pool[z]
              PROVE  /\ roster[p] = "listed"
                     /\ \A r \in Book \cup failures : r.prize = z => r.part # p
  BY DEF PoolFollowsRoster
<1>1. p \in Listed
  BY DEF PoolInv, PoolOK, NoneDeleting
<1>2. Free(p, z)
  BY DEF RepeatInv
<1>. QED  BY <1>1, <1>2 DEF Listed, Free, Entries

\* While requests come one at a time and every change of the roster gets to its
\* bump, a pool that carries the current version holds nobody who was deleted and
\* nobody who holds the prize.
THEOREM PoolsAreCurrent == ASSUME Alone, EveryBump PROVE Spec => []PoolFollowsRoster
<1>1. TInv /\ BatchInv /\ RepeatInv /\ [Next]_vars => RepeatInv'
  BY RepeatStep
<1>2. TInv /\ BatchInv /\ PoolInv /\ [Next]_vars => PoolInv'
  BY PoolStep
<1>. QED
  BY <1>1, <1>2, InitRepeat, InitPool, OneBatch, PoolsFollow, PTL DEF Spec
====
