------------------------------ MODULE LiveDraw ------------------------------
(***************************************************************************)
(* The live ("big screen") draw of one activity: App.LiveDraw,             *)
(* App.UndoLiveDraw, the roster edits that run beside them and the         *)
(* worker that replays failed inserts.  The draw lives in two stores.      *)
(* Redis holds one pool of participants per prize, the roster version each *)
(* pool was built from, and one idempotency value per batch; MySQL holds   *)
(* the roster, draw_records and persist_failures.  No transaction spans    *)
(* the two, so every Redis call and every SQL statement is a step of its   *)
(* own and any other request may run in between.                           *)
(*                                                                         *)
(* A Lua script is one step: Redis runs a script alone.  persistDraw's     *)
(* three attempts are one step, because an attempt that commits decides    *)
(* the outcome (the next attempt meets the unique index) and one that does *)
(* not leaves nothing behind.                                              *)
(***************************************************************************)
EXTENDS Integers, FiniteSets

CONSTANTS
  Participants,  \* ids of participants rows; MySQL never hands one out twice
  Latecomers,    \* those imported or enrolled while the draw is on
  Deletable,     \* those an operator may try to delete meanwhile
  Registered,    \* those with a user account (user_id > 0)
  Prizes, Stock, PerRound, IsAll,  \* the prizes and their columns
  Keys,          \* idempotency keys, which are also the batch ids (drawId)
  Covers,        \* the keys whose rows match LIKE 'key:%', for each key
  Drawers, Undoers, Editors,       \* request handlers that may run at once
  Faults,        \* the kinds of failure the environment may cause
  MaxVer,        \* bound: no undo or edit starts at this roster version
  None           \* not an id

FaultKinds == {"abort",      \* a draw or the worker stops: error, dead process
               "nobump",     \* an undo or edit stops, or its INCR fails
               "insert",     \* persistDraw fails and nothing is committed
               "ack",        \* persistDraw fails although a row is committed
               "compensate"} \* InsertPersistFailure fails, error dropped

ASSUME LiveAssumption ==
  /\ IsFiniteSet(Participants)
  /\ Latecomers \subseteq Participants
  /\ Deletable \subseteq Participants
  /\ Registered \subseteq Participants
  /\ Stock \in [Prizes -> Nat \ {0}]
  /\ PerRound \in [Prizes -> Nat \ {0}]
  /\ IsAll \in [Prizes -> BOOLEAN]
  /\ Covers \in [Keys -> SUBSET Keys]
  /\ Faults \subseteq FaultKinds
  /\ MaxVer \in Nat
  /\ None \notin Participants \cup Prizes \cup Keys

VARIABLES
  \* Redis
  ver,       \* lg:live:rosterver, bumped by every roster change and undo
  pool,      \* lg:live:pool, the participants each prize may draw
  built,     \* lg:live:poolbuilt, the version of each pool; NotBuilt if unset
  idemp,     \* lg:live:idemp, the state and the winners of each batch
  \* MySQL
  roster,    \* participants: "absent", "listed" or "deleted"
  won,       \* draw_records with status 'won'
  undone,    \* draw_records with status 'undone'
  failures,  \* persist_failures with resolved_at NULL
  codes,     \* redemptions issued, by batch and participant
  \* local state of the handlers and of the worker
  dr, ud, ed, wk,
  \* history: what each key drew, kept after the batch is undone
  batch

redis == <<ver, pool, built, idemp>>
mysql == <<roster, won, undone, failures, codes>>
vars  == <<ver, pool, built, idemp, roster, won, undone, failures, codes,
           dr, ud, ed, wk, batch>>

NotBuilt == -1
NoBatch  == [prize |-> None, ids |-> {}]
Fresh    == [state |-> "fresh", ids |-> {}]
Row(k, p, z) == [key |-> k, part |-> p, prize |-> z]
NoRow    == Row(None, None, None)
Rows     == [key : Keys, part : Participants, prize : Prizes]

DrawPC == {"idle", "version", "draw", "eligible", "del", "add", "mark",
           "redraw", "views", "persist", "compensate", "redeem", "replied"}
Reply  == {"none", "won", "replay", "undone", "exhausted", "refused", "error"}
DrawRec == [pc : DrawPC, prize : Prizes \cup {None}, key : Keys \cup {None},
            count : Nat, ver : Nat, ids : SUBSET Participants, dup : BOOLEAN,
            todo : SUBSET Participants, cur : Participants \cup {None},
            reply : Reply]
DrawIdle == [pc |-> "idle", prize |-> None, key |-> None, count |-> 0,
             ver |-> 0, ids |-> {}, dup |-> FALSE, todo |-> {}, cur |-> None,
             reply |-> "none"]
UndoIdle == [pc |-> "idle", key |-> None]
EditIdle == [pc |-> "idle", part |-> None]

TypeOK ==
  /\ ver \in Nat
  /\ pool \in [Prizes -> SUBSET Participants]
  /\ built \in [Prizes -> Nat \cup {NotBuilt}]
  /\ idemp \in [Keys -> [state : {"fresh", "drawn", "undone"},
                         ids : SUBSET Participants]]
  /\ roster \in [Participants -> {"absent", "listed", "deleted"}]
  /\ won \in SUBSET Rows
  /\ undone \in SUBSET Rows
  /\ failures \in SUBSET Rows
  /\ codes \in SUBSET (Keys \X Participants)
  /\ dr \in [Drawers -> DrawRec]
  /\ ud \in [Undoers -> [pc : {"idle", "mark", "bump"},
                         key : Keys \cup {None}]]
  /\ ed \in [Editors -> [pc : {"idle", "import", "delete", "bump"},
                         part : Participants \cup {None}]]
  /\ wk \in Rows \cup {NoRow}
  /\ batch \in [Keys -> [prize : Prizes \cup {None},
                         ids : SUBSET Participants]]

Init ==
  /\ ver = 0
  /\ pool = [z \in Prizes |-> {}]
  /\ built = [z \in Prizes |-> NotBuilt]
  /\ idemp = [k \in Keys |-> Fresh]
  /\ roster = [p \in Participants |->
                 IF p \in Latecomers THEN "absent" ELSE "listed"]
  /\ won = {} /\ undone = {} /\ failures = {} /\ codes = {}
  /\ dr = [d \in Drawers |-> DrawIdle]
  /\ ud = [u \in Undoers |-> UndoIdle]
  /\ ed = [e \in Editors |-> EditIdle]
  /\ wk = NoRow
  /\ batch = [k \in Keys |-> NoBatch]
-----------------------------------------------------------------------------
(* What the queries and the unique indexes compute.                        *)

Winners(z) == {r \in won : r.prize = z}

\* Mutant: one more than the stock may be won.
RemainingOneMore(z) == Stock[z] + 1 - Cardinality(Winners(z))

\* CountWinsByPrize and the quota that LiveDraw derives from it.
Remaining(z) == Stock[z] - Cardinality(Winners(z))

\* Mutant: the index covers 'won' rows only.
RowExistsWon(k, p) == \E r \in won : r.key = k /\ r.part = p

\* uk_draw_idemp: the row's idempotency_key is key:participant.
RowExists(k, p) == \E r \in won \cup undone : r.key = k /\ r.part = p

\* ParticipantWon: the check DeleteParticipant makes before it deletes.
ParticipantWon(p) == \E r \in won : r.part = p

HasWonFor(p, z) == \E r \in won : r.part = p /\ (IsAll[z] => r.prize = z)
Pending(p)      == \E r \in failures : r.part = p

\* Mutant: rows that wait in persist_failures do not exclude anybody.
EligibleWithPending(z) == {p \in Participants : /\ roster[p] = "listed"
                                                /\ ~HasWonFor(p, z)}

\* EligibleParticipantIDs: who a rebuilt pool of prize z holds.
Eligible(z) == {p \in Participants : /\ roster[p] = "listed"
                                     /\ ~HasWonFor(p, z)
                                     /\ ~Pending(p)}

\* InsertDraw of a row: a duplicate key is reported as success.
InsertDraw(k, p, z) ==
  won' = IF RowExists(k, p) THEN won ELSE won \cup {Row(k, p, z)}
-----------------------------------------------------------------------------
(* App.LiveDraw, one step per Redis call or SQL statement.                 *)

\* Handler d goes on in local state s.
Become(d, s)    == dr' = [dr EXCEPT ![d] = s]
Goto(d, pc)     == Become(d, [dr[d] EXCEPT !.pc = pc])
Answer(d, what) == Become(d, [dr[d] EXCEPT !.pc = "replied", !.reply = what])

\* CountWinsByPrize, and the batch size that is fixed from it.
DrawRequest(d, z, k) ==
  /\ dr[d].pc = "idle"
  /\ LET left == Remaining(z) IN
     IF left <= 0
       THEN Become(d, [DrawIdle EXCEPT !.pc = "replied", !.key = k, !.prize = z,
                                       !.reply = "exhausted"])
       ELSE Become(d, [DrawIdle EXCEPT !.pc = "version", !.key = k, !.prize = z,
                                       !.count = IF PerRound[z] > left
                                                 THEN left ELSE PerRound[z]])
  /\ UNCHANGED <<redis, mysql, ud, ed, wk, batch>>

\* Mutant: a version that was never set is read as "", like an unbuilt pool.
ReadRosterVersionRaw(d) ==
  /\ dr[d].pc = "version"
  /\ Become(d, [dr[d] EXCEPT !.pc = "draw",
                             !.ver = IF ver = 0 THEN NotBuilt ELSE ver])
  /\ UNCHANGED <<redis, mysql, ud, ed, wk, batch>>

ReadRosterVersion(d) ==
  /\ dr[d].pc = "version"
  /\ Become(d, [dr[d] EXCEPT !.pc = "draw", !.ver = ver])
  /\ UNCHANGED <<redis, mysql, ud, ed, wk, batch>>

InScript(d) == dr[d].pc \in {"draw", "redraw"}

\* Mutant: the script does not look at the idempotency key.
IdempIgnored(k) == FALSE

\* The script's first test: a value under the idempotency key.
IdempHit(k) == idemp[k].state # "fresh"

\* The pool carries the version the handler read.
PoolCurrent(z, v) == built[z] = v

\* Mutant: a replay does not recognise the UNDONE mark.
LuaReplayUndone(d) ==
  /\ InScript(d)
  /\ IdempHit(dr[d].key)
  /\ Become(d, [dr[d] EXCEPT !.pc = "views", !.dup = TRUE,
                             !.ids = idemp[dr[d].key].ids])
  /\ UNCHANGED <<redis, mysql, ud, ed, wk, batch>>

LuaReplay(d) ==
  LET k == dr[d].key IN
  /\ InScript(d)
  /\ IdempHit(k)
  /\ IF idemp[k].state = "undone"
       THEN Answer(d, "undone")
       ELSE Become(d, [dr[d] EXCEPT !.pc = "views", !.dup = TRUE,
                                    !.ids = idemp[k].ids])
  /\ UNCHANGED <<redis, mysql, ud, ed, wk, batch>>

\* The meta hash is not 'running', or the clock is outside the window.
LuaClosed(d) ==
  /\ InScript(d)
  /\ ~IdempHit(dr[d].key)
  /\ Answer(d, "refused")
  /\ UNCHANGED <<redis, mysql, ud, ed, wk, batch>>

\* Only the first STALE leads to a rebuild; the second is returned.
LuaStale(d) ==
  /\ InScript(d)
  /\ ~IdempHit(dr[d].key)
  /\ ~PoolCurrent(dr[d].prize, dr[d].ver)
  /\ IF dr[d].pc = "draw" THEN Goto(d, "eligible") ELSE Answer(d, "refused")
  /\ UNCHANGED <<redis, mysql, ud, ed, wk, batch>>

LuaInsufficient(d) ==
  /\ InScript(d)
  /\ ~IdempHit(dr[d].key)
  /\ PoolCurrent(dr[d].prize, dr[d].ver)
  /\ Cardinality(pool[dr[d].prize]) < dr[d].count
  /\ Answer(d, "refused")
  /\ UNCHANGED <<redis, mysql, ud, ed, wk, batch>>

\* Mutant: the winners are not remembered under the key.
LuaPopForgets(d, W) ==
  LET z == dr[d].prize IN
  /\ InScript(d)
  /\ ~IdempHit(dr[d].key)
  /\ PoolCurrent(z, dr[d].ver)
  /\ W \subseteq pool[z]
  /\ Cardinality(W) = dr[d].count
  /\ pool' = [pool EXCEPT ![z] = @ \ W]
  /\ batch' = [batch EXCEPT ![dr[d].key] = [prize |-> z, ids |-> W]]
  /\ Become(d, [dr[d] EXCEPT !.pc = "views", !.ids = W])
  /\ UNCHANGED <<ver, built, idemp, mysql, ud, ed, wk>>

\* SPOP count members and remember them under the key.
LuaPop(d, W) ==
  LET k == dr[d].key
      z == dr[d].prize IN
  /\ InScript(d)
  /\ ~IdempHit(k)
  /\ PoolCurrent(z, dr[d].ver)
  /\ W \subseteq pool[z]
  /\ Cardinality(W) = dr[d].count
  /\ pool' = [pool EXCEPT ![z] = @ \ W]
  /\ idemp' = [idemp EXCEPT ![k] = [state |-> "drawn", ids |-> W]]
  /\ batch' = [batch EXCEPT ![k] = [prize |-> z, ids |-> W]]
  /\ Become(d, [dr[d] EXCEPT !.pc = "views", !.ids = W])
  /\ UNCHANGED <<ver, built, mysql, ud, ed, wk>>

QueryEligible(d) ==
  /\ dr[d].pc = "eligible"
  /\ Become(d, [dr[d] EXCEPT !.pc = "del", !.ids = Eligible(dr[d].prize)])
  /\ UNCHANGED <<redis, mysql, ud, ed, wk, batch>>

\* Mutant: a rebuild adds to the old pool.
RebuildDelSkipped(d) ==
  /\ dr[d].pc = "del"
  /\ Goto(d, "add")
  /\ UNCHANGED <<redis, mysql, ud, ed, wk, batch>>

\* LiveRebuildPool: three calls, DEL, SADD and SET.
RebuildDel(d) ==
  /\ dr[d].pc = "del"
  /\ pool' = [pool EXCEPT ![dr[d].prize] = {}]
  /\ Goto(d, "add")
  /\ UNCHANGED <<ver, built, idemp, mysql, ud, ed, wk, batch>>

RebuildAdd(d) ==
  /\ dr[d].pc = "add"
  /\ pool' = [pool EXCEPT ![dr[d].prize] = @ \cup dr[d].ids]
  /\ Goto(d, "mark")
  /\ UNCHANGED <<ver, built, idemp, mysql, ud, ed, wk, batch>>

RebuildMark(d) ==
  /\ dr[d].pc = "mark"
  /\ built' = [built EXCEPT ![dr[d].prize] = dr[d].ver]
  /\ Become(d, [dr[d] EXCEPT !.pc = "redraw", !.ids = {}])
  /\ UNCHANGED <<ver, pool, idemp, mysql, ud, ed, wk, batch>>

\* liveWinnerViews: every winner must still be a row of participants, or the
\* handler returns an error.  A replayed batch is answered, not persisted.
LoadWinners(d) ==
  /\ dr[d].pc = "views"
  /\ IF \E p \in dr[d].ids : roster[p] # "listed" THEN Answer(d, "error")
     ELSE IF dr[d].dup THEN Answer(d, "replay")
     ELSE Become(d, [dr[d] EXCEPT !.pc = "persist", !.todo = dr[d].ids])
  /\ UNCHANGED <<redis, mysql, ud, ed, wk, batch>>

\* Winner p of d's batch is dealt with: go on to the next, or answer.
AfterWinner(d, p) ==
  [dr[d] EXCEPT !.pc    = IF dr[d].todo = {p} THEN "replied" ELSE "persist",
                !.reply = IF dr[d].todo = {p} THEN "won" ELSE "none",
                !.todo  = @ \ {p},
                !.cur   = None]

\* The code is issued after the row, or its compensation, is written.
AfterRow(d, p) ==
  IF p \in Registered THEN [dr[d] EXCEPT !.pc = "redeem", !.cur = p]
                      ELSE AfterWinner(d, p)

PersistOk(d, p) ==
  /\ dr[d].pc = "persist"
  /\ p \in dr[d].todo
  /\ InsertDraw(dr[d].key, p, dr[d].prize)
  /\ Become(d, AfterRow(d, p))
  /\ UNCHANGED <<redis, roster, undone, failures, codes, ud, ed, wk, batch>>

\* Mutant: an insert that failed is taken for one that succeeded.
PersistFailSilent(d, p) ==
  /\ dr[d].pc = "persist"
  /\ p \in dr[d].todo
  /\ "insert" \in Faults
  /\ won' = won
  /\ Become(d, AfterRow(d, p))
  /\ UNCHANGED <<redis, roster, undone, failures, codes, ud, ed, wk, batch>>

\* All attempts report an error, with or without a committed row.
PersistFail(d, p) ==
  /\ dr[d].pc = "persist"
  /\ p \in dr[d].todo
  /\ \/ "insert" \in Faults /\ won' = won
     \/ "ack" \in Faults /\ InsertDraw(dr[d].key, p, dr[d].prize)
  /\ Become(d, [dr[d] EXCEPT !.pc = "compensate", !.cur = p])
  /\ UNCHANGED <<redis, roster, undone, failures, codes, ud, ed, wk, batch>>

\* InsertPersistFailure; its own error is dropped.
Compensate(d) ==
  LET p == dr[d].cur IN
  /\ dr[d].pc = "compensate"
  /\ \/ failures' = failures \cup {Row(dr[d].key, p, dr[d].prize)}
     \/ "compensate" \in Faults /\ failures' = failures
  /\ Become(d, AfterRow(d, p))
  /\ UNCHANGED <<redis, roster, won, undone, codes, ud, ed, wk, batch>>

\* issueRedeem; its error is dropped too.
IssueRedeem(d) ==
  LET p == dr[d].cur IN
  /\ dr[d].pc = "redeem"
  /\ \/ codes' = codes \cup {<<dr[d].key, p>>}
     \/ "insert" \in Faults /\ codes' = codes
  /\ Become(d, AfterWinner(d, p))
  /\ UNCHANGED <<redis, roster, won, undone, failures, ud, ed, wk, batch>>

DrawReturn(d) ==
  /\ dr[d].pc = "replied"
  /\ Become(d, DrawIdle)
  /\ UNCHANGED <<redis, mysql, ud, ed, wk, batch>>

\* A call outside the persist loop fails, a script's reply is lost, or the
\* gateway dies (each handler then stops where it is).
AbortDraw(d) ==
  /\ "abort" \in Faults
  /\ dr[d].pc \notin {"idle", "replied"}
  /\ Become(d, [DrawIdle EXCEPT !.pc = "replied", !.reply = "error"])
  /\ UNCHANGED <<redis, mysql, ud, ed, wk, batch>>

DrawStep(d) ==
  \/ ReadRosterVersion(d)
  \/ LuaReplay(d) \/ LuaClosed(d) \/ LuaStale(d) \/ LuaInsufficient(d)
  \/ \E W \in SUBSET Participants : LuaPop(d, W)
  \/ QueryEligible(d) \/ RebuildDel(d) \/ RebuildAdd(d) \/ RebuildMark(d)
  \/ LoadWinners(d)
  \/ \E p \in Participants : PersistOk(d, p) \/ PersistFail(d, p)
  \/ Compensate(d) \/ IssueRedeem(d)
  \/ DrawReturn(d)
-----------------------------------------------------------------------------
(* App.UndoLiveDraw.  A key with no value is NotFound and changes nothing. *)

\* Mutant: the undo deletes the idempotency value instead of marking it.
UndoLuaDeletes(u, k) ==
  /\ ud[u].pc = "idle"
  /\ ver < MaxVer
  /\ IdempHit(k)
  /\ idemp' = [idemp EXCEPT ![k] = Fresh]
  /\ ud' = [ud EXCEPT ![u] = [pc |-> "mark", key |-> k]]
  /\ UNCHANGED <<ver, pool, built, mysql, dr, ed, wk, batch>>

\* liveUndoLua; a batch that is undone already goes on all the same.
UndoLua(u, k) ==
  /\ ud[u].pc = "idle"
  /\ ver < MaxVer
  /\ IdempHit(k)
  /\ idemp' = [idemp EXCEPT ![k] = [state |-> "undone", ids |-> {}]]
  /\ ud' = [ud EXCEPT ![u] = [pc |-> "mark", key |-> k]]
  /\ UNCHANGED <<ver, pool, built, mysql, dr, ed, wk, batch>>

\* Mutant: the update is not limited to any idempotency keys.
UndoMarkAll(u) ==
  /\ ud[u].pc = "mark"
  /\ won' = {}
  /\ undone' = undone \cup won
  /\ ud' = [ud EXCEPT ![u].pc = "bump"]
  /\ UNCHANGED <<redis, roster, failures, codes, dr, ed, wk, batch>>

\* MarkLiveUndone: every row with status 'won' whose idempotency_key matches
\* LIKE 'key:%'.  A key is the client's: _ and % in it are wildcards, and one
\* that begins with another and a colon is covered by it.
UndoMark(u) ==
  LET rows == {r \in won : r.key \in Covers[ud[u].key]} IN
  /\ ud[u].pc = "mark"
  /\ won' = won \ rows
  /\ undone' = undone \cup rows
  /\ ud' = [ud EXCEPT ![u].pc = "bump"]
  /\ UNCHANGED <<redis, roster, failures, codes, dr, ed, wk, batch>>

UndoBump(u) ==
  /\ ud[u].pc = "bump"
  /\ ver' = ver + 1
  /\ ud' = [ud EXCEPT ![u] = UndoIdle]
  /\ UNCHANGED <<pool, built, idemp, mysql, dr, ed, wk, batch>>

\* The handler stops, or INCR fails: that error is only logged.
AbortUndo(u) ==
  /\ "nobump" \in Faults
  /\ ud[u].pc # "idle"
  /\ ud' = [ud EXCEPT ![u] = UndoIdle]
  /\ UNCHANGED <<redis, mysql, dr, ed, wk, batch>>

UndoStep(u) == UndoMark(u) \/ UndoBump(u)
-----------------------------------------------------------------------------
(* App.ImportParticipants, App.Enroll (its roster part) and                *)
(* App.DeleteParticipant: change rows, then bump the roster version.       *)

\* UpsertParticipant for one row of an import, or for a new enrollment.
ImportRow(e, p) ==
  /\ \/ ed[e].pc = "idle" /\ ver < MaxVer
     \/ ed[e].pc = "import"
  /\ roster[p] # "deleted"
  /\ roster' = [roster EXCEPT ![p] = "listed"]
  /\ ed' = [ed EXCEPT ![e].pc = "import"]
  /\ UNCHANGED <<redis, won, undone, failures, codes, dr, ud, wk, batch>>

DeleteCheck(e, p) ==
  /\ ed[e].pc = "idle"
  /\ ver < MaxVer
  /\ p \in Deletable
  /\ roster[p] = "listed"
  /\ ~ParticipantWon(p)
  /\ ed' = [ed EXCEPT ![e] = [pc |-> "delete", part |-> p]]
  /\ UNCHANGED <<redis, mysql, dr, ud, wk, batch>>

DeleteRow(e) ==
  LET p == ed[e].part IN
  /\ ed[e].pc = "delete"
  /\ IF roster[p] = "listed"
       THEN /\ roster' = [roster EXCEPT ![p] = "deleted"]
            /\ ed' = [ed EXCEPT ![e] = [pc |-> "bump", part |-> None]]
       ELSE /\ roster' = roster
            /\ ed' = [ed EXCEPT ![e] = EditIdle]
  /\ UNCHANGED <<redis, won, undone, failures, codes, dr, ud, wk, batch>>

EditBump(e) ==
  /\ ed[e].pc \in {"import", "bump"}
  /\ ver' = ver + 1
  /\ ed' = [ed EXCEPT ![e] = EditIdle]
  /\ UNCHANGED <<pool, built, idemp, mysql, dr, ud, wk, batch>>

AbortEdit(e) ==
  /\ "nobump" \in Faults
  /\ ed[e].pc # "idle"
  /\ ed' = [ed EXCEPT ![e] = EditIdle]
  /\ UNCHANGED <<redis, mysql, dr, ud, wk, batch>>
-----------------------------------------------------------------------------
(* HandleDueJobs' second loop: one worker replays the compensation rows.   *)

\* Mutant: the worker resolves the row without replaying it.
WorkerInsertSkipped(r) ==
  /\ wk = NoRow
  /\ r \in failures
  /\ wk' = r
  /\ UNCHANGED <<redis, mysql, dr, ud, ed, batch>>

WorkerInsert(r) ==
  /\ wk = NoRow
  /\ r \in failures
  /\ InsertDraw(r.key, r.part, r.prize)
  /\ wk' = r
  /\ UNCHANGED <<redis, roster, undone, failures, codes, dr, ud, ed, batch>>

WorkerResolve ==
  /\ wk # NoRow
  /\ failures' = failures \ {wk}
  /\ wk' = NoRow
  /\ UNCHANGED <<redis, roster, won, undone, codes, dr, ud, ed, batch>>

\* The worker dies, persistDraw's success is not seen, or the UPDATE fails.
AbortWorker ==
  /\ "abort" \in Faults
  /\ wk # NoRow
  /\ wk' = NoRow
  /\ UNCHANGED <<redis, mysql, dr, ud, ed, batch>>

WorkerStep == (\E r \in Rows : WorkerInsert(r)) \/ WorkerResolve
-----------------------------------------------------------------------------
Next ==
  \/ \E d \in Drawers : \/ \E z \in Prizes, k \in Keys : DrawRequest(d, z, k)
                        \/ DrawStep(d)
                        \/ AbortDraw(d)
  \/ \E u \in Undoers : \/ \E k \in Keys : UndoLua(u, k)
                        \/ UndoStep(u)
                        \/ AbortUndo(u)
  \/ \E e \in Editors : \/ \E p \in Participants :
                             ImportRow(e, p) \/ DeleteCheck(e, p)
                        \/ DeleteRow(e) \/ EditBump(e) \/ AbortEdit(e)
  \/ WorkerStep
  \/ AbortWorker

Spec == Init /\ [][Next]_vars

\* A handler that has started runs on, and the worker's ticker keeps firing;
\* nobody is obliged to send a request.
Fairness ==
  /\ \A d \in Drawers : WF_vars(DrawStep(d))
  /\ \A u \in Undoers : WF_vars(UndoStep(u))
  /\ WF_vars(WorkerStep)

FairSpec == Spec /\ Fairness
-----------------------------------------------------------------------------
(* Safety, whatever fails and however many handlers run.                   *)

\* d drew a batch itself and has not dealt with all of its winners.
Owner(d) == ~dr[d].dup /\ dr[d].pc \in {"views", "persist", "compensate", "redeem"}

\* The winners of its batch that d still has to deal with.
Unsettled(d) == IF ~Owner(d) THEN {}
                ELSE IF dr[d].pc = "views" THEN dr[d].ids ELSE dr[d].todo

\* A batch has one owner: of the requests that carry a key, however often
\* the client sent it, one pops the winners and only that one writes rows.
OneOwner == \A c, d \in Drawers :
  Owner(c) /\ Owner(d) /\ dr[c].key = dr[d].key => c = d

\* Every row in draw_records and persist_failures, and every row the worker
\* is replaying, is of a winner and of the prize of the batch its key names.
RowsOfBatch == \A r \in won \cup undone \cup failures \cup ({wk} \ {NoRow}) :
  r.part \in batch[r.key].ids /\ r.prize = batch[r.key].prize

\* A request that is answered with winners, drawn or replayed, is answered
\* with all the winners of the batch its key names and nobody else.
AnswersBatch == \A d \in Drawers :
  dr[d].pc = "replied" /\ dr[d].reply \in {"won", "replay"}
    => dr[d].ids = batch[dr[d].key].ids /\ dr[d].ids # {}

\* A key draws once: no retry, at any moment, draws again under it, and an
\* undone batch stays undone for every later request.
KeyDrawsOnce == [][\A k \in Keys :
  /\ batch[k] # NoBatch => batch'[k] = batch[k]
  /\ idemp[k].state = "undone" => idemp'[k].state = "undone"]_vars

\* A row that an undo has flipped is never won again, though a lost
\* acknowledgement may have left a compensation row that is replayed later.
UndoneRowsStay == [][undone \subseteq undone' /\ won' \cap undone = {}]_vars
-----------------------------------------------------------------------------
(* Nothing is lost, if handlers run to their end and nobody is deleted.    *)

Recorded(k, p) == \E r \in won \cup undone : r.key = k /\ r.part = p
Deferred(k, p) == \E r \in failures : r.key = k /\ r.part = p

\* Every winner popped from a pool is in draw_records, or waits in
\* persist_failures, or is still in the hands of the batch's owner.
Accounted == \A k \in Keys : \A p \in batch[k].ids :
  \/ Recorded(k, p)
  \/ Deferred(k, p)
  \/ \E d \in Drawers : dr[d].key = k /\ p \in Unsettled(d)

\* Every winner popped from a pool gets a row in draw_records in the end,
\* through the handler or through the worker.
Settled == \A k \in Keys, p \in Participants :
  (p \in batch[k].ids) ~> Recorded(k, p)
-----------------------------------------------------------------------------
(* Quotas and repetition, which the code keeps for one request at a time.  *)

\* The entries of draw_records and of the batches still being written.
Book == won \cup UNION {{Row(dr[d].key, p, dr[d].prize) : p \in Unsettled(d)}
                          : d \in Drawers}

\* At most Stock[z] people hold prize z.
NoOversell == \A z \in Prizes : Cardinality({r \in Book : r.prize = z}) <= Stock[z]

\* Nobody holds one prize through two batches, rows still to be replayed
\* included: a pool rebuilt meanwhile leaves such people out.
NoRepeat == \A r, s \in Book \cup failures :
  r.part = s.part /\ r.prize = s.prize => r.key = s.key

\* A pool that is up to date holds nobody who was deleted and nobody who
\* holds the prize or waits for it in persist_failures, whatever was drawn,
\* undone, deleted or given up since it was built.  (A handler that has
\* changed the roster and not yet bumped the version is the one exception.)
PoolFollowsRoster == \A z \in Prizes :
  /\ built[z] = ver
  /\ \A e \in Editors : ed[e].pc \notin {"import", "bump"}
  => \A p \in pool[z] : /\ roster[p] = "listed"
                       /\ \A r \in Book \cup failures :
                            r.prize = z => r.part # p

\* The keys that have drawn.
Spent == {k \in Keys : batch[k] # NoBatch}

\* The keys whose undo has been ordered.
Void == {k \in Keys : idemp[k].state = "undone"}

\* The draw implements the book: a batch is entered once, for new holders and
\* within the stock, and only an undo takes rows of several batches away, those
\* that the pattern of its key covers.
Abstract == INSTANCE PrizeBook WITH book <- Book, spent <- Spent, void <- Void
RefinesPrizeBook == Abstract!Spec
-----------------------------------------------------------------------------
(* What the documents say of the program and the code does not keep.       *)

\* docs/production-edges.md section 3: a key that hits is answered with the
\* winners it drew.  The quota is looked at first.
ReplayAnswered == \A d \in Drawers :
  dr[d].pc = "replied" /\ dr[d].reply = "exhausted" => batch[dr[d].key] = NoBatch

\* docs/project-charter.md section 9: with isAll=false nobody who has won
\* wins another prize.
OneWinPerPerson == \A r, s \in won :
  r.part = s.part /\ ~IsAll[r.prize] /\ ~IsAll[s.prize] => r = s

\* docs/production-edges.md section 2: undoing a batch voids it.  Once it is
\* undone and has no owner, no row of the batch becomes a winning one.
UndoneVoid == [][\A k \in Keys :
  /\ idemp[k].state = "undone"
  /\ \A d \in Drawers : Owner(d) => dr[d].key # k
  => \A r \in won' \ won : r.key # k]_vars

\* db.go, MarkLiveUndone: an undo flips the rows of one batch.  What is undone is
\* of a batch whose own key was undone.
UndoneByKey == \A r \in undone : r.key \in Void

\* docs/production-edges.md section 7: a winner is never deleted from the
\* roster.
WinnersListed == \A r \in won : roster[r.part] = "listed"
=============================================================================
