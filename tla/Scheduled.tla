----------------------------- MODULE Scheduled -----------------------------
(***************************************************************************)
(* A scheduled draw over a roster that goes on changing                    *)
(* (App.RunScheduledDraw in src/internal/service/app.go, called by the     *)
(* worker and by ForceDraw; AssignScheduled in src/internal/engine;        *)
(* Store.InsertWinnersTx).  It composes Roster with the drawers: each      *)
(* reads the roster, assigns the prizes, and inserts the winners in one    *)
(* transaction behind a compare-and-set on the activity's row; the audit   *)
(* and the redeem codes follow, each in a statement of its own.            *)
(*                                                                         *)
(* Abstracted: the shuffle is any order of the ids; the token of a rank is *)
(* the rank modulo TokenSpace (the code hashes two bytes of the rank).     *)
(* Module Lifecycle has every way an activity changes its status; here     *)
(* they are OtherWriter.                                                   *)
(***************************************************************************)
EXTENDS Roster, Sequences, Functions, SequencesExt

CONSTANTS
    Drawers,        \* calls of RunScheduledDraw
    Prizes,         \* the prizes in sort order: a sequence of [id, stock]
    TokenSpace,     \* how many ranks have a token of their own: 2^16 in the code
    MaxVersion      \* bound: changes of the activity's row

StockLimit == 100000

(* engine.ValidatePrizes, which every created or edited activity passed       *)
ValidPrizes(prizes) ==
    /\ prizes # <<>>
    /\ \A i \in DOMAIN prizes : prizes[i].stock \in 1 .. StockLimit

\* The ids are the primary key of table prizes.
ASSUME ScheduledAssumption ==
    /\ Prizes \in Seq(Range(Prizes))
    /\ \A i, j \in DOMAIN Prizes : Prizes[i].id = Prizes[j].id => i = j
    /\ ValidPrizes(Prizes)
    /\ TokenSpace \in Nat \ {0}
    /\ MaxVersion \in Nat

VARIABLES
    version,     \* activities.version
    drawlock,    \* lg:drawlock: whether the key exists
    drw,         \* the drawers' local state
    winners,     \* scheduled_winners, by rank
    codes,       \* redemptions of these winners: [token, user]
    audit,       \* draw_audits: None, or the drawn ids and the winners
    drawnFrom    \* history: the ids the committed draw had read

drawVars == <<version, drawlock, drw, winners, codes, audit, drawnFrom>>
vars == <<rosterVars, drawVars>>

Idle == [at |-> "new", status |-> "published", version |-> 0,
         ids |-> {}, wins |-> <<>>, next |-> 1]

TypeOK ==
    /\ RosterTypeOK
    /\ status \in Statuses
    /\ version \in 0 .. MaxVersion
    /\ drawlock \in BOOLEAN
    /\ \A d \in Drawers :
          /\ drw[d].at \in {"new", "lock", "end", "fresh", "roster", "assign",
                            "insert", "audit", "codes", "unlock", "done"}
          /\ drw[d].status \in Statuses
          /\ drw[d].version \in 0 .. MaxVersion
          /\ drw[d].ids \in SUBSET (1 .. MaxRow)
    /\ \A t \in codes : t.user \in Users

-----------------------------------------------------------------------------
(* engine.AssignScheduled: down the prizes in order, as many places as each   *)
(* has, while there is somebody left; what remains is not drawn.              *)

AssignScheduled(order, prizes) ==
    FoldLeft(LAMBDA wins, p :
                wins \o [i \in 1 .. Min({p.stock, Len(order) - Len(wins)}) |->
                            [part |-> order[Len(wins) + i], prize |-> p.id]],
             <<>>, prizes)

Token(rank) == rank % TokenSpace

\* Some order of the ids: what the seed makes of them
Shuffled(ids) == {s \in [1 .. Cardinality(ids) -> ids] : IsInjective(s)}

\* userOf in RunScheduledDraw: of an id whose row is gone, no user
UserOf(id) == IF \E r \in rows : r.id = id
              THEN (CHOOSE r \in rows : r.id = id).user
              ELSE None

\* AllParticipantIDs
AllParticipantIDs == {r.id : r \in rows}

\* uk_sched_token and uk_sched_user: the latter holds for user_id 0 too
Unique(wins) == \A i, j \in DOMAIN wins :
                   i # j => /\ Token(i) # Token(j)
                            /\ wins[i].user # wins[j].user

-----------------------------------------------------------------------------
At(d, at) == drw[d].at = at
Move(d, at) == drw' = [drw EXCEPT ![d].at = at]
\* On to the deferred unlock, or out: the call's variables are gone
Leave(d, at) == drw' = [drw EXCEPT ![d] = [Idle EXCEPT !.at = at]]

\* ActivityByIDOnly, and the two checks on what it returned
DrawStart(d) ==
    /\ At(d, "new")
    /\ status # "drawn"
    /\ clock = "over"
    /\ drw' = [drw EXCEPT ![d].at = "lock", ![d].status = status, ![d].version = version]
    /\ UNCHANGED <<rosterVars, version, drawlock, winners, codes, audit, drawnFrom>>

\* SETNX: somebody else's lock makes the call answer ErrBusy
DrawLock(d) ==
    /\ At(d, "lock")
    /\ IF ~drawlock
       THEN /\ drawlock' = TRUE
            /\ Move(d, IF drw[d].status = "ended" THEN "roster" ELSE "end")
       ELSE Leave(d, "done") /\ UNCHANGED drawlock
    /\ UNCHANGED <<rosterVars, version, winners, codes, audit, drawnFrom>>

\* CASStatus to ended; its error is dropped, whichever it is
DrawEnd(d) ==
    /\ At(d, "end")
    /\ \/ /\ status = drw[d].status
          /\ version = drw[d].version
          /\ version < MaxVersion
          /\ status' = "ended"
          /\ version' = version + 1
       \/ UNCHANGED <<status, version>>
    /\ Move(d, "fresh")
    /\ UNCHANGED <<tables, handlers, clock, drawlock, winners, codes, audit, drawnFrom>>

\* The second read of the activity; when it fails, the first one stands.  From
\* here on only its version is used.
DrawFresh(d) ==
    /\ At(d, "fresh")
    /\ \E v \in {drw[d].version, version} :
          drw' = [drw EXCEPT ![d].at = "roster", ![d].status = "ended", ![d].version = v]
    /\ UNCHANGED <<rosterVars, version, drawlock, winners, codes, audit, drawnFrom>>

DrawRoster(d) ==
    /\ At(d, "roster")
    /\ drw' = [drw EXCEPT ![d].at = "assign", ![d].ids = AllParticipantIDs]
    /\ UNCHANGED <<rosterVars, version, drawlock, winners, codes, audit, drawnFrom>>

\* The seed, the assignment, and ParticipantsByIDs for the winners' accounts
DrawAssign(d) ==
    /\ At(d, "assign")
    /\ \E order \in Shuffled(drw[d].ids) :
          LET wins == AssignScheduled(order, Prizes)
          IN drw' = [drw EXCEPT ![d].at = "insert",
                        ![d].wins = [k \in DOMAIN wins |->
                           [part |-> wins[k].part, prize |-> wins[k].prize,
                            user |-> UserOf(wins[k].part)]]]
    /\ UNCHANGED <<rosterVars, version, drawlock, winners, codes, audit, drawnFrom>>

\* Mutant: the transaction relies on the lock.
CasTrusting(d) == version >= drw[d].version

\* The compare-and-set that opens the transaction
CasOk(d) == /\ version = drw[d].version
            /\ status \in {"ended", "running", "published"}

\* Mutant: without the transaction, what came before the refused row stays.
DrawInsertPartly(d) ==
    /\ At(d, "insert")
    /\ IF CasOk(d)
       THEN /\ version < MaxVersion
            /\ version' = version + 1
            /\ status' = "drawn"
            /\ winners' = IF Unique(drw[d].wins) THEN drw[d].wins ELSE SubSeq(drw[d].wins, 1, 1)
            /\ drawnFrom' = drw[d].ids
            /\ Move(d, "audit") \/ Leave(d, "unlock")
       ELSE Leave(d, "unlock") /\ UNCHANGED <<version, status, winners, drawnFrom>>
    /\ UNCHANGED <<tables, handlers, clock, drawlock, codes, audit>>

\* Mutant: a refused transaction does not end the call.
DrawInsertGoesOn(d) ==
    /\ At(d, "insert")
    /\ IF CasOk(d) /\ Unique(drw[d].wins)
       THEN /\ version < MaxVersion
            /\ version' = version + 1
            /\ status' = "drawn"
            /\ winners' = drw[d].wins
            /\ drawnFrom' = drw[d].ids
       ELSE UNCHANGED <<version, status, winners, drawnFrom>>
    /\ Move(d, "audit")
    /\ UNCHANGED <<tables, handlers, clock, drawlock, codes, audit>>

\* InsertWinnersTx: the status and every winner, or nothing.  When the answer to
\* the commit is lost, the call returns its error although the draw stands.
DrawInsert(d) ==
    /\ At(d, "insert")
    /\ IF CasOk(d) /\ Unique(drw[d].wins)
       THEN /\ version < MaxVersion
            /\ version' = version + 1
            /\ status' = "drawn"
            /\ winners' = drw[d].wins
            /\ drawnFrom' = drw[d].ids
            /\ Move(d, "audit") \/ Leave(d, "unlock")
       ELSE Leave(d, "unlock") /\ UNCHANGED <<version, status, winners, drawnFrom>>
    /\ UNCHANGED <<tables, handlers, clock, drawlock, codes, audit>>

\* The error of InsertDrawAudit is dropped
DrawAudit(d) ==
    /\ At(d, "audit")
    /\ audit' \in {audit, [ids |-> drw[d].ids, wins |-> drw[d].wins]}
    /\ Move(d, "codes")
    /\ UNCHANGED <<rosterVars, version, drawlock, winners, codes, drawnFrom>>

\* Mutant: the code is issued for the place behind.
DrawCodeNext(d) ==
    /\ At(d, "codes")
    /\ drw[d].next <= Len(drw[d].wins)
    /\ LET u == drw[d].wins[drw[d].next].user
           t == Token(drw[d].next + 1)
       IN codes' \in {codes} \cup
             (IF u = None \/ \E c \in codes : c.token = t THEN {}
              ELSE {codes \cup {[token |-> t, user |-> u]}})
    /\ drw' = [drw EXCEPT ![d].next = @ + 1]
    /\ UNCHANGED <<rosterVars, version, drawlock, winners, audit, drawnFrom>>

\* Mutant: the check for user_id 0 is forgotten.
DrawCodeAnybody(d) ==
    /\ At(d, "codes")
    /\ drw[d].next <= Len(drw[d].wins)
    /\ LET u == drw[d].wins[drw[d].next].user
           t == Token(drw[d].next)
       IN codes' \in {codes} \cup
             (IF \E c \in codes : c.token = t THEN {}
              ELSE {codes \cup {[token |-> t, user |-> u]}})
    /\ drw' = [drw EXCEPT ![d].next = @ + 1]
    /\ UNCHANGED <<rosterVars, version, drawlock, winners, audit, drawnFrom>>

\* issueRedeem for one winner with an account; its error is dropped, and
\* uk_redeem_draw keeps one code for a token
DrawCode(d) ==
    /\ At(d, "codes")
    /\ drw[d].next <= Len(drw[d].wins)
    /\ LET u == drw[d].wins[drw[d].next].user
           t == Token(drw[d].next)
       IN codes' \in {codes} \cup
             (IF u = None \/ \E c \in codes : c.token = t THEN {}
              ELSE {codes \cup {[token |-> t, user |-> u]}})
    /\ drw' = [drw EXCEPT ![d].next = @ + 1]
    /\ UNCHANGED <<rosterVars, version, drawlock, winners, audit, drawnFrom>>

DrawCodesDone(d) ==
    /\ At(d, "codes")
    /\ drw[d].next > Len(drw[d].wins)
    /\ Leave(d, "unlock")
    /\ UNCHANGED <<rosterVars, version, drawlock, winners, codes, audit, drawnFrom>>

\* The deferred DEL, which does not look whose lock it is
DrawUnlock(d) ==
    /\ At(d, "unlock")
    /\ drawlock' = FALSE
    /\ Leave(d, "done")
    /\ UNCHANGED <<rosterVars, version, winners, codes, audit, drawnFrom>>

\* A read fails: the call returns and its lock is deleted
DrawFails(d) ==
    /\ drw[d].at \in {"roster", "assign", "insert"}
    /\ Leave(d, "unlock")
    /\ UNCHANGED <<rosterVars, version, drawlock, winners, codes, audit, drawnFrom>>

\* The process stops: its lock stays until it expires
DrawCrash(d) ==
    /\ drw[d].at \notin {"new", "done"}
    /\ Leave(d, "done")
    /\ UNCHANGED <<rosterVars, version, drawlock, winners, codes, audit, drawnFrom>>

\* 120 seconds have passed, whether or not the holder is still at work
LockExpires ==
    /\ drawlock
    /\ drawlock' = FALSE
    /\ UNCHANGED <<rosterVars, version, drw, winners, codes, audit, drawnFrom>>

DrawStep(d) ==
    \/ DrawStart(d) \/ DrawLock(d) \/ DrawEnd(d) \/ DrawFresh(d)
    \/ DrawRoster(d) \/ DrawAssign(d) \/ DrawInsert(d)
    \/ DrawAudit(d) \/ DrawCode(d) \/ DrawCodesDone(d)
    \/ DrawUnlock(d) \/ DrawFails(d) \/ DrawCrash(d)

-----------------------------------------------------------------------------
(* The other writers of the activity's row (module Lifecycle)                 *)
OtherWriter ==
    /\ version < MaxVersion
    /\ \E s \in Statuses :
          /\ \/ status \in {"published", "paused"} /\ s = "running"
             \/ status = "running" /\ s = "paused"
             \/ status \in {"published", "running", "paused"} /\ s = "ended"
             \/ status \notin {"drawn", "cancelled"} /\ s = "cancelled"
          /\ status' = s
    /\ version' = version + 1
    /\ UNCHANGED <<tables, handlers, clock, drawlock, drw, winners, codes, audit, drawnFrom>>

(* WinnersPublic and Feed: nothing before the draw; then the winners whose     *)
(* participants row still joins                                               *)
WinnersPublic ==
    IF status # "drawn" THEN {}
    ELSE {k \in DOMAIN winners : winners[k].part \in AllParticipantIDs}

Init ==
    /\ RosterInit
    /\ version = 0
    /\ drawlock = FALSE
    /\ drw = [d \in Drawers |-> Idle]
    /\ winners = <<>>
    /\ codes = {}
    /\ audit = None
    /\ drawnFrom = {}

Next ==
    \/ (RosterNext \/ Tick) /\ UNCHANGED drawVars
    \/ \E d \in Drawers : DrawStep(d)
    \/ LockExpires
    \/ OtherWriter

Spec == Init /\ [][Next]_vars

-----------------------------------------------------------------------------
(* Properties                                                                *)

TotalStock(prizes) == FoldLeft(LAMBDA n, p : n + p.stock, 0, prizes)

\* What an assignment has to be: as many winners as the ids or the places allow,
\* each id once, no prize more often than its stock, and no later prize while an
\* earlier one has a place left
Fills(wins, ids, prizes) ==
    LET Places(i) == Cardinality({k \in DOMAIN wins : wins[k].prize = prizes[i].id})
    IN /\ Len(wins) = Min({Cardinality(ids), TotalStock(prizes)})
       /\ \A k \in DOMAIN wins : wins[k].part \in ids
       /\ \A j, k \in DOMAIN wins : j # k => wins[j].part # wins[k].part
       /\ \A i \in DOMAIN prizes :
             /\ Places(i) <= prizes[i].stock
             /\ i < Len(prizes) /\ Places(i + 1) > 0 => Places(i) = prizes[i].stock

\* The winners of a drawn activity fill the prizes from the roster the draw had
\* read, although drawers, edits and enrollments interleave; before, it has none.
FullyDrawn ==
    IF status = "drawn" THEN Fills(winners, drawnFrom, Prizes) ELSE winners = <<>>

\* Winners stay the winners: a second drawer, a lock that expired under a slow
\* one, or a later change of the status replaces nothing.
DrawnForGood == [][winners # <<>> => winners' = winners /\ status' = "drawn"]_vars

\* The audit, once written, tells the truth about the draw that counts.
AuditTrue == audit # None => audit = [ids |-> drawnFrom, wins |-> winners]

\* A code is for a winner who has an account, and for that account, at most one
\* for each token.
CodesMatch ==
    /\ \A c \in codes : \E k \in DOMAIN winners :
          c.token = Token(k) /\ c.user = winners[k].user
    /\ \A c, e \in codes : c.token = e.token => c = e

\* A draw whose compare-and-set goes through can insert its winners, whoever was
\* imported.  Does not hold: uk_sched_user takes user_id 0 only once.
ImportsCanWin == \A d \in Drawers : At(d, "insert") /\ CasOk(d) => Unique(drw[d].wins)

\* The public list has every winner once the draw is over.  Does not hold:
\* DeleteParticipant does not look at scheduled_winners.
WinnersListed == status = "drawn" => WinnersPublic = DOMAIN winners
=============================================================================
