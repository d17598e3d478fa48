------------------------------ MODULE Editing ------------------------------
(***************************************************************************)
(* What an activity consists of and who may still change it: the row, the  *)
(* prizes in a table of their own and the decoration.  CreateActivity,     *)
(* UpdateActivity, UpdateUiConfig, Publish and the detail page work on     *)
(* them at once; each reads the row and the prizes in statements of its    *)
(* own.  How the status goes on after Publish is module Lifecycle, and who *)
(* wins is LiveDraw and Scheduled: here both just happen, and the status   *)
(* "open" stands for published, running and paused.                        *)
(*                                                                         *)
(* Abstracted: titles, names, kinds and time zones, of which only matters  *)
(* whether they are acceptable (`ok`); the numbers are kept.               *)
(***************************************************************************)
EXTENDS Integers, Sequences

CONSTANTS
    Handlers,    \* requests that may run at once
    Inputs,      \* the forms that operators send
    Configs,     \* decorations
    MaxWins,     \* bound: no prize of a live draw is won more often
    MaxVersion   \* bound: no form is accepted and no status moves at this version

ASSUME EditingAssumption ==
    /\ Inputs \subseteq [ok : BOOLEAN, mode : {"live", "scheduled"},
                         roster : {"", "import", "register", "both"},
                         start : Nat, end : Nat,
                         prizes : Seq([stock : Nat, perRound : Nat, isAll : BOOLEAN])]
    /\ MaxWins \in Nat
    /\ MaxVersion \in Nat

VARIABLES
    act,     \* the activities row: mode, roster source, status, version
    prizes,  \* its rows in prizes, in sort order
    wins,    \* how often each of them is won: rows of draw_records for a live
             \* activity, of scheduled_winners for a scheduled one
    ui,      \* ui_config
    pr,      \* the handlers: step, row and prizes read, page shown
    frozen   \* history: the prizes when the activity left draft

vars == <<act, prizes, wins, ui, pr, frozen>>

NoAct == [mode |-> "none", roster |-> "none", status |-> "none", version |-> 0]
NoPrizes == [era |-> 0, list |-> <<>>]
Idle  == [pc |-> "idle", seen |-> NoAct, prizes |-> NoPrizes, remain |-> <<>>]
Zero(s) == [i \in DOMAIN s |-> 0]
Goto(h, r) == pr' = [pr EXCEPT ![h] = r]

Init == /\ act = NoAct
        /\ prizes = NoPrizes
        /\ wins = <<>>
        /\ ui = "none"
        /\ pr = [h \in Handlers |-> Idle]
        /\ frozen = NoPrizes
-----------------------------------------------------------------------------
(* The checks.                                                             *)

\* The most places one prize may have
StockLimit == 100000

\* engine.ValidatePrizes
ValidatePrizes(ps, mode) ==
    /\ ps # <<>>
    /\ \A i \in DOMAIN ps :
         /\ ps[i].stock \in 1 .. StockLimit
         /\ mode = "live" => /\ ps[i].perRound \in 1 .. 50
                             /\ ps[i].perRound <= ps[i].stock

\* A batch size that is not given is 1, for the check and in the table alike.
StorePrizes(in) ==
    [i \in DOMAIN in |-> [in[i] EXCEPT !.perRound = IF @ = 0 THEN 1 ELSE @]]

RosterSource(in) == IF in.roster = "" THEN "both" ELSE in.roster

\* checkActivityInput and the time zone
CheckActivityInput(in) ==
    /\ in.ok
    /\ in.start < in.end
    /\ ValidatePrizes(StorePrizes(in.prizes), in.mode)
-----------------------------------------------------------------------------
(* Handlers.                                                               *)

\* Mutant: an edit leaves the version as it is.
WritesSameVersion(in, status, version) ==
    /\ act' = [mode |-> in.mode, roster |-> RosterSource(in), status |-> status,
               version |-> act.version]
    /\ prizes' = [era |-> version, list |-> StorePrizes(in.prizes)]
    /\ wins' = Zero(in.prizes)

\* The columns of a form, and its prizes in the place of any that were there;
\* these get ids of their own, here the version that brought them (era).
Writes(in, status, version) ==
    /\ act' = [mode |-> in.mode, roster |-> RosterSource(in), status |-> status,
               version |-> version]
    /\ prizes' = [era |-> version, list |-> StorePrizes(in.prizes)]
    /\ wins' = Zero(in.prizes)

\* The row and its prizes in one transaction
CreateActivity ==
    /\ act.status = "none"
    /\ \E in \in Inputs : CheckActivityInput(in) /\ Writes(in, "draft", 0)
    /\ UNCHANGED <<ui, pr, frozen>>

\* mustActivity: the row as the request first sees it
Reads(h, pc) == /\ pr[h] = Idle
                /\ act.status # "none"
                /\ Goto(h, [Idle EXCEPT !.pc = pc, !.seen = act])
                /\ UNCHANGED <<act, prizes, wins, ui, frozen>>

UpdateRead(h) == /\ act.status = "draft"
                 /\ act.version < MaxVersion
                 /\ Reads(h, "update")

\* Mutant: the UPDATE trusts the handler's check of the status.
UpdateTxTrusting(h) ==
    /\ pr[h].pc = "update"
    /\ \E in \in Inputs : CheckActivityInput(in) /\ Writes(in, act.status, act.version + 1)
    /\ Goto(h, Idle)
    /\ UNCHANGED <<ui, frozen>>

\* UpdateActivityTx: a draft gets its columns, a version and other prizes; what
\* is no draft any more, and a form that was refused, changes nothing.
UpdateTx(h) ==
    /\ pr[h].pc = "update"
    /\ \/ /\ act.status = "draft"
          /\ \E in \in Inputs : CheckActivityInput(in) /\ Writes(in, "draft", act.version + 1)
       \/ /\ \/ act.status # "draft"
             \/ \E in \in Inputs : ~CheckActivityInput(in)
          /\ UNCHANGED <<act, prizes, wins>>
    /\ Goto(h, Idle)
    /\ UNCHANGED <<ui, frozen>>

\* In any status, and without a new version: it makes no publisher lose.
UpdateUiConfig(h) ==
    /\ act.status # "none"
    /\ \E c \in Configs : ui' = c
    /\ UNCHANGED <<act, prizes, wins, pr, frozen>>

PublishRead(h) == /\ act.status = "draft"
                  /\ act.version < MaxVersion
                  /\ Reads(h, "prizes")

\* The prizes are read and checked in a second statement, for the mode of the first.
PublishPrizes(h) ==
    /\ pr[h].pc = "prizes"
    /\ Goto(h, IF ValidatePrizes(prizes.list, pr[h].seen.mode)
               THEN [pr[h] EXCEPT !.pc = "cas", !.prizes = prizes] ELSE Idle)
    /\ UNCHANGED <<act, prizes, wins, ui, frozen>>

CASWins(seen) == act.status = seen.status /\ act.version = seen.version

\* Between these two Publish loads the meta hash (Lifecycle).
PublishCAS(h) ==
    /\ pr[h].pc = "cas"
    /\ IF CASWins(pr[h].seen)
         THEN /\ act' = [act EXCEPT !.status = "open", !.version = @ + 1]
              /\ frozen' = prizes
         ELSE UNCHANGED <<act, frozen>>
    /\ Goto(h, Idle)
    /\ UNCHANGED <<prizes, wins, ui>>

\* App.detail, behind the admin's and the public page (which moves the status
\* on before, see Lifecycle's VisitRead): the row ...
DetailRead(h) == Reads(h, "detail")

\* ... then the prizes ...
DetailPrizes(h) ==
    /\ pr[h].pc = "detail"
    /\ Goto(h, [pr[h] EXCEPT !.pc = "wins", !.prizes = prizes])
    /\ UNCHANGED <<act, prizes, wins, ui, frozen>>

\* ... then the wins, which a scheduled activity has once it is drawn, by prize id.
\* If the count fails its error is dropped, and nothing counts as won.
DetailWins(h) ==
    /\ pr[h].pc = "wins"
    /\ LET counted == pr[h].seen.mode = "live" \/ pr[h].seen.status = "drawn"
           shown == pr[h].prizes.list
           won == IF counted /\ prizes.era = pr[h].prizes.era THEN wins ELSE Zero(shown)
       IN \E count \in {won, Zero(shown)} :
            Goto(h, [pr[h] EXCEPT !.pc = "shown",
                       !.remain = [i \in DOMAIN shown |-> shown[i].stock - count[i]]])
    /\ UNCHANGED <<act, prizes, wins, ui, frozen>>

DetailDone(h) == /\ pr[h].pc = "shown"
                 /\ Goto(h, Idle)
                 /\ UNCHANGED <<act, prizes, wins, ui, frozen>>
-----------------------------------------------------------------------------
(* What the draws and the life cycle do to it.                             *)

\* A live draw or the worker writes a win.  The quota was looked at when the draw
\* began and the status in Redis: nothing here keeps requests that overlap within
\* the stock, a win from being written after the activity has been closed, or one
\* of a draft whose publisher has loaded the meta hash and lost its CAS.
LiveWin ==
    /\ act.mode = "live"
    /\ \E i \in DOMAIN wins : wins[i] < MaxWins /\ wins' = [wins EXCEPT ![i] = @ + 1]
    /\ UNCHANGED <<act, prizes, ui, pr, frozen>>

\* MarkLiveUndone takes back the rows of a batch, or of several.
LiveUndo ==
    /\ act.mode = "live"
    /\ \E w \in [DOMAIN wins -> 0 .. MaxWins] :
         (\A i \in DOMAIN wins : w[i] <= wins[i]) /\ wins' = w
    /\ UNCHANGED <<act, prizes, ui, pr, frozen>>

\* The status goes from one of those in `from` to another.
Moves(from, to) ==
    /\ act.version < MaxVersion
    /\ act.status \in from
    /\ act' = [act EXCEPT !.status = to, !.version = @ + 1]
    /\ frozen' = IF act.status = "draft" THEN prizes ELSE frozen
    /\ UNCHANGED <<prizes, ui, pr>>

\* Cancel, in any status but the two last ones.
Cancel == Moves({"draft", "open", "ended"}, "cancelled") /\ wins' = wins

\* The end has come: a visit or the worker closes what is open.  RunScheduledDraw
\* moves whatever it has read to ended, a draft or a cancelled activity as well.
Close ==
    /\ \/ Moves({"open"}, "ended")
       \/ act.mode = "scheduled" /\ Moves({"draft", "open", "cancelled"}, "ended")
    /\ wins' = wins

\* InsertWinnersTx, in a transaction of its own.  It looks at the status, not at
\* the mode, and a live activity's page does not count its rows.
Draw ==
    /\ Moves({"open", "ended"}, "drawn")
    /\ LET places(i) == 0 .. prizes.list[i].stock
       IN IF act.mode = "live" THEN wins' = wins
          ELSE wins' \in {w \in [DOMAIN wins -> UNION {places(i) : i \in DOMAIN wins}] :
                            \A i \in DOMAIN w : w[i] \in places(i)}

Handle(h) == \/ UpdateRead(h) \/ UpdateTx(h) \/ UpdateUiConfig(h)
             \/ PublishRead(h) \/ PublishPrizes(h) \/ PublishCAS(h)
             \/ DetailRead(h) \/ DetailPrizes(h) \/ DetailWins(h) \/ DetailDone(h)

Next == CreateActivity \/ (\E h \in Handlers : Handle(h)) \/ LiveWin \/ LiveUndo
        \/ Cancel \/ Close \/ Draw

Spec == Init /\ [][Next]_vars
-----------------------------------------------------------------------------
(* Properties.                                                             *)

\* Every prize has places, and in live mode a batch of it fits into them.
Drawable(ps, mode) ==
    \A i \in DOMAIN ps : /\ ps[i].stock > 0
                         /\ mode = "live" => ps[i].perRound \in 1 .. ps[i].stock

\* What a publisher puts out is what it checked: the mode and the prizes, which
\* it read in two statements while others were editing, are still those of the
\* activity.  A scheduled draft is also ended, and then drawn, by a ForceDraw that
\* no publisher came before; what it draws from can be drawn all the same.
PublishesWhatItChecked ==
    [][/\ (act.status = "draft" /\ act'.status = "open") =>
             \E h \in Handlers : /\ pr[h].pc = "cas" /\ pr'[h] = Idle
                                 /\ pr[h].prizes = prizes'
                                 /\ pr[h].seen.mode = act'.mode
       /\ (act.status \in {"draft", "cancelled"} /\ act'.status \in {"open", "ended"}) =>
             Drawable(prizes'.list, act'.mode)]_vars

\* A detail page that names a status past draft shows the prizes the activity
\* left draft with, although it reads the row, the prizes and the wins at three
\* moments.  It never shows more places than there are, and of a scheduled
\* activity never fewer than none: all of them before the draw, and afterwards
\* what the winners have left, or all of them if the count has failed.  (A live
\* draw may win more than the stock, and its page then shows a negative number.)
DetailTrue ==
    \A h \in Handlers :
      (pr[h].pc = "shown" /\ pr[h].seen.status # "draft") =>
         /\ pr[h].prizes = frozen
         /\ \A i \in DOMAIN frozen.list :
              LET stock == frozen.list[i].stock
                  left == pr[h].remain[i]
              IN /\ left <= stock
                 /\ pr[h].seen.mode = "scheduled" =>
                      IF pr[h].seen.status = "drawn"
                        THEN left \in {stock, stock - wins[i]} /\ left >= 0
                        ELSE left = stock
=============================================================================
