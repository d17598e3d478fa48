--------------------------- MODULE EditingProofs ---------------------------
(***************************************************************************)
(* Proofs about Editing, for any forms and any number of requests at once. *)
(* Every write of the row takes a new version, so a handler whose version  *)
(* is still that of the row has read the row as it is, and the prizes it   *)
(* read after the row are those of the activity; and what is no draft any  *)
(* more keeps its mode and its prizes.                                     *)
(***************************************************************************)
EXTENDS Editing, TLAPS

Form == [ok : BOOLEAN, mode : {"live", "scheduled"},
         roster : {"", "import", "register", "both"}, start : Nat, end : Nat,
         prizes : Seq([stock : Nat, perRound : Nat, isAll : BOOLEAN])]

ActRow == [mode : {"none", "live", "scheduled"},
           roster : {"none", "import", "register", "both"},
           status : {"none", "draft", "open", "ended", "cancelled", "drawn"},
           version : Nat]

Prize == [stock : Nat, perRound : Nat, isAll : BOOLEAN]
Lists == Seq(Prize)
Prizes == [era : Nat, list : Lists]
Steps == {"idle", "update", "prizes", "cas", "detail", "wins", "shown"}

EditingTypes ==
    /\ act \in ActRow
    /\ prizes \in Prizes
    /\ frozen \in Prizes
    /\ pr \in [Handlers -> [pc : Steps, seen : ActRow, prizes : Prizes, remain : Seq(Int)]]

\* A scheduled activity has no more winners of a prize than places.
WinsFit ==
    /\ DOMAIN wins = DOMAIN prizes.list
    /\ \A i \in DOMAIN wins : /\ wins[i] \in Nat
                              /\ act.mode # "live" => wins[i] <= prizes.list[i].stock

\* An activity has prizes that are accepted for its mode.
Valid == act.status # "none" => ValidatePrizes(prizes.list, act.mode)

PastDraft(status) == status \in {"open", "ended", "cancelled", "drawn"}

\* The prizes an activity left draft with are its prizes.
Settled == PastDraft(act.status) => frozen = prizes

\* A handler that does something has seen the row at a version; the same
\* version is the same row, a row past draft is past draft for good and keeps its
\* mode, and a drawn one stays drawn.
SeenOf(h) ==
    pr[h].pc # "idle" =>
       /\ pr[h].seen.status # "none" /\ act.status # "none"
       /\ pr[h].seen.version <= act.version
       /\ pr[h].seen.version = act.version => pr[h].seen = act
       /\ PastDraft(pr[h].seen.status) =>
            PastDraft(act.status) /\ act.mode = pr[h].seen.mode
       /\ pr[h].seen.status = "drawn" => act.status = "drawn"

\* A publisher has read a draft; its prizes were checked, and are the activity's
\* at that version.
CheckedOf(h) ==
    /\ pr[h].pc \in {"prizes", "cas"} => pr[h].seen.status = "draft"
    /\ pr[h].pc = "cas" =>
       /\ ValidatePrizes(pr[h].prizes.list, pr[h].seen.mode)
       /\ pr[h].seen.version = act.version => pr[h].prizes = prizes

\* Prizes that have the ids of the present ones are the present ones.
SameEra(ps) == ps.era <= act.version /\ (ps.era = prizes.era => ps = prizes)

\* What a page that has seen the row `seen` may show as left of a prize.
Shown(seen, stock, left, won) ==
    /\ left <= stock
    /\ seen.mode = "scheduled" =>
          IF seen.status = "drawn" THEN left \in {stock, stock - won} /\ left >= 0
                                   ELSE left = stock

\* A page's prizes are those the activity left draft with, once it has, and what
\* it shows as left of them is true.
PageOf(h) ==
    /\ (pr[h].pc \in {"wins", "shown"} /\ PastDraft(pr[h].seen.status)) =>
          pr[h].prizes = frozen
    /\ pr[h].pc = "wins" => SameEra(pr[h].prizes)
    /\ pr[h].pc = "shown" =>
          \A i \in DOMAIN pr[h].prizes.list :
             Shown(pr[h].seen, pr[h].prizes.list[i].stock, pr[h].remain[i], wins[i])

HandlerOK(h) == SeenOf(h) /\ CheckedOf(h) /\ PageOf(h)

IInv == EditingTypes /\ WinsFit /\ Valid /\ Settled /\ prizes.era <= act.version
        /\ \A h \in Handlers : HandlerOK(h)
-----------------------------------------------------------------------------
(* The writes.                                                             *)

LEMMA FormsAreTyped == Inputs \subseteq Form
BY EditingAssumption DEF EditingAssumption, Form

LEMMA StoredPrizes ==
  ASSUME NEW s \in Lists
  PROVE  /\ StorePrizes(s) \in Lists
         /\ DOMAIN StorePrizes(s) = DOMAIN s
         /\ DOMAIN Zero(s) = DOMAIN s
         /\ \A i \in DOMAIN s : Zero(s)[i] = 0 /\ 0 <= StorePrizes(s)[i].stock
<1>1. DOMAIN s = 1 .. Len(s) /\ Len(s) \in Nat
  BY DEF Lists
<1>2. \A i \in DOMAIN s : s[i] \in Prize
  BY <1>1 DEF Lists
<1>3. \A i \in DOMAIN s : StorePrizes(s)[i] \in Prize
  <2> SUFFICES ASSUME NEW i \in DOMAIN s
               PROVE  StorePrizes(s)[i] \in Prize
    OBVIOUS
  <2>1. StorePrizes(s)[i] = [s[i] EXCEPT !.perRound = IF s[i].perRound = 0 THEN 1
                                                      ELSE s[i].perRound]
    BY DEF StorePrizes
  <2>2. s[i].perRound \in Nat
    BY <1>2 DEF Prize
  <2> QED
    BY <1>2, <2>1, <2>2 DEF Prize
<1>4. StorePrizes(s) \in [1 .. Len(s) -> Prize]
  BY <1>1, <1>3 DEF StorePrizes
<1>5. StorePrizes(s) \in Lists
  BY <1>1, <1>4 DEF Lists
<1>6. DOMAIN StorePrizes(s) = DOMAIN s /\ DOMAIN Zero(s) = DOMAIN s
  BY DEF StorePrizes, Zero
<1>7. \A i \in DOMAIN s : Zero(s)[i] = 0 /\ 0 <= StorePrizes(s)[i].stock
  BY <1>3 DEF Zero, Prize
<1> QED
  BY <1>5, <1>6, <1>7

LEMMA CheckedAreDrawable ==
  ASSUME NEW ps \in Lists, NEW mode, ValidatePrizes(ps, mode)
  PROVE  Drawable(ps, mode)
<1>1. ASSUME NEW i \in DOMAIN ps
      PROVE  ps[i].stock > 0 /\ (mode = "live" => ps[i].perRound \in 1 .. ps[i].stock)
  <2>1. ps[i] \in Prize
    BY DEF Lists
  <2>2. ps[i].stock \in Nat /\ ps[i].perRound \in Nat
    BY <2>1 DEF Prize
  <2>3. StockLimit \in Nat
    BY DEF StockLimit
  <2>4. /\ ps[i].stock \in 1 .. StockLimit
        /\ mode = "live" => /\ ps[i].perRound \in 1 .. 50
                            /\ ps[i].perRound <= ps[i].stock
    BY DEF ValidatePrizes
  <2> QED
    BY <2>2, <2>3, <2>4
<1> QED
  BY <1>1 DEF Drawable

LEMMA WritesFit ==
  ASSUME NEW in \in Inputs, CheckActivityInput(in), NEW version \in Nat,
         Writes(in, "draft", version)
  PROVE  /\ act' \in ActRow /\ prizes' \in Prizes
         /\ act'.status = "draft" /\ act'.version = version /\ prizes'.era = version
         /\ WinsFit' /\ Valid'
<1>1. in \in Form /\ in.prizes \in Lists
  BY FormsAreTyped DEF Form, Lists, Prize
<1>2. StorePrizes(in.prizes) \in Lists
  BY <1>1, StoredPrizes
<1>3. act' \in ActRow /\ act'.status = "draft" /\ act'.version = version
  BY <1>1 DEF Writes, ActRow, RosterSource, Form
<1>4. prizes' \in Prizes /\ prizes'.list = StorePrizes(in.prizes)
      /\ prizes'.era = version /\ wins' = Zero(in.prizes)
  BY <1>2 DEF Writes, Prizes
<1>5. WinsFit'
  BY <1>1, <1>4, StoredPrizes DEF WinsFit
<1>6. Valid'
  BY <1>4 DEF Valid, CheckActivityInput, Writes
<1> QED
  BY <1>3, <1>4, <1>5, <1>6

\* A handler that does not move keeps what holds of it when the row goes on to
\* a new version, and what is past draft keeps its mode and its prizes, and what
\* is drawn its winners.
LEMMA OthersStayOK ==
  ASSUME IInv, NEW h \in Handlers, pr'[h] = pr[h],
         \/ /\ act' = act /\ prizes' = prizes /\ frozen' = frozen
            /\ act.mode # "live" => wins' = wins
         \/ /\ act' \in ActRow
            /\ act.status \notin {"none", "drawn"} /\ act'.status # "none"
            /\ act'.version = act.version + 1
            /\ prizes' = prizes \/ prizes'.era = act'.version
            /\ PastDraft(act.status) =>
                 PastDraft(act'.status) /\ frozen' = frozen /\ act'.mode = act.mode
  PROVE  HandlerOK(h)'
<1>1. /\ HandlerOK(h) /\ pr[h].seen \in ActRow /\ act.version \in Nat
      /\ pr[h].seen.version \in Nat /\ pr[h].prizes.era \in Nat /\ prizes.era \in Nat
  BY DEF IInv, EditingTypes, ActRow, Prizes
<1>2. CASE /\ act' = act /\ prizes' = prizes /\ frozen' = frozen
           /\ act.mode # "live" => wins' = wins
  <2>1. SeenOf(h)' /\ CheckedOf(h)'
    BY <1>1, <1>2 DEF HandlerOK, SeenOf, CheckedOf
  <2>2. pr[h].pc = "shown" /\ pr[h].seen.mode = "scheduled" /\ pr[h].seen.status = "drawn"
          => wins' = wins
    BY <1>1, <1>2 DEF HandlerOK, SeenOf, PastDraft
  <2>3. PageOf(h)'
    BY <1>1, <1>2, <2>2 DEF HandlerOK, PageOf, SameEra, Shown
  <2> QED
    BY <2>1, <2>3 DEF HandlerOK
<1>3. CASE /\ act' \in ActRow
           /\ act.status \notin {"none", "drawn"} /\ act'.status # "none"
           /\ act'.version = act.version + 1
           /\ prizes' = prizes \/ prizes'.era = act'.version
           /\ PastDraft(act.status) =>
                PastDraft(act'.status) /\ frozen' = frozen /\ act'.mode = act.mode
  <2>1. pr[h].pc # "idle" => pr[h].seen.version < act'.version
    BY <1>1, <1>3 DEF HandlerOK, SeenOf
  <2>2. SeenOf(h)'
    BY <1>1, <1>3, <2>1 DEF HandlerOK, SeenOf
  <2>3. CheckedOf(h)'
    BY <1>1, <1>3, <2>1 DEF HandlerOK, CheckedOf
  <2>5. pr[h].pc # "idle" => pr[h].seen.status # "drawn"
    BY <1>1, <1>3 DEF HandlerOK, SeenOf
  <2>4. PageOf(h)'
    BY <1>1, <1>3, <2>5 DEF HandlerOK, SeenOf, PageOf, SameEra, Shown
  <2> QED
    BY <2>2, <2>3, <2>4 DEF HandlerOK
<1> QED
  BY <1>2, <1>3
-----------------------------------------------------------------------------
(* The actions.                                                            *)

\* A handler goes on by itself: the tables stay.
LEMMA HandlerMoves ==
  ASSUME IInv, NEW h \in Handlers, act' = act, prizes' = prizes, wins' = wins, frozen' = frozen,
         NEW r \in [pc : Steps, seen : ActRow, prizes : Prizes, remain : Seq(Int)],
         Goto(h, r), HandlerOK(h)'
  PROVE  IInv'
<1>1. EditingTypes'
  BY DEF IInv, EditingTypes, Goto
<1>2. WinsFit' /\ Valid' /\ Settled' /\ prizes'.era <= act'.version
  BY DEF IInv, WinsFit, Valid, Settled
<1>3. ASSUME NEW g \in Handlers PROVE HandlerOK(g)'
  <2>1. CASE g # h
    <3>1. pr'[g] = pr[g]
      BY <2>1 DEF IInv, EditingTypes, Goto
    <3> QED
      BY <3>1, OthersStayOK
  <2> QED
    BY <2>1
<1> QED
  BY <1>1, <1>2, <1>3 DEF IInv

LEMMA IdleIsOK ==
  ASSUME NEW h \in Handlers, pr'[h] = Idle
  PROVE  HandlerOK(h)'
BY DEF HandlerOK, SeenOf, CheckedOf, PageOf, Idle

LEMMA IdleTyped == Idle \in [pc : Steps, seen : ActRow, prizes : Prizes, remain : Seq(Int)]
<1>1. <<>> \in Lists /\ <<>> \in Seq(Int)
  BY DEF Lists
<1> QED
  BY <1>1 DEF Idle, Steps, ActRow, Prizes, NoAct, NoPrizes

LEMMA ReadsKeep ==
  ASSUME IInv, NEW h \in Handlers, NEW pc \in {"update", "prizes", "detail"}, Reads(h, pc),
         pc = "prizes" => act.status = "draft"
  PROVE  IInv'
<1> DEFINE r == [Idle EXCEPT !.pc = pc, !.seen = act]
<1>1. r \in [pc : Steps, seen : ActRow, prizes : Prizes, remain : Seq(Int)]
  BY IdleTyped DEF IInv, EditingTypes, Steps
<1>2. r.pc = pc /\ r.seen = act
  BY DEF Idle
<1>3. pr'[h] = r /\ Goto(h, r) /\ act.status # "none"
      /\ act' = act /\ prizes' = prizes /\ wins' = wins /\ frozen' = frozen
  BY DEF Reads, Goto, IInv, EditingTypes
<1> HIDE DEF r
<1>4. HandlerOK(h)'
  <2>1. act.version \in Nat
    BY DEF IInv, EditingTypes, ActRow
  <2> QED
    BY <1>2, <1>3, <2>1 DEF HandlerOK, SeenOf, CheckedOf, PageOf
<1> QED
  BY <1>1, <1>3, <1>4, HandlerMoves

LEMMA UpdateTxKeeps ==
  ASSUME IInv, NEW h \in Handlers, UpdateTx(h)
  PROVE  IInv'
<1>1. pr[h].pc = "update" /\ Goto(h, Idle) /\ frozen' = frozen
  BY DEF UpdateTx
<1>2. CASE UNCHANGED <<act, prizes, wins>>
  <2>1. pr'[h] = Idle
    BY <1>1 DEF IInv, EditingTypes, Goto
  <2> QED
    BY <1>1, <1>2, <2>1, IdleIsOK, IdleTyped, HandlerMoves
<1>3. CASE /\ act.status = "draft"
           /\ \E in \in Inputs :
                CheckActivityInput(in) /\ Writes(in, "draft", act.version + 1)
  <2>1. act.version + 1 \in Nat
    BY DEF IInv, EditingTypes, ActRow
  <2>2. /\ act' \in ActRow /\ prizes' \in Prizes /\ act'.status = "draft"
        /\ act'.version = act.version + 1 /\ prizes'.era = act'.version
        /\ WinsFit' /\ Valid'
    BY <1>3, <2>1, WritesFit
  <2>3. EditingTypes'
    BY <1>1, <2>2, IdleTyped DEF IInv, EditingTypes, Goto
  <2>4. Settled'
    BY <2>2 DEF Settled, PastDraft
  <2>5. ASSUME NEW g \in Handlers PROVE HandlerOK(g)'
    <3>1. CASE g = h
      <4>1. pr'[g] = Idle
        BY <1>1, <3>1 DEF IInv, EditingTypes, Goto
      <4> QED
        BY <4>1, IdleIsOK
    <3>2. CASE g # h
      <4>1. pr'[g] = pr[g]
        BY <1>1, <3>2 DEF IInv, EditingTypes, Goto
      <4>2. ~PastDraft(act.status)
        BY <1>3 DEF PastDraft
      <4> QED
        BY <1>3, <2>2, <4>1, <4>2, OthersStayOK DEF IInv
    <3> QED
      BY <3>1, <3>2
  <2>6. prizes'.era <= act'.version
    BY <2>1, <2>2
  <2>7. act.status # "none" /\ act'.status # "none"
    BY <1>3, <2>2
  <2> QED
    BY <2>2, <2>3, <2>4, <2>5, <2>6 DEF IInv
<1> QED
  BY <1>2, <1>3 DEF UpdateTx

LEMMA PublishPrizesKeeps ==
  ASSUME IInv, NEW h \in Handlers, PublishPrizes(h)
  PROVE  IInv'
<1>1. /\ pr[h].pc = "prizes" /\ act' = act /\ prizes' = prizes
      /\ wins' = wins /\ frozen' = frozen
  BY DEF PublishPrizes
<1>2. CASE ~ValidatePrizes(prizes.list, pr[h].seen.mode)
  <2>1. Goto(h, Idle) /\ pr'[h] = Idle
    BY <1>2 DEF PublishPrizes, IInv, EditingTypes, Goto
  <2> QED
    BY <1>1, <2>1, IdleIsOK, IdleTyped, HandlerMoves
<1>3. CASE ValidatePrizes(prizes.list, pr[h].seen.mode)
  <2> DEFINE r == [pr[h] EXCEPT !.pc = "cas", !.prizes = prizes]
  <2>1. r \in [pc : Steps, seen : ActRow, prizes : Prizes, remain : Seq(Int)]
        /\ r.pc = "cas" /\ r.seen = pr[h].seen /\ r.prizes = prizes
    BY DEF IInv, EditingTypes, Steps
  <2>2. Goto(h, r) /\ pr'[h] = r
    BY <1>3 DEF PublishPrizes, IInv, EditingTypes, Goto
  <2> HIDE DEF r
  <2>3. pr[h].seen.status = "draft" /\ SeenOf(h)
    BY <1>1 DEF IInv, HandlerOK, CheckedOf
  <2>4. HandlerOK(h)'
    BY <1>1, <1>3, <2>1, <2>2, <2>3 DEF HandlerOK, SeenOf, CheckedOf, PageOf
  <2> QED
    BY <1>1, <2>1, <2>2, <2>4, HandlerMoves
<1> QED
  BY <1>2, <1>3

\* The compare-and-set finds the row as the publisher read it, and with it the
\* prizes it checked.
LEMMA PublishCASKeeps ==
  ASSUME IInv, NEW h \in Handlers, PublishCAS(h)
  PROVE  /\ IInv'
         /\ CASWins(pr[h].seen) =>
              /\ pr[h].pc = "cas" /\ pr'[h] = Idle
              /\ pr[h].prizes = prizes' /\ pr[h].seen = act /\ act'.mode = act.mode
              /\ ValidatePrizes(prizes'.list, act'.mode)
<1>1. /\ pr[h].pc = "cas" /\ Goto(h, Idle) /\ pr'[h] = Idle
      /\ prizes' = prizes /\ wins' = wins
  BY DEF PublishCAS, IInv, EditingTypes, Goto
<1>2. CASE ~CASWins(pr[h].seen)
  BY <1>1, <1>2, IdleIsOK, IdleTyped, HandlerMoves DEF PublishCAS
<1>3. CASE CASWins(pr[h].seen)
  <2>1. pr[h].seen = act /\ act.status = "draft" /\ pr[h].prizes = prizes
        /\ ValidatePrizes(prizes.list, act.mode)
    BY <1>1, <1>3 DEF IInv, HandlerOK, SeenOf, CheckedOf, CASWins
  <2>2. act' = [act EXCEPT !.status = "open", !.version = act.version + 1] /\ frozen' = prizes
    BY <1>3 DEF PublishCAS
  <2>3. /\ act' \in ActRow /\ act'.status = "open" /\ act'.version = act.version + 1
        /\ act'.mode = act.mode
    <3>1. act \in ActRow /\ act.version + 1 \in Nat
      BY DEF IInv, EditingTypes, ActRow
    <3> QED
      BY <2>2, <3>1 DEF ActRow
  <2>4. EditingTypes'
    BY <1>1, <2>2, <2>3, IdleTyped DEF IInv, EditingTypes, Goto
  <2>5. Settled' /\ WinsFit' /\ Valid'
    BY <1>1, <2>1, <2>2, <2>3 DEF IInv, Settled, WinsFit, Valid
  <2>7. prizes'.era <= act'.version
    BY <1>1, <2>3 DEF IInv, EditingTypes, Prizes, ActRow
  <2>6. ASSUME NEW g \in Handlers PROVE HandlerOK(g)'
    <3>1. CASE g = h
      BY <1>1, <3>1, IdleIsOK
    <3>2. CASE g # h
      <4>1. pr'[g] = pr[g]
        BY <1>1, <3>2 DEF IInv, EditingTypes, Goto
      <4>2. /\ ~PastDraft(act.status)
            /\ act.status \notin {"none", "drawn"} /\ act'.status # "none"
        BY <2>1, <2>3 DEF PastDraft
      <4> QED
        BY <1>1, <2>3, <4>1, <4>2, OthersStayOK
    <3> QED
      BY <3>1, <3>2
  <2> QED
    BY <1>1, <2>1, <2>3, <2>4, <2>5, <2>6, <2>7 DEF IInv
<1> QED
  BY <1>2, <1>3

LEMMA DetailKeeps ==
  ASSUME IInv, NEW h \in Handlers, DetailPrizes(h) \/ DetailWins(h) \/ DetailDone(h)
  PROVE  IInv'
<1>1. act' = act /\ prizes' = prizes /\ wins' = wins /\ frozen' = frozen
  BY DEF DetailPrizes, DetailWins, DetailDone
<1>2. HandlerOK(h) /\ Settled /\ WinsFit
      /\ pr[h] \in [pc : Steps, seen : ActRow, prizes : Prizes, remain : Seq(Int)]
  BY DEF IInv, EditingTypes
<1>3. CASE DetailPrizes(h)
  <2> DEFINE r == [pr[h] EXCEPT !.pc = "wins", !.prizes = prizes]
  <2>1. r \in [pc : Steps, seen : ActRow, prizes : Prizes, remain : Seq(Int)]
        /\ r.pc = "wins" /\ r.seen = pr[h].seen /\ r.prizes = prizes
    BY <1>2 DEF IInv, EditingTypes, Steps
  <2>2. Goto(h, r) /\ pr'[h] = r /\ pr[h].pc = "detail"
    BY <1>3 DEF DetailPrizes, IInv, EditingTypes, Goto
  <2> HIDE DEF r
  <2>3. HandlerOK(h)'
    BY <1>1, <1>2, <2>1, <2>2 DEF HandlerOK, SeenOf, CheckedOf, PageOf, Settled,
                                         SameEra, IInv, EditingTypes, Prizes, ActRow
  <2> QED
    BY <1>1, <2>1, <2>2, <2>3, HandlerMoves
<1>4. CASE DetailWins(h)
  <2> DEFINE seen == pr[h].seen
             shown == pr[h].prizes.list
             counted == seen.mode = "live" \/ seen.status = "drawn"
             won == IF counted /\ prizes.era = pr[h].prizes.era THEN wins ELSE Zero(shown)
  <2>1. PICK count \in {won, Zero(shown)} :
          Goto(h, [pr[h] EXCEPT !.pc = "shown",
                     !.remain = [i \in DOMAIN shown |-> shown[i].stock - count[i]]])
    BY <1>4 DEF DetailWins
  <2> DEFINE left == [i \in DOMAIN shown |-> shown[i].stock - count[i]]
             r == [pr[h] EXCEPT !.pc = "shown", !.remain = left]
  <2>2. pr[h].pc = "wins" /\ Goto(h, r)
    BY <1>4, <2>1 DEF DetailWins
  <2>3. shown \in Lists /\ SameEra(pr[h].prizes)
    BY <1>2, <2>2 DEF HandlerOK, PageOf, Prizes
  <2>4. DOMAIN shown = 1 .. Len(shown) /\ Len(shown) \in Nat
    BY <2>3 DEF Lists
  <2>5. \A i \in DOMAIN shown : shown[i].stock \in Nat
    <3>1. \A i \in DOMAIN shown : shown[i] \in Prize
      BY <2>3, <2>4 DEF Lists
    <3> QED
      BY <3>1 DEF Prize
  <2>6. \A i \in DOMAIN shown : Zero(shown)[i] = 0 /\ won[i] \in Nat
    <3>1. \A i \in DOMAIN shown : Zero(shown)[i] = 0
      BY DEF Zero
    <3>2. prizes.era = pr[h].prizes.era => \A i \in DOMAIN shown : wins[i] \in Nat
      BY <1>2, <2>3 DEF WinsFit, SameEra
    <3>3. won = Zero(shown) \/ (prizes.era = pr[h].prizes.era /\ won = wins)
      OBVIOUS
    <3> HIDE DEF shown, won
    <3> QED
      BY <3>1, <3>2, <3>3
  <2>7. ASSUME seen.mode = "scheduled", seen.status # "drawn"
        PROVE  \A i \in DOMAIN shown : Shown(seen, shown[i].stock, left[i], wins[i])
    <3>1. won = Zero(shown)
      BY <2>7
    <3>2. \A i \in DOMAIN shown : count[i] = 0
      BY <2>6, <3>1
    <3> HIDE DEF shown, won, seen
    <3> QED
      BY <2>5, <2>7, <3>2 DEF Shown
  <2>8. ASSUME seen.mode = "scheduled", seen.status = "drawn"
        PROVE  \A i \in DOMAIN shown : Shown(seen, shown[i].stock, left[i], wins[i])
    <3>1. act.status = "drawn" /\ act.mode = "scheduled" /\ pr[h].prizes = frozen
      BY <1>2, <2>2, <2>8 DEF HandlerOK, SeenOf, PageOf, PastDraft
    <3>2. pr[h].prizes = prizes
      BY <1>2, <3>1 DEF Settled, PastDraft
    <3>3. won = wins /\ DOMAIN wins = DOMAIN shown
      BY <1>2, <2>8, <3>2 DEF WinsFit
    <3>4. \A i \in DOMAIN shown : won[i] \in Nat /\ won[i] <= shown[i].stock
      BY <1>2, <2>6, <3>1, <3>2, <3>3 DEF WinsFit
    <3>5. \A i \in DOMAIN shown : count[i] = 0 \/ count[i] = won[i]
      BY <2>6
    <3> HIDE DEF shown, won, seen
    <3>6. \A i \in DOMAIN shown : Shown(seen, shown[i].stock, left[i], won[i])
      BY <2>5, <2>8, <3>4, <3>5 DEF Shown
    <3> QED
      BY <3>3, <3>6
  <2>9. ASSUME seen.mode # "scheduled"
        PROVE  \A i \in DOMAIN shown : Shown(seen, shown[i].stock, left[i], wins[i])
    <3>1. \A i \in DOMAIN shown : count[i] \in Nat
      BY <2>6
    <3> HIDE DEF shown, won, seen
    <3> QED
      BY <2>5, <2>9, <3>1 DEF Shown
  <2>10. \A i \in DOMAIN shown : Shown(seen, shown[i].stock, left[i], wins[i])
    BY <2>7, <2>8, <2>9
  <2>11. \A i \in DOMAIN shown : count[i] \in Nat
    BY <2>6
  <2> HIDE DEF shown, won, seen
  <2>12. left \in [1 .. Len(shown) -> Int]
    BY <2>4, <2>5, <2>11
  <2>13. left \in Seq(Int)
    BY <2>4, <2>12
  <2> HIDE DEF left
  <2>14. r \in [pc : Steps, seen : ActRow, prizes : Prizes, remain : Seq(Int)]
         /\ r.pc = "shown" /\ r.seen = pr[h].seen /\ r.prizes = pr[h].prizes /\ r.remain = left
    BY <1>2, <2>13 DEF Steps
  <2>15. pr'[h] = r
    BY <2>2 DEF IInv, EditingTypes, Goto
  <2> HIDE DEF r
  <2>16. HandlerOK(h)'
    BY <1>1, <1>2, <2>2, <2>10, <2>14, <2>15 DEF HandlerOK, SeenOf, CheckedOf, PageOf, shown, seen
  <2> QED
    BY <1>1, <2>2, <2>14, <2>16, HandlerMoves
<1>5. CASE DetailDone(h)
  <2>1. Goto(h, Idle) /\ pr'[h] = Idle
    BY <1>5 DEF DetailDone, IInv, EditingTypes, Goto
  <2> QED
    BY <1>1, <2>1, IdleIsOK, IdleTyped, HandlerMoves
<1> QED
  BY <1>3, <1>4, <1>5

LEMMA CreateKeeps ==
  ASSUME IInv, CreateActivity
  PROVE  IInv'
<1>1. PICK in \in Inputs : CheckActivityInput(in) /\ Writes(in, "draft", 0)
  BY DEF CreateActivity
<1>2. /\ act' \in ActRow /\ prizes' \in Prizes /\ act'.status = "draft"
      /\ act'.version = 0 /\ prizes'.era = 0 /\ WinsFit' /\ Valid'
  BY <1>1, WritesFit
<1>3. act.status = "none" /\ pr' = pr /\ frozen' = frozen
  BY DEF CreateActivity
<1>4. EditingTypes' /\ Settled'
  BY <1>2, <1>3 DEF IInv, EditingTypes, Settled, PastDraft
<1>5. \A h \in Handlers : pr[h].pc = "idle"
  BY <1>3 DEF IInv, HandlerOK, SeenOf
<1>6. \A h \in Handlers : HandlerOK(h)'
  BY <1>3, <1>5 DEF HandlerOK, SeenOf, CheckedOf, PageOf
<1> QED
  BY <1>2, <1>4, <1>6 DEF IInv

\* Wins of a live activity come and go: they are counted, and bounded by nothing.
LEMMA LiveWinsKeep ==
  ASSUME IInv, LiveWin \/ LiveUndo
  PROVE  IInv'
<1>1. /\ act' = act /\ prizes' = prizes /\ pr' = pr /\ frozen' = frozen
      /\ act.mode = "live"
  BY DEF LiveWin, LiveUndo
<1>2. DOMAIN wins' = DOMAIN wins /\ \A i \in DOMAIN wins : wins'[i] \in Nat
  <2>1. CASE LiveWin
    <3>1. PICK i \in DOMAIN wins : wins' = [wins EXCEPT ![i] = wins[i] + 1]
      BY <2>1 DEF LiveWin
    <3>2. DOMAIN wins' = DOMAIN wins /\ wins'[i] = wins[i] + 1
          /\ \A j \in DOMAIN wins : j # i => wins'[j] = wins[j]
      BY <3>1
    <3>3. \A j \in DOMAIN wins : wins[j] \in Nat
      BY DEF IInv, WinsFit
    <3> QED
      BY <3>2, <3>3
  <2>2. CASE LiveUndo
    <3>1. PICK w \in [DOMAIN wins -> 0 .. MaxWins] : wins' = w
      BY <2>2 DEF LiveUndo
    <3>2. MaxWins \in Nat
      BY EditingAssumption DEF EditingAssumption
    <3> QED
      BY <3>1, <3>2
  <2> QED
    BY <2>1, <2>2
<1>3. WinsFit' /\ Valid' /\ Settled' /\ EditingTypes'
  BY <1>1, <1>2 DEF IInv, WinsFit, Valid, Settled, EditingTypes
<1>4. \A h \in Handlers : HandlerOK(h)'
  BY <1>1, OthersStayOK
<1> QED
  BY <1>1, <1>3, <1>4 DEF IInv

\* A status that moves on takes a version and leaves draft with the prizes there are.
LEMMA MoveKeeps ==
  ASSUME IInv, NEW from \in SUBSET {"draft", "open", "ended", "cancelled"},
         NEW to \in {"ended", "cancelled", "drawn"}, Moves(from, to), WinsFit'
  PROVE  IInv'
<1>1. /\ prizes' = prizes /\ pr' = pr /\ act.status \in from
      /\ frozen' = (IF act.status = "draft" THEN prizes ELSE frozen)
  BY DEF Moves
<1>2. act \in ActRow /\ act.version + 1 \in Nat
  BY DEF IInv, EditingTypes, ActRow
<1>3. /\ act' \in ActRow /\ act'.status = to /\ act'.mode = act.mode
      /\ act'.version = act.version + 1
  BY <1>2 DEF Moves, ActRow
<1>4. EditingTypes' /\ Settled' /\ Valid'
  BY <1>1, <1>3 DEF IInv, EditingTypes, Settled, PastDraft, Valid
<1>5. \A h \in Handlers : HandlerOK(h)'
  BY <1>1, <1>3, OthersStayOK DEF PastDraft
<1>6. prizes'.era <= act'.version
  BY <1>1, <1>2, <1>3 DEF IInv, EditingTypes, Prizes, ActRow
<1> QED
  BY <1>4, <1>5, <1>6 DEF IInv

LEMMA LifeKeeps ==
  ASSUME IInv, Cancel \/ Close \/ Draw
  PROVE  IInv'
<1>1. ASSUME NEW from, NEW to, Moves(from, to), wins' = wins
      PROVE  WinsFit'
  <2>1. prizes' = prizes /\ act'.mode = act.mode
    BY <1>1 DEF Moves, IInv, EditingTypes, ActRow
  <2> QED
    BY <1>1, <2>1 DEF IInv, WinsFit
<1>2. CASE Cancel
  BY <1>1, <1>2, MoveKeeps DEF Cancel
<1>3. CASE Close
  BY <1>1, <1>3, MoveKeeps DEF Close
<1>4. CASE Draw
  <2>1. Moves({"open", "ended"}, "drawn") /\ prizes' = prizes /\ act'.mode = act.mode
    BY <1>4 DEF Draw, Moves, IInv, EditingTypes, ActRow
  <2>2. CASE act.mode # "live"
    <3>1. /\ DOMAIN wins' = DOMAIN wins
          /\ \A i \in DOMAIN wins : wins'[i] \in 0 .. prizes.list[i].stock
      BY <1>4, <2>2 DEF Draw
    <3>2. \A i \in DOMAIN wins : prizes.list[i].stock \in Nat
      <4>1. DOMAIN wins = 1 .. Len(prizes.list) /\ prizes.list \in Seq(Prize)
        BY DEF IInv, WinsFit, EditingTypes, Prizes, Lists
      <4>2. \A i \in DOMAIN wins : prizes.list[i] \in Prize
        BY <4>1
      <4> QED
        BY <4>2 DEF Prize
    <3>3. WinsFit'
      BY <2>1, <3>1, <3>2 DEF IInv, WinsFit
    <3> QED
      BY <2>1, <3>3, MoveKeeps
  <2>3. CASE act.mode = "live"
    BY <1>1, <1>4, <2>1, <2>3, MoveKeeps DEF Draw
  <2> QED
    BY <2>2, <2>3
<1> QED
  BY <1>2, <1>3, <1>4

LEMMA StaysPut ==
  ASSUME IInv, act' = act, prizes' = prizes, wins' = wins, pr' = pr, frozen' = frozen
  PROVE  IInv'
BY DEF IInv, EditingTypes, WinsFit, Valid, Settled, HandlerOK, SeenOf, CheckedOf, PageOf,
       SameEra
-----------------------------------------------------------------------------
(* The theorems.                                                           *)

LEMMA Initially == Init => IInv
<1> SUFFICES ASSUME Init PROVE IInv
  OBVIOUS
<1>1. <<>> \in Lists /\ DOMAIN <<>> = {}
  BY DEF Lists
<1>2. EditingTypes
  BY <1>1, IdleTyped DEF Init, EditingTypes, NoAct, NoPrizes, ActRow, Prizes
<1>3. WinsFit /\ Valid /\ Settled /\ prizes.era <= act.version
  BY <1>1 DEF Init, WinsFit, Valid, Settled, PastDraft, NoAct, NoPrizes
<1>4. \A h \in Handlers : HandlerOK(h)
  BY DEF Init, Idle, HandlerOK, SeenOf, CheckedOf, PageOf
<1> QED
  BY <1>2, <1>3, <1>4 DEF IInv

LEMMA Inductive == IInv /\ [Next]_vars => IInv'
<1> SUFFICES ASSUME IInv, [Next]_vars PROVE IInv'
  OBVIOUS
<1>1. ASSUME NEW h \in Handlers, Handle(h) PROVE IInv'
  <2>1. CASE UpdateRead(h) \/ PublishRead(h) \/ DetailRead(h)
    BY <2>1, ReadsKeep DEF UpdateRead, PublishRead, DetailRead
  <2>2. CASE UpdateUiConfig(h)
    BY <2>2, StaysPut DEF UpdateUiConfig
  <2> QED
    BY <1>1, <2>1, <2>2, UpdateTxKeeps, PublishPrizesKeeps, PublishCASKeeps, DetailKeeps
       DEF Handle
<1>2. CASE UNCHANGED vars
  BY <1>2, StaysPut DEF vars
<1> QED
  BY <1>1, <1>2, CreateKeeps, LiveWinsKeep, LifeKeeps DEF Next

LEMMA IInvHolds == Spec => []IInv
BY Initially, Inductive, PTL DEF Spec

\* A detail page that names a status past draft shows the prizes the activity
\* left draft with and never more places than there are; of a scheduled activity it
\* shows all of them before the draw and what the winners left of them afterwards
\* (or all, if the count failed), although it reads the row, the prizes and the
\* wins at three moments.
THEOREM DetailIsTrue == Spec => []DetailTrue
<1>1. IInv => DetailTrue
  <2> SUFFICES ASSUME IInv, NEW h \in Handlers, pr[h].pc = "shown",
                      pr[h].seen.status # "draft"
               PROVE  /\ pr[h].prizes = frozen
                      /\ \A i \in DOMAIN frozen.list :
                            Shown(pr[h].seen, frozen.list[i].stock, pr[h].remain[i], wins[i])
    BY DEF DetailTrue, Shown
  <2>1. HandlerOK(h) /\ pr[h].seen \in ActRow
    BY DEF IInv, EditingTypes
  <2>2. PastDraft(pr[h].seen.status)
    BY <2>1 DEF HandlerOK, SeenOf, ActRow, PastDraft
  <2> QED
    BY <2>1, <2>2 DEF HandlerOK, PageOf
<1> QED
  BY <1>1, IInvHolds, PTL

\* Whoever edits at the same time, the activity that a publisher puts out has the
\* mode and the prizes it read and checked, and what is opened or, by a ForceDraw,
\* ended without a publisher can be drawn.
THEOREM PublishedAsChecked == Spec => PublishesWhatItChecked
<1>1. ASSUME IInv, [Next]_vars, act.status = "draft", act'.status = "open"
      PROVE  \E h \in Handlers : /\ pr[h].pc = "cas" /\ pr'[h] = Idle
                                 /\ pr[h].prizes = prizes'
                                 /\ pr[h].seen.mode = act'.mode
  <2>1. PICK h \in Handlers : PublishCAS(h) /\ CASWins(pr[h].seen)
    <3>1. ASSUME NEW h \in Handlers, Handle(h) PROVE PublishCAS(h) /\ CASWins(pr[h].seen)
      <4>1. CASE UpdateTx(h)
        <5>1. act'.status = "draft"
          BY <1>1, <4>1 DEF UpdateTx, Writes
        <5> QED
          BY <1>1, <5>1
      <4>2. CASE PublishCAS(h)
        BY <1>1, <4>2 DEF PublishCAS
      <4>3. CASE ~UpdateTx(h) /\ ~PublishCAS(h)
        BY <1>1, <3>1, <4>3 DEF Handle, UpdateRead, UpdateUiConfig, PublishRead, PublishPrizes,
                         DetailRead, DetailPrizes, DetailWins, DetailDone, Reads
      <4> QED
        BY <4>1, <4>2, <4>3
    <3>2. CASE CreateActivity \/ LiveWin \/ LiveUndo \/ UNCHANGED vars
      BY <1>1, <3>2 DEF CreateActivity, LiveWin, LiveUndo, vars
    <3>3. CASE Cancel \/ Close \/ Draw
      <4>1. act \in ActRow /\ act'.status \in {"ended", "cancelled", "drawn"}
        BY <1>1, <3>3 DEF Cancel, Close, Draw, Moves, IInv, EditingTypes, ActRow
      <4> QED
        BY <1>1, <4>1
    <3> QED
      BY <1>1, <3>1, <3>2, <3>3 DEF Next
  <2> QED
    BY <1>1, <2>1, PublishCASKeeps
<1>2. ASSUME IInv, [Next]_vars, act'.status \in {"open", "ended"}
      PROVE  Drawable(prizes'.list, act'.mode)
  <2>1. Valid' /\ prizes'.list \in Lists
    BY <1>2, Inductive DEF IInv, EditingTypes, Prizes
  <2>2. ValidatePrizes(prizes'.list, act'.mode)
    BY <1>2, <2>1 DEF Valid
  <2> QED
    BY <2>1, <2>2, CheckedAreDrawable
<1> QED
  BY <1>1, <1>2, IInvHolds, PTL DEF Spec, PublishesWhatItChecked
=============================================================================
