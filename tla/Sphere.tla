------------------------------- MODULE Sphere -------------------------------
(***************************************************************************)
(* The live screen (web/console/src/live/sphere.ts, pages/Live.tsx): the   *)
(* slots of the ball, the host's space bar, the poll of /participants every *)
(* second, whose answers may overtake each other, and the one draw under    *)
(* way.  The hub behind it is a list; module Hub has its steps.             *)
(*                                                                         *)
(* Abstracted: geometry, tweens but for their ends, confetti, toasts.  A    *)
(* handler of the page runs to its next await in one step, and React has    *)
(* rendered before the next event.                                          *)
(***************************************************************************)
EXTENDS Naturals, Sequences, FiniteSets, Functions, SequencesExt

CONSTANTS
    Names,
    Crowd,          \* how many people of each name may join
    Cards,          \* TOTAL_CARDS
    PerDraw,        \* the 3 of lotteryDraw(3)
    Pulls,          \* polls that may be under way at once
    Blank,          \* PLACEHOLDER, which is no valid name
    MaxTweens,      \* bound: highlights whose animation has not ended
    MaxFaults       \* bound: lost answers plus reloads of the page

ASSUME SphereAssumption ==
    /\ Crowd \in [Names -> Nat]
    /\ Blank \notin Names
    /\ Cards \in Nat \ {0}
    /\ PerDraw \in Nat \ {0}
    /\ MaxTweens \in Nat
    /\ MaxFaults \in Nat

Slot == 1 .. Cards

VARIABLES
    pool,       \* the hub: the names that can be drawn, in the order they joined
    toCome,     \* how many people of each name have not joined yet
    polls,      \* per poll: [at: "none" or "answered", names]
    request,    \* /draw: "none", "sent", "answered" or "refused"
    answer,     \* the winners in its answer
    names,      \* LotterySphere.names
    slots,      \* slotNames
    labels,     \* the name each card shows
    selected,   \* selectedCardIndex
    luckys,     \* currentLuckys
    prize,      \* the cards with the class "prize"
    isLotting,
    rotating,   \* whether rotateTween is set
    phase,      \* of Live.tsx; it is busy while a draw is under way
    tweens,     \* highlights whose onComplete is to come
    faults

hub == <<pool, toCome>>
ball == <<names, slots, labels, selected, luckys, prize>>
vars == <<hub, polls, request, answer, ball, isLotting, rotating, phase, tweens, faults>>

NoPoll == [at |-> "none", names |-> <<>>]
Blanks == [i \in Slot |-> Blank]

TypeOK ==
    /\ pool \in Seq(Names)
    /\ toCome \in [Names -> Nat]
    /\ polls \in [Pulls -> [at : {"none", "answered"}, names : Seq(Names)]]
    /\ request \in {"none", "sent", "answered", "refused"}
    /\ answer \in Seq(Names)
    /\ names \in Seq(Names)
    /\ slots \in [Slot -> Names \cup {Blank}]
    /\ labels \in [Slot -> Names \cup {Blank}]
    /\ selected \in Seq(Slot)
    /\ luckys \in Seq(Names)
    /\ prize \in SUBSET Slot
    /\ isLotting \in BOOLEAN
    /\ rotating \in BOOLEAN
    /\ phase \in {"table", "sphere", "spinning", "result"}
    /\ request # "none" => phase = "spinning" /\ ~rotating
    /\ tweens \in 0 .. MaxTweens
    /\ faults \in 0 .. MaxFaults

Fault == faults < MaxFaults /\ faults' = faults + 1

Count(s, x) == Cardinality({k \in DOMAIN s : s[k] = x})

-----------------------------------------------------------------------------
(* syncSlots: each name keeps its slots, the leftmost of them first, as far   *)
(* as the list has it; the names of the list that have no slot then take the *)
(* empty ones, in order, while there are any.                                *)

\* The elements of a list at these positions
Only(list, at) ==
    [r \in 1 .. Cardinality(at) |->
       list[CHOOSE k \in at : Cardinality({j \in at : j <= k}) = r]]

\* Mutant: who leaves the list keeps the slot.
KeptAlways(old, want, i) == old[i] # Blank

Kept(old, want, i) ==
    /\ old[i] # Blank
    /\ Cardinality({j \in 1 .. i : old[j] = old[i]}) <= Count(want, old[i])

\* Of want, the names beyond those that keep a slot
Newcomers(old, want) ==
    LET Keeps(n) == Cardinality({i \in Slot : Kept(old, want, i) /\ old[i] = n})
        new == {k \in DOMAIN want :
                   Cardinality({j \in 1 .. k : want[j] = want[k]}) > Keeps(want[k])}
    IN Only(want, new)

\* Mutant: the slots are dealt anew.
SyncSlotsAnew(old, want) ==
    [i \in Slot |-> IF i <= Len(want) THEN want[i] ELSE Blank]

SyncSlots(old, want) ==
    LET free == {i \in Slot : ~Kept(old, want, i)}
        new == Newcomers(old, want)
    IN [i \in Slot |->
          IF i \notin free THEN old[i]
          ELSE LET r == Cardinality({j \in free : j <= i})
               IN IF r <= Len(new) THEN new[r] ELSE Blank]

\* Mutant: the cards of the winners are not left alone.
RefreshAll(old, synced, sel) == synced

\* refreshCardLabels: a selected card keeps what it shows
Refresh(old, synced, sel) ==
    [i \in Slot |-> IF i \in Range(sel) THEN old[i] ELSE synced[i]]

\* cardIndexForName: the name's own card, or an empty one, or any one; card 1
\* when every card is taken
CardFor(name, used) ==
    LET First(S) == CHOOSE i \in S : \A j \in S : i <= j
        Own == {i \in Slot \ used : slots[i] = name}
        Empty == {i \in Slot \ used : slots[i] = Blank}
    IN IF Own # {} THEN First(Own)
       ELSE IF Empty # {} THEN First(Empty)
       ELSE IF Slot \ used # {} THEN First(Slot \ used) ELSE 1

CardsFor(winners) ==
    FoldLeft(LAMBDA chosen, n : Append(chosen, CardFor(n, Range(chosen))), <<>>, winners)

-----------------------------------------------------------------------------
(* The hub                                                                   *)

Join(n) ==
    /\ toCome[n] > 0
    /\ toCome' = [toCome EXCEPT ![n] = @ - 1]
    /\ pool' = Append(pool, n)
    /\ UNCHANGED <<polls, request, answer, ball, isLotting, rotating, phase, tweens, faults>>

\* /participants answers
PollAnswer(q) ==
    /\ polls[q].at = "none"
    /\ polls' = [polls EXCEPT ![q] = [at |-> "answered", names |-> pool]]
    /\ UNCHANGED <<hub, request, answer, ball, isLotting, rotating, phase, tweens, faults>>

\* /draw takes some of the pool, or refuses when there is nobody in it
HubDraw ==
    /\ request = "sent"
    /\ IF pool = <<>>
       THEN request' = "refused" /\ UNCHANGED <<hub, answer>>
       ELSE \E W \in SUBSET DOMAIN pool :
              /\ Cardinality(W) = Min({PerDraw, Len(pool)})
              /\ pool' = Only(pool, DOMAIN pool \ W)
              /\ \E order \in SetToSeqs(W) :
                    answer' = [k \in DOMAIN order |-> pool[order[k]]]
              /\ request' = "answered"
              /\ UNCHANGED toCome
    /\ UNCHANGED <<polls, ball, isLotting, rotating, phase, tweens, faults>>

-----------------------------------------------------------------------------
(* The page                                                                  *)

Show(list, sel) ==
    /\ slots' = SyncSlots(slots, list)
    /\ labels' = Refresh(labels, slots', sel)

\* updateBall with the list of some answer
PollArrive(q) ==
    /\ polls[q].at = "answered"
    /\ names' = polls[q].names
    /\ IF isLotting THEN UNCHANGED <<slots, labels>>
       ELSE Show(polls[q].names, selected)
    /\ polls' = [polls EXCEPT ![q] = NoPoll]
    /\ UNCHANGED <<hub, request, answer, selected, luckys, prize, isLotting, rotating,
                   phase, tweens, faults>>

PollLost(q) ==
    /\ polls[q].at = "answered"
    /\ Fault
    /\ polls' = [polls EXCEPT ![q] = NoPoll]
    /\ UNCHANGED <<hub, request, answer, ball, isLotting, rotating, phase, tweens>>

\* The space bar, by phase.  startRotate does nothing while isLotting, but the
\* phase is "spinning" all the same.
EnterSphere ==
    /\ phase = "table"
    /\ phase' = "sphere"
    /\ UNCHANGED <<hub, polls, request, answer, ball, isLotting, rotating, tweens, faults>>

StartRotate ==
    /\ phase \in {"sphere", "result"}
    /\ phase' = "spinning"
    /\ IF isLotting THEN UNCHANGED <<ball, isLotting, rotating>>
       ELSE /\ prize' = prize \ Range(selected)
            /\ selected' = <<>>
            /\ luckys' = <<>>
            /\ Show(names, <<>>)
            /\ isLotting' = TRUE
            /\ rotating' = TRUE
            /\ UNCHANGED names
    /\ UNCHANGED <<hub, polls, request, answer, tweens, faults>>

\* stopRotate, and /draw is sent
StopRotate ==
    /\ phase = "spinning"
    /\ request = "none"
    /\ rotating' = FALSE
    /\ request' = "sent"
    /\ UNCHANGED <<hub, polls, answer, ball, isLotting, phase, tweens, faults>>

\* highlightWinners; what was selected before is forgotten, not cleared
DrawArrive ==
    /\ request = "answered"
    /\ tweens < MaxTweens
    /\ luckys' = answer
    /\ selected' = CardsFor(answer)
    /\ labels' = [i \in Slot |->
                    IF i \in Range(selected')
                    THEN answer[Max({k \in DOMAIN answer : selected'[k] = i})]
                    ELSE labels[i]]
    /\ prize' = prize \cup Range(selected')
    /\ tweens' = tweens + 1
    /\ phase' = "result"
    /\ request' = "none"
    /\ answer' = <<>>
    /\ UNCHANGED <<hub, polls, names, slots, isLotting, rotating, faults>>

BackToSphere ==
    /\ request' = "none"
    /\ answer' = <<>>
    /\ isLotting' = FALSE
    /\ phase' = "sphere"
    /\ UNCHANGED <<hub, polls, ball, rotating, tweens>>

DrawRefused == request = "refused" /\ BackToSphere /\ UNCHANGED faults

\* The request or its answer is lost
DrawLost == request \in {"sent", "answered"} /\ Fault /\ BackToSphere

\* onComplete of selectCard, whatever happened since
TweenEnds ==
    /\ tweens > 0
    /\ tweens' = tweens - 1
    /\ isLotting' = FALSE
    /\ UNCHANGED <<hub, polls, request, answer, ball, rotating, phase, faults>>

\* The page is loaded again: initScene.  What the hub has done stays.
ReloadPage ==
    /\ Fault
    /\ polls' = [q \in Pulls |-> NoPoll]
    /\ request' = "none"
    /\ answer' = <<>>
    /\ names' = <<>>
    /\ slots' = Blanks
    /\ labels' = Blanks
    /\ selected' = <<>>
    /\ luckys' = <<>>
    /\ prize' = {}
    /\ isLotting' = FALSE
    /\ rotating' = FALSE
    /\ phase' = "table"
    /\ tweens' = 0
    /\ UNCHANGED hub

Init ==
    /\ pool = <<>>
    /\ toCome = Crowd
    /\ polls = [q \in Pulls |-> NoPoll]
    /\ request = "none"
    /\ answer = <<>>
    /\ names = <<>>
    /\ slots = Blanks
    /\ labels = Blanks
    /\ selected = <<>>
    /\ luckys = <<>>
    /\ prize = {}
    /\ isLotting = FALSE
    /\ rotating = FALSE
    /\ phase = "table"
    /\ tweens = 0
    /\ faults = 0

Next ==
    \/ \E n \in Names : Join(n)
    \/ \E q \in Pulls : PollAnswer(q) \/ PollArrive(q) \/ PollLost(q)
    \/ HubDraw
    \/ EnterSphere \/ StartRotate \/ StopRotate
    \/ DrawArrive \/ DrawRefused \/ DrawLost
    \/ TweenEnds
    \/ ReloadPage

\* The page polls every second and its answers arrive; animations end.
Fairness ==
    /\ \A q \in Pulls : WF_vars(PollAnswer(q)) /\ WF_vars(PollArrive(q))
    /\ WF_vars(TweenEnds)

Spec == Init /\ [][Next]_vars /\ Fairness

-----------------------------------------------------------------------------
(* Properties                                                                *)

\* A name on the ball does not move, unless the list the page last took has
\* fewer people of that name than the ball, in whatever order answers arrive.
StaysPut ==
    [][\A i \in Slot :
         slots[i] # Blank /\ slots'[i] # slots[i] /\ slots' # Blanks
            => Count(names', slots[i]) < Count(slots, slots[i])]_vars

\* Each winner has a card of their own with their name on it until the next
\* rotation, although polls go on and the winner has left the list.
WinnersShown ==
    /\ Len(luckys) = Len(selected)
    /\ Len(luckys) <= Cards => IsInjective(selected)
    /\ IsInjective(selected) => \A k \in DOMAIN luckys : labels[selected[k]] = luckys[k]

\* The ball ends up with the names of the pool: all of them, or as many as it
\* has cards.
ShowsPool ==
    IF Len(pool) <= Cards
    THEN \A n \in Names : Count(slots, n) = Count(pool, n)
    ELSE \A i \in Slot : /\ slots[i] # Blank
                         /\ Count(slots, slots[i]) <= Count(pool, slots[i])

\* Once the ball is not locked any more, it comes to show the pool for good,
\* whatever answers were lost, late or out of order.
CatchesUp == <>[](~isLotting) => <>[]ShowsPool

\* The list is frozen while the ball spins.  Does not hold: the space bar within
\* the 1.2 seconds of a highlight starts a spin that its onComplete unlocks.
Frozen == [][phase = "spinning" /\ phase' = "spinning" => slots' = slots]_vars

\* Only cards of the last draw are marked.  Does not hold, for the same reason.
MarkedAreSelected == prize = Range(selected)
=============================================================================
