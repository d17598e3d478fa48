# TLA+ models of LuckyGo

LuckyGo is a multi-tenant lottery service: a go-zero gateway and a worker over
MySQL and Redis, and a small walk-in lottery with a roster of its own.  This
directory holds TLA+ models of its protocols, TLC runs over small instances and
proofs that TLAPS checks.  `PROJECT.json` maps every definition to the lines it
models and lists the runs, the mutants, the findings, the hazards and the
theorems.

    tlc -workers 2 -config live_race.cfg MCLiveDraw.tla     # a run: X.cfg and its MC module
    tlapm LiveDrawProofs.tla                                # a module of proofs

## 1. The system

| Part | State | Operations | Meets | Module |
|---|---|---|---|---|
| Live draw (`App.LiveDraw`, `UndoLiveDraw`, `engine/draw.go`, `lua.go`) | Redis: pool per prize, version each pool was built from, roster version, value per idempotency key. MySQL: `draw_records`, `persist_failures` | draw, replay, rebuild, persist, compensate, undo | roster (version), life cycle (status in the Lua script), worker (replay), redemption | `LiveDraw`, `PrizeBook` |
| Life cycle (`Publish`, `Pause`, `Resume`, `Cancel`, `maybeFlipStatus`, `HandleDueJobs`) | `activities.status`, `version`; Redis meta hash; delay queue | publish, flips, start and end jobs | both draws | `Lifecycle` |
| Editing (`CreateActivity`, `UpdateActivity`, `UpdateUiConfig`, `detail`) | `activities`, `prizes`, `ui_config` | create, edit, check, show | life cycle | `Editing` |
| Roster and enrollment (`ImportParticipants`, `DeleteParticipant`, `Enroll`, `Blacklist`) | `participants`, `enrollments`, `blacklist` | import, delete, enroll, bar | bumps the roster version; both draws | `Roster`; as the live draw sees it, `LiveDraw` |
| Scheduled draw (`RunScheduledDraw`, `AssignScheduled`) | `scheduled_winners`, `draw_audits`, Redis lock | lock, read, shuffle, assign, one transaction, audit, codes | roster, worker, `ForceDraw` | `Scheduled`; when it runs, `Lifecycle` |
| Accounts (`RegisterTenant`, `RegisterUser`, `Login`, tokens) | `tenants`, `users` | register, log in, `MustAdmin`, `MustUser` | everything an identity may do | `Accounts` |
| Redemption (`issueRedeem`, `Redeem`, `OfflineRedeem`, `FillAddress`, `MyPrizes`) | `redemptions` | issue, use, use offline, address | both draws, accounts | `Redeem`, `Award` |
| Walk-in hub (`internal/lottery`) | `Hub.members` (in memory), `live_roster` | join, reload, draw, mark won, restart | live screen | `Hub` |
| Live screen (`sphere.ts`, `Live.tsx`) | slots, labels, selected cards, phase | poll, rotate, stop, highlight, reload | hub | `Sphere` |
| Worker (`app/worker`) | | a tick every second | life cycle, live draw | steps and fairness in both |
| WeChat login, public pages, gateway handlers | cookies | | | not modelled |

What is hard: no transaction spans Redis and MySQL, and no lock serialises two
requests, so everything a handler read may be stale when it writes; requests
are retried with the same key; inserts fail, or succeed without saying so; the
gateway may stop between any two calls; the worker runs beside it all; the page
has several requests under way at once.  The hazards, each at its line, are in
`PROJECT.json`.

## 2. Modules

| Module | Is | Uses |
|---|---|---|
| `LiveDraw` | the live draw of one activity with the roster edits beside it and the worker's replay of failed inserts | `PrizeBook` |
| `PrizeBook` | abstract: who holds which prize by which batch, and which undos have been ordered | |
| `Lifecycle` | status and window of one activity in MySQL, meta hash and delay queue in Redis, the worker's jobs | |
| `Editing` | row, prizes and decoration of an activity until and after it is published | |
| `Roster` | the roster of one activity, enrollment and blacklist | |
| `Scheduled` | scheduled draws of that roster while it changes | extends `Roster` |
| `Accounts` | tenants, users, tokens | |
| `Redeem` | prizes that were won, and how they are handed out | extends `Accounts`; `Award` |
| `Award` | abstract: a prize is settled once and handed out at most once | |
| `Hub` | the walk-in roster in memory and in its table | |
| `Sphere` | the live screen | |
| `MC...` | values of the constants for TLC | the module named |
| `...Proofs` | theorems for all constants | the module named; `ScheduledProofs` has those of `Roster` too |
| `DataLemmas` | induction over numbers, folds and ranks, for the proofs about data | |

In all of them a step is one SQL statement or transaction, one Redis call (a Lua
script is one), or one HTTP answer, together with the local decision that
follows it.  Handlers keep their locals in a record with a program counter.

### LiveDraw

| Variable | In the program |
|---|---|
| `ver` | `lg:live:rosterver:{aid}` |
| `pool`, `built` | `lg:live:pool:{aid}:{prize}`, `lg:live:poolbuilt:{aid}:{prize}` |
| `idemp` | `lg:live:idemp:{aid}:{key}`: not set (`fresh`), `key:ids` (`drawn`) or `key:UNDONE` |
| `roster` | rows of `participants`; a deleted id never comes back |
| `won`, `undone` | rows of `draw_records` by status |
| `failures` | rows of `persist_failures` with `resolved_at` NULL |
| `codes` | rows of `redemptions` |
| `dr`, `ud`, `ed`, `wk` | locals of the draw, undo and roster handlers and of the worker |
| `batch` | history: what each key drew; no action reads it |

A step is one Redis call (a Lua script is one call) or one SQL statement.
`persistDraw`'s three attempts are one step: an attempt that commits decides
the outcome, since the next one meets the unique index, and one that does not
leaves nothing.  `App.LiveDraw` is `DrawRequest` (the quota), `ReadRosterVersion`,
the five ways the script can end (`LuaReplay`, `LuaClosed`, `LuaStale`,
`LuaInsufficient`, `LuaPop`), `QueryEligible` and `RebuildDel`/`Add`/`Mark` for
a stale pool, `LoadWinners`, and then per winner `PersistOk` or `PersistFail`
and `Compensate`, and `IssueRedeem` for winners with an account.  The winners
of a batch are written in any order; SPOP's order is random.

`Faults` names what the environment may do: `abort` (a draw or the worker stops
where it is, which covers a dead gateway and any call that fails outside the
persist loop), `nobump` (an undo or a roster edit stops, or its INCR fails),
`insert` (all attempts fail), `ack` (they fail although a row is committed),
`compensate` (`InsertPersistFailure` fails and its error is dropped).

An undo has two halves that see keys differently.  The script looks up the value
of one key; `MarkLiveUndone` flips the rows that match `LIKE 'key:%'`.  Keys come
from the client and only their length is checked, so `_` and `%` in a key are
wildcards, and a key is also a prefix of those that extend it with a colon.  The
constant `Covers` gives for each key the keys whose rows its pattern matches; the
assumption asks nothing of it (the pattern of a key that ends in a backslash does
not even match the key's own rows), and the runs have one key that covers the
other.  That an undo touches its own batch only (`UndoneByKey`) is therefore false
of the code; see the findings.

`PrizeBook` promises what is left: a batch is entered once (`Grant`), for people
who do not hold the prize, within the stock; an undo is ordered once for a key that
has drawn (`Order`); and afterwards the book only shrinks, by the batches that the
key of an ordered undo covers (`Undo`), or by winners of one batch that are lost with their
request (`Lose`).

Abstracted: the status and the window that the script checks (`LuaClosed` may refuse
at any time; `LuaAllows` of `Lifecycle` says when it does not), the seven days after
which an idempotency value expires, tenants, audit rows, and what rows say about
people.  Of keys: two keys are different for both stores (MySQL compares them
without regard to case and Redis does not), and fit into their column.  Of replays:
the batch of 20 rows that the worker takes and the time at which a row is due again.

### Lifecycle

| Variable | In the program |
|---|---|
| `act` | the row of `activities`: mode, window, status, version; and what the unique keys make of its winners (`roster`) |
| `draws` | history: how often `InsertWinnersTx` has committed |
| `meta` | the meta hash of `LoadMeta` and `SetStatus` |
| `jobs` | the members `start:{id}` and `end:{id}` of the delay queue and their scores |
| `lock` | whether `lg:drawlock:{id}` exists |
| `now` | the clock, the same for all processes |
| `pr` | locals of each handler and of the worker: program counter, operation, the row it has read (`seen`), the status it wants (`to`) |

A step is again one statement, transaction or Redis call, together with the
local decision that follows it.  A request starts with the read of the row
(`PublishRead`, `UpdateRead`, `PauseRead`, `ResumeRead`, `CancelRead`,
`VisitRead` for `maybeFlipStatus`), goes on with `UpdateTx`, or with
`PublishLoad` (Publish writes Redis first), `CASWon` or `CASLost`, and
`SetStatus` or `ScheduleStart` and `ScheduleEnd`.  `RunScheduledDraw` is
`RunRead`/`RunRefused`, `RunLock`/`RunBusy`, `RunClose`, `RunReread`,
`RunInsert`/`RunInsertFails`, `RunSetStatus`, `RunUnlock`; `ForceDraw` and the
worker's end job take the same steps.  The worker takes a due job (`TakeStart`,
`TakeEnd`), ignores the outcome of its update, and removes the job.

`CASWins` and `InsertWins` are the WHERE clauses.  The handler reads row and
clock in one step: had the row changed before the clock was read, its version
would have too, and the update fails.

`Faults`: `crash` (a process dies where it is and comes back idle; the lock
stays), `db` (a statement or transaction fails), `redis` (a call fails),
`expire` (the lock's 120 seconds end during a draw).

`InsertWinnersTx` may also be refused, without any failure, by the unique keys of
`scheduled_winners`: `uk_sched_user` by two winners without an account, who both have
user id 0, and `uk_sched_token` by ranks that share a token.  `act.roster` says what these
keys make of the winners: they fit, they clash, or it depends on the draw
(`Rosters` are the kinds a run has).  `RunInsert` needs a roster that does not
clash, `RunInsertFails` one that does not fit, or a failure.  The winners themselves
are in `Scheduled`.

Abstracted: the two seconds of tolerance are `Slack` ticks; who wins, redeem
codes, audit rows, prizes and their validation, other activities in the queue
(the batch of 50), the tenant check.  `UpdateTx` keeps the window ordered, as
`checkActivityInput` does.

### Editing

`act` (mode, roster source, status, version) is the row of `activities`,
`prizes` its rows in `prizes` with the version that brought them (`era`, for the
new ids an edit gives them), `wins` what `CountWinsByPrize` or
`ScheduledWinCounts` counts, `ui` the
decoration, `pr` the handlers with the row (`seen`) and the prizes they have
read.  `CreateActivity` and `UpdateTx` are transactions; `UpdateUiConfig` is one
statement without a version; Publish is `PublishRead`, `PublishPrizes` (the
second read, and the check with the mode of the first), `PublishCAS`; the detail
page is `DetailRead`, `DetailPrizes`, `DetailWins` (whose count may fail, which the
code drops: nothing counts as won).  `CheckActivityInput` and `ValidatePrizes` keep
the numbers of the code.  `frozen` is history.

The draws and the life cycle are here as what they do to the row and to `wins`.  The
status `open` stands for published, running and paused.  `Moves` is the CAS:
`Cancel`, `Close` (a visit, the worker, and `RunScheduledDraw`, which also ends what
is cancelled or a draft, one that no publisher has checked) and, in a transaction of
its own, `Draw`.  `LiveWin` is a row that a live draw or the worker writes: nothing
bounds it by the stock, since the quota was read when the draw began, nor by the
status, which the script has checked in Redis.  `LiveUndo` takes any number of them
back.  `DetailTrue` therefore bounds what is left of a prize from below for
scheduled activities only: the page of a live one shows a negative number once the
stock is exceeded.

### Roster

`rows` and `lastId` are `participants` and its AUTO_INCREMENT, `enrollments` and
`blacklist` those tables, `enr` the locals of the Enroll handlers.  Enroll makes
its statements one after the other: `EnrollStart` (which only the clock or the
status refuses), `EnrollBlacklisted`, `EnrollCount`, `EnrollInsert`,
`EnrollRow`; `EnrollFails` is a statement that fails or a process that stops
anywhere in between, and what was written stays.  `Upsert` keeps the id and the
account of an existing row.  `answered`, `imported` and `removed` are history.

### Scheduled

Extends `Roster` by the drawers `drw`, `version`, the lock, `winners`, `codes`
and `audit`.  A drawer takes `DrawStart`, `DrawLock`, `DrawEnd` (its CAS, whose
outcome is dropped), `DrawFresh`, `DrawRoster`, `DrawAssign`, `DrawInsert` (one
transaction: status and winners, or nothing), `DrawAudit`, `DrawCode` for each
winner, `DrawUnlock`.  Reads fail (`DrawFails`), processes stop (`DrawCrash`,
which leaves the lock), the commit's answer is lost (the second way out of
`DrawInsert`), the lock expires under a slow holder (`LockExpires`).  The roster
changes all the while by the actions of `Roster`, and the row of the activity by
`OtherWriter`, which keeps of `Lifecycle` the moves between statuses: to running
and back to paused, to ended by a visit or the worker, and to cancelled from any
status but drawn.  There is no draft here; that a forced draw ends and draws one is in
`Lifecycle` and `Editing`.
`AssignScheduled` is a fold over the prizes; the shuffle is any order of the ids;
a token is its rank modulo `TokenSpace`, since the code hashes two bytes of it.

### Accounts and Redeem

`Accounts` has the tables `tenants` and `users`, the identities in issued `tokens`,
and `reg`, the RegisterTenant handlers, which insert the tenant and then its admin.
`Redeem` adds `wins` (a token popped by a live draw, recorded, undone or scheduled),
`redemptions` and the history `handed`.  A code is issued for a winner whether or
not the row could be written (`Record` comes later, through the worker, or never).
Each operation is one statement whose WHERE clause is an operator (`Matches`,
`CanMarkOffline`, `OwnUnused`); `Hand` is the answer, which may be lost, so that
callers repeat what was done.  A code is typed in upper case and stored in lower
case: only codes without a letter (`AllDigits`) are found.  `Claim` maps the table
to `Award`.

### Hub

`table` is `live_roster`, `members` the `sync.Map`, `persist` whether the hub
has a table.  A join (`req`) is `JoinKnown` or `JoinUnknown`, `Upsert`,
`CheckWon`, `GetRow`, `StoreMember`, none of which takes a lock; `/seed-mock`
joins a sequence of ids.  The reload and the draw hold `drawMu`, which is `crit`:
`ReloadList`, `ReloadKey` for each key, `ReloadDone`; `DrawPick`, `DrawDelete` for each
winner, `MarkWon`, `DrawAnswer`.  Every database call may fail, with or without
its effect, in the way the code treats that failure; `Restart` ends all handlers and loads the
active rows, or leaves a hub without a table.  `announced`, `unmarked` and
`told` are history.

### Sphere

`slots`, `labels`, `selected`, `luckys`, `prize`, `isLotting` and `rotating` are
fields of `LotterySphere` and its cards, `phase` the state of `Live.tsx`, `polls`
and `request` what is under way to the server, `tweens` the highlights whose
`onComplete` is to come, `pool` the hub as a list.  `SyncSlots`, `Refresh` and
`CardFor` are the functions of that name, by what they return.  Polls arrive in any
order or not at all, the draw's answer too, and the page may be loaded again.

## 3. Runs

| Run | Instance | Shows |
|---|---|---|
| `live_race` | 2 draw requests, 2 keys of which one covers the other, 1 undo, worker, all faults | a batch has one owner, rows and answers are of the batch their key drew, a key draws once, undone rows stay undone |
| `live_single` | 1 draw request at a time, 1 prize of 2 places, 3 people of whom 1 comes late and may be deleted again, 1 undo whose key may cover both batches, 1 editor | quotas and repeats hold, a pool is the roster it was built from, `PrizeBook` is refined |
| `live_settle` | 1 draw request, 2 keys, inserts that fail or are not acknowledged, fairness | every winner is recorded, waiting or undone, and in the end recorded or undone |
| `live_oversell` | 2 requests, 1 place | `NoOversell` fails |
| `lifecycle` | 1 request of any kind, 1 that publishes, the worker, 2 windows, all faults | one draw, statuses on time, jobs that match, a frozen row |
| `lifecycle_ends` | 2 requests that publish, edit, cancel or visit, both modes, rosters of every kind, no faults, fairness | what is published is seen to its end, and drawn unless the unique keys may refuse its winners |
| `editing` | 2 requests of any kind, 6 forms of which 3 are refused, wins up to 2 beside smaller stocks | what is published is what was checked, and what is ended unpublished can be drawn; detail pages tell the truth |
| `roster` | 3 users, 2 requests at once, 1 place, an admin | one head for a person, whom Enroll answered is on the roster with their account, by how much the limit is passed |
| `scheduled` | 2 drawers, 2 prizes, a roster of 2 that changes | the winners fill the prizes from the roster that was read, for good; audit and codes match them |
| `redeem` | 2 tenants, 3 accounts, 2 prizes, 2 registrations | one admin, nothing crosses tenants, settled rows stay, `Award` is refined |
| `hub` | 2 users, 2 requests, 2 faults, fairness | who was told is kept, who won is marked, only a join brings a winner back, memory and table agree in the end |
| `sphere` | 2 cards, 3 people of whom 2 share a name, 2 winners a draw, 2 polls, 1 lost answer or reload, fairness | names stay on their cards, winners stay on theirs, the ball catches up |

`live_oversell` states what the documents say of the program and fails; the
finding quotes the sentence.  Other statements of that kind have a finding and a
definition, and no run.  Put one of these as INVARIANT (or, marked *, PROPERTY)
into the cfg of its module and TLC gives the counterexample, unless a bound is
named here:

- `LiveDraw`: `OneWinPerPerson` (two prizes with isAll=false), `ReplayAnswered*`,
  `UndoneVoid*`, `UndoneByKey`, `NoRepeat` (in `live_race`, two drawers), `WinnersListed` (an
  editor beside the drawers);
- `Lifecycle`: `PausedRefused`, `CancelledStays*`, and `DrawnOnTime` when the second
  request may also edit;
- `Scheduled`: `ImportsCanWin` (two `Externals`), `WinnersListed`;
- `Redeem`: `Payable`, `SeesPrizes`, `NotHandedUndone*`; `Accounts`: `EveryTenantHasAdmin`;
- `Hub`: `WinsOnce*`; `Sphere`: `Frozen*`, `MarkedAreSelected`.

### Bounds

Live draw: two people and two requests are enough for every race between two
requests; a third person, late, gives `live_single` a roster that grows and
shrinks.  A prize of two places lets a batch be partly written.  `MaxVer` stops
new undos and edits at that roster version, so each run has that many of them
and one more per handler that has begun; two versions are needed to make a pool
stale twice.  In `live_single` the person who comes late is also the one who may be
deleted, before or after a draw has found them, to keep the run short; the theorems
about its properties are for any people.  Symmetry permutes requests
and the people no constant tells apart, but no keys, since one covers the other; a
run with a liveness property uses none.

Life cycle: `MaxVersion` stops new requests at that version of the row, and
it bounds the model because a cancelled activity can be closed by a draw and
cancelled again.  Version 3 lets an edit or a publish be followed by a pause and
a resume or a cancellation, and by everything the worker and the requests under
way still do.  Two windows let an edit move the end past the clock and back;
`MaxTime = 2` is the later end, and one tick of `Slack` makes a draw early.

Editing: version 3 is an edit, a publish and what comes after; the two handlers make
every pair of an editor, a publisher and a page.  `MaxWins = 2` exceeds the stock of
one of the prizes; the one decoration is enough, because nothing reads it.  Roster:
`MaxRow` counts the ids given to rows; two let a row be deleted and the same person
come again.  Scheduled: of two drawers one may die or be slow while the other draws,
and `MaxVersion = 2` leaves one change for another writer or for `DrawEnd`, and one
for the draw.  `VIEW WithoutHistory` leaves out the histories of `Roster`, which no
action reads; of the properties of the run only `TypeOK` names them, which then sees
those of one path to each state (`ScheduledTypes` proves it for all).  `TokenSpace`
is the code's 2^16, so its wrap is not in the run: it would refuse a draw
(`Unique`), as the finding about user 0 does.  The assumption `AssignmentFills` of
`MCScheduled` checks `AssignScheduled` against `Fills` for every list of up to three
prizes of up to two places and up to five people; the theorem of that name is for
all of them.  Hub: `MaxFaults = 2` is a failed call and a restart, or two of one
kind.  Sphere: two cards are fewer than the people, and as many as the winners of a
draw; `MaxTweens = 1` and `MaxFaults = 1` bound highlights and losses.

The runs that say `CHECK_DEADLOCK FALSE` are of systems that may stop: an
activity that is over at the last tick of its clock or version, a lottery that everybody has
joined, won or been lost from, prizes that are all settled.

### Fairness

`FairSpec` of `LiveDraw` assumes that a handler that has started goes on, and that
the worker's steps are taken: goroutines are scheduled, and the worker calls
`HandleDueJobs` every second (`app/worker/worker.go:33-37`).  Nothing obliges a
client to send a request, and the faults have no fairness: an insert may fail
each time a handler tries it, and the worker's replay is the step that is fair.
`FairSpec` of `Lifecycle` assumes the same of its handlers and its worker, and
that time passes.  In `Hub` joins and draws that have begun run on, and the
screen asks for `/participants` every second (`Live.tsx:60-61`), which reloads;
nobody has to join or draw, and failures are bounded.  In `Sphere` the polls go out and their
answers arrive, and animations end; the host has to do nothing, so `CatchesUp` says
"once the ball is not locked any more".

`SeenToEnd` says that a published activity is cancelled, or ended and, if it is a
scheduled one, drawn.  It excuses one thing that is no failure: a scheduled activity
whose winners the unique keys refuse is ended, the worker drops the error and
removes the job, and it stays undrawn (every time, with two imported winners; see
the findings).  For such a roster the run shows only that it ends.  The property is
checked without faults, pauses and forced draws: with them it does not hold (a pause
keeps an activity from running for as long as it lasts; a forced draw of a draft, or
a worker that died in its draw, leaves a lock that the end job meets, and the job is
removed all the same), and the findings say so.

Every property of a passing run has a mutant in `PROJECT.json`: a plausible bug
in one definition under which TLC finds the property violated.

## 4. Proofs

`LiveDrawProofs` proves, for any sets of people, prizes, keys and handlers, any
stocks and any faults, under `LiveAssumption` (people are finitely many, stocks
and batch sizes are positive):

- `TypeCorrect`: `Spec => []TypeOK`.  The inductive invariant `TInv` adds that
  `won` is finite (the quota is a cardinality) and what the program counter of
  each handler says about its locals.
- `OwnerUnique`, `RowsAreWinners`, `AnswersAreBatches`: the invariants of
  `live_race`.  None is inductive.  `BatchInv` adds that Redis remembers what a
  key drew until it is undone (`KeyOK`), that a request past its pop holds the
  batch its key names and one before it holds none (`DrawOK`), and that a winner
  has one row, won or undone (`Apart`).  The step that matters is the pop
  (`PopBatch`): a key that is still fresh has no batch, so no request holds or
  has answered with winners of it and no row names it.
- `DrawsOnce`, `UndoneForGood`: the action properties of `live_race`, from the
  same invariant.
- `WinnersAccounted`: `Accounted`, for handlers that run on, compensation rows
  that can be written and nobody deleted (`NothingLost`, as in `live_settle`),
  but for any number of requests.  `SafeHands` adds that whoever is in a pool is
  on the roster, so that a draw never stops at a missing row, and that a request
  moves on from a winner, and the worker resolves a row, only once it is written.

Its second part proves the properties of `live_single` for one draw request
at a time (`Alone`; with two they fail, see the findings), any undos, edits and
numbers of people:

- `OnePrizeOnce`: `NoRepeat`, under every fault.  `RepeatInv` adds that whoever is
  in the pool of a prize, or has been found eligible and is about to be put into
  it, holds none of that prize and waits for none (`Free`).  The pop is then the only
  step that makes a new holder, and takes them from a pool; the worker's replay
  makes none, because what waits in `persist_failures` counts as held.
- `WithinStock` (`NoOversell`), if an insert that reports an error has left its
  row (`NoLostInsert`).  Then what waits in `persist_failures` has a row already
  (`RecordInv`), replays change nothing, and the quota that a request has read can
  only grow until its pop (`QuotaInv`).  Without it a row that waits to be replayed
  is not counted by the quota, and the replay goes beyond the stock.
- `DrawIsBook`: `RefinesPrizeBook`, from the two above, for any `Covers`.  The pop
  maps to `Grant`, the undo's script to `Order`, `MarkLiveUndone` to `Undo` of its key
  (`VoidInv`: who is about to mark rows has ordered that undo), a request that stops or
  gives up a winner to `Lose`, any other step to a stutter.
- `PoolsAreCurrent`: `PoolFollowsRoster`, if every bump of the version happens.
  `RebuildOK` says that a rebuild works on a pool older than the version it has
  read, and, as long as that version is the current one, with people on the
  roster.

`LifecycleProofs` proves, for any handlers, operations, windows, bounds and
faults, under `LifecycleAssumption` (windows are ordered, the worker is no
handler), every property of the run `lifecycle`: `LifecycleTypes`, `OneDraw`
(`DrawnOnce`), `StatusOnTime` (`OnTime`), `QueueMatches` (`JobsMatch`) and
`PublishedStays` (`FrozenByPublish`).  They rest on the version: whoever changes
the row raises it, so a process whose version is still the row's has seen the
row as it is (`SeenIsOld`).  What a process made sure of when it decided
(`Decided`: the window has begun or ended; `RunChecked`: the end is near) is then
true of the row it changes, since the clock only moves on.  `DraftIsPublished`
says that only a publisher moves a draft, `Scheduling` that a process between
its CAS and the end of Publish holds the window of the row, which is frozen by
then.  `Inv` is the conjunction; the lemmas treat one action each.

`EditingProofs` proves `DetailIsTrue` and `PublishedAsChecked` for any forms,
decorations and handlers, by the same argument about the version: `SeenOf` says
that a handler whose version is the row's has the row, `CheckedOf` that the
prizes a publisher read after it, and checked, are then the activity's; `PageOf`
and `SameEra` say of a page that its prizes, once the activity is past draft, are
those of `frozen`, and that wins counted by prize id are counted for these prizes;
`WinsFit` that a scheduled prize has no more winners than places, whence the numbers
left; and `Valid` that the prizes of every activity, draft or not, were accepted for its
mode, whence those of a draft that is closed without a publisher can be drawn.

`RedeemProofs` proves the types, `OneAdminPerTenant`, `TokensStayTrue`,
`NothingCrossesTenants`, `SettledStays` and the refinement `RedeemIsAward`, for
any tenants, accounts and prizes.  `Claimed` says that a name has one account
that is, or one registrar that may still make, its admin, and none before the
tenant's row; `Won` that a row of `redemptions` is of a prize that was won.  Each
action of `Redeem` then maps to `Open`, to `Settle`, or to a stutter of `Award`.

`HubProofs` proves the safety properties of the run `hub` for any users, requests,
mocks and faults: `RowBehindMember` (whom memory knows has a row, once there is a
table), `RowBehindJoin` (so has a join that has got past its insert) and
`CritKnows` (whom a draw or a reload holds).

`ScheduledProofs` has four parts.

- `Roster` by itself: the four properties of the run `roster`, and that a barred
  request never gets to a count (`BarredStayOutside`), for any users, handlers and
  limit.  `Busy` says that a handler past its start has a user, `RowsLinked` what
  account a row has, `BarredListed` that a barred request's user is on the
  blacklist, `Inserting` that who is about to insert has passed the count; the
  limit is the count at the last check plus those still inserting, and each of the
  n handlers adds at most one.
- The composition: `RosterGoesOn`, `Spec => RosterSpec`.  To the roster a drawer's
  step is a change of the status (`Flip`) or a stutter, so the theorems above hold
  beside draws, and `IInv` of the roster may be used in what follows.
- The assignment: `AssignmentFills`, for any prizes and any order of any finite set
  of ids, by induction over the prizes.  `AssignmentPlaces` says where the winners
  of each prize stand in the list: the k-th prize has the places from the sum of the
  stocks before it to the sum with its own, as far as there are people.
- The drawers: `WinnersStay` (`DrawnForGood`) and `AuditIsTrue` for any number
  of drawers, rosters that go on changing, expired locks and crashes.  `DrawnInv`
  says that a drawer that may still end the activity did not read it as drawn, and
  that one past its transaction holds what it has written; `Kept`, that no step
  leaves the status of a draw.  `DrawEnd` compares the row with what its drawer had
  read, so only one that had read "drawn" could undo a draw, and none that did gets
  that far.  `DrawInv` adds that a drawer about to insert holds an assignment over
  the ids it has read (`Drawn`, by `AssignmentFills`), whatever has become of the
  roster since; `DrawsFillThePlaces` (`FullyDrawn`), `CodesAreTheWinners`
  (`CodesMatch`) and `ScheduledTypes` follow.  `ScheduledAssumption` asks of the
  prizes what the schema and `ValidatePrizes` do: ids of their own, and a stock of
  1 to 100000 each.

`SphereProofs` proves, for any names, crowd, cards, polls and bounds:

- `BallShowsTheList`: a step that changes the slots leaves on the ball the list
  that the page has then (`Shows`: each name as often as the list, or, when the list
  is longer than the ball, a full ball with no name more often than in the list),
  whatever the ball showed before.  `SyncShows` is the lemma about `syncSlots`.
  Who keeps a slot has a rank among the slots of the name that is at most the name's
  count in the list (`KeepersRanks`); the entries that bring nobody new have the same ranks
  among the entries of the name, so there are as many of these as of those
  (`KeptOfName`, `KeptInAll`), and the new entries fit into the free slots when the
  list fits on the ball (`RoomForExtra`).
- `PollsCatchUp`: a poll with the hub's list that arrives while the ball is
  not locked makes it show the pool.  This is the safety half of `CatchesUp`; that such
  a poll comes is its liveness half, and stays with TLC.
- `BallStaysPut` (`StaysPut`): who loses a slot has a rank among the slots of the
  name that is beyond the name's count in the list (`LostAreTooMany`).
- `WinnersAreShown` (`WinnersShown`) and `SphereTypes`.  `CardsChosen`, by
  induction over the winners, says that `cardIndexForName` finds a card of their own
  for each winner as long as there are cards; polls leave these cards alone.

`DataLemmas` has what these proofs need of data.  TLAPS cannot instantiate the
induction theorems of its library, which take the induction formula as a parameter.
Here induction is over a set: `NatInd` says that a set which has 0 and with each
number its successor has all of Nat, from `WFMin`, which is about sets too.
`FoldExists` gives the function behind `FoldLeft`, with its step as a function;
`AssignUnfold`, `TotalUnfold` and `CardsUnfold` equate the folds of the models with
it.  `RankExists` and `RankUnique` number the elements of a finite set of numbers.

Only model-checked: the liveness properties `SeenToEnd`, `Settled`, `Converges`
and `CatchesUp`: fairness and ENABLED are out of TLAPS's reach here.

## 5. Not modelled

WeChat login and the public pages (redirects, cookies, files), and the generated
gateway handlers, which bind arguments and call one `App` method each, keep no
state of the system.  Of what is modelled: passwords, the expiry of tokens and of idempotency
values, the rate limiter, the parsing of an import, the geometry and the animation of
the screen, and every text are left out; so are operations that only read (lists,
statistics, the feed) where no property is about them.

Left to do: a composition of `Hub` and `Sphere` in place of the list that stands for the hub.
