----------------------------- MODULE Lifecycle -----------------------------
(***************************************************************************)
(* The life of one activity: draft, published, running, paused, ended,     *)
(* cancelled, drawn.  MySQL holds the status under an optimistic lock (the *)
(* version column).  Redis holds a copy, the meta hash, which is all that  *)
(* the live draw's script looks at, and a delay queue with one job for the *)
(* start and one for the end.  Handlers of the gateway and the worker move *)
(* the status; each of them reads the row, decides, updates the row if its *)
(* version is still the one read, and then writes the copy, each a step of *)
(* its own.  A scheduled activity is drawn by RunScheduledDraw, which the  *)
(* worker's end job and the operator's ForceDraw call.                     *)
(*                                                                         *)
(* One clock serves all processes.  A process reads it together with the   *)
(* row: a row that changes in between fails the version check anyway.      *)
(***************************************************************************)
EXTENDS Integers

CONSTANTS
  Handlers,    \* requests to the gateway that may run at once
  Worker,      \* the worker process
  Ops,         \* the operations that each of them may be
  Configs,     \* the modes and windows that an operator may enter
  Rosters,     \* what the unique keys may make of the winners it yields
  Slack,       \* how much too early a draw may be (2 s in the code)
  MaxTime,     \* bound: the clock stops here
  MaxVersion,  \* bound: no request starts at this version of the row
  Faults       \* the kinds of failure the environment may cause

OpKinds == {"publish", "update", "pause", "resume", "cancel", "visit", "force"}
FaultKinds == {"crash",   \* a process dies, its local state is lost
               "db",      \* a statement or a transaction on MySQL fails
               "redis",   \* a call to Redis fails
               "expire"}  \* the draw takes longer than its lock lives
\* scheduled_winners has one row per user_id of an activity and per token: winners
\* drawn from the roster fit, or do not (two without an account have the same
\* user_id, 0, and a token repeats beyond 65536 winners), or it depends on the draw.
RosterKinds == {"fits", "clashes", "depends"}
Modes    == {"live", "scheduled"}
Statuses == {"draft", "published", "running", "paused", "ended", "cancelled",
             "drawn"}
Procs    == Handlers \cup {Worker}

ASSUME LifecycleAssumption ==
  /\ Worker \notin Handlers
  /\ Ops \in [Handlers -> SUBSET OpKinds]
  /\ Configs \subseteq [mode : Modes, start : Nat, end : Nat]
  /\ \A c \in Configs : c.start < c.end  \* checkActivityInput
  /\ Rosters \subseteq RosterKinds
  /\ Slack \in Nat
  /\ MaxTime \in Nat
  /\ MaxVersion \in Nat
  /\ Faults \subseteq FaultKinds

VARIABLES
  act,    \* the activities row in MySQL, and the kind of its roster
  draws,  \* how often InsertWinnersTx has committed for it
  meta,   \* the meta hash in Redis: status and window
  jobs,   \* the delay queue in Redis: when each job is due
  lock,   \* whether the key lg:drawlock exists
  now,    \* the time
  pr      \* local state of each process

vars == <<act, draws, meta, jobs, lock, now, pr>>

NoTime == -1
NoAct  == [mode |-> "none", start |-> 0, end |-> 0, status |-> "none",
           version |-> 0, roster |-> "none"]
NoMeta == [status |-> "none", start |-> 0, end |-> 0]
Idle   == [pc |-> "idle", op |-> "none", seen |-> NoAct, to |-> "none"]
Config(a) == [mode |-> a.mode, start |-> a.start, end |-> a.end]

Act  == [mode : Modes, start : Nat, end : Nat, status : Statuses,
         version : Nat, roster : RosterKinds]
Meta == [status : (Statuses \ {"draft"}) \cup {"none"}, start : Nat, end : Nat]
PC   == {"idle", "update", "load", "cas", "schedstart", "schedend", "meta",
         "run", "lock", "close", "reread", "insert", "drawn", "unlock",
         "remove"}
Proc == [pc : PC, op : OpKinds \cup {"start", "end", "none"},
         seen : Act \cup {NoAct}, to : Statuses \cup {"none"}]

TypeOK ==
  /\ act \in Act
  /\ draws \in Nat
  /\ meta \in Meta
  /\ jobs \in [{"start", "end"} -> Nat \cup {NoTime}]
  /\ lock \in BOOLEAN
  /\ now \in 0 .. MaxTime
  /\ pr \in [Procs -> Proc]

\* CreateActivityTx.
Init ==
  /\ act \in {[mode |-> c.mode, start |-> c.start, end |-> c.end,
               status |-> "draft", version |-> 0, roster |-> r] :
                 c \in Configs, r \in Rosters}
  /\ draws = 0
  /\ meta = NoMeta
  /\ jobs = [k \in {"start", "end"} |-> NoTime]
  /\ lock = FALSE
  /\ now = 0
  /\ pr = [p \in Procs |-> Idle]
-----------------------------------------------------------------------------
(* Helpers.                                                                *)

\* Mutant: the update does not look at the version.
CASWinsAny(seen) == act.status = seen.status

\* The WHERE clause of CASStatus, for a process that saw that row.
CASWins(seen) == act.status = seen.status /\ act.version = seen.version

Moved(to) == [act EXCEPT !.status = to, !.version = @ + 1]
Become(p, r) == pr' = [pr EXCEPT ![p] = r]
At(p, pc) == [pr[p] EXCEPT !.pc = pc]
Goto(p, pc) == Become(p, At(p, pc))

\* The worker between two parts of the job op.
InJob(pc, op) == [Idle EXCEPT !.pc = pc, !.op = op]

\* The handler returns; the worker goes on to remove the job.
Finish(p) ==
  Become(p, IF p = Worker THEN InJob("remove", pr[p].op) ELSE Idle)

\* liveDrawLua lets a draw through.
LuaAllows == meta.status = "running" /\ meta.start <= now /\ now < meta.end

\* A request for op reads the row and decides to change its status to `to`.
Decide(h, op, pc, to) ==
  /\ op \in Ops[h]
  /\ act.version < MaxVersion
  /\ pr[h] = Idle
  /\ Become(h, [pc |-> pc, op |-> op, seen |-> act, to |-> to])
  /\ UNCHANGED <<act, draws, meta, jobs, lock, now>>
-----------------------------------------------------------------------------
(* Requests: what each reads and decides.                                  *)

PublishRead(h) ==
  /\ act.status = "draft"
  /\ Decide(h, "publish", "load", IF act.start <= now /\ now < act.end
                                    THEN "running" ELSE "published")

\* UpdateActivity checks the status before it opens the transaction.
UpdateRead(h) ==
  /\ act.status = "draft"
  /\ Decide(h, "update", "update", "draft")

\* App.flip reads the row only for its version.  With another status than
\* the one it expects, the update finds no row and nothing happens.
PauseRead(h) ==
  /\ act.status = "running"
  /\ Decide(h, "pause", "cas", "paused")

ResumeRead(h) ==
  /\ act.status = "paused"
  /\ Decide(h, "resume", "cas", "running")

CancelRead(h) ==
  /\ act.status \notin {"drawn", "cancelled"}
  /\ Decide(h, "cancel", "cas", "cancelled")

\* maybeFlipStatus, in GetPublic, LiveDraw and Enroll.
VisitRead(h) ==
  \/ /\ act.status = "published"
     /\ act.start <= now /\ now < act.end
     /\ Decide(h, "visit", "cas", "running")
  \/ /\ act.status \in {"running", "published"}
     /\ act.end <= now
     /\ Decide(h, "visit", "cas", "ended")
-----------------------------------------------------------------------------
(* Requests: what they then do.                                            *)

\* Mutant: the UPDATE trusts the handler's check of the status.
UpdateTxAny(h) ==
  /\ pr[h].pc = "update"
  /\ \E c \in Configs :
       act' = [act EXCEPT !.mode = c.mode, !.start = c.start, !.end = c.end,
                          !.version = @ + 1]
  /\ Become(h, Idle)
  /\ UNCHANGED <<draws, meta, jobs, lock, now>>

\* UpdateActivityTx: the status is checked again, the version is not.
UpdateTx(h) ==
  /\ pr[h].pc = "update"
  /\ \/ /\ act.status = "draft"
        /\ \E c \in Configs :
             act' = [act EXCEPT !.mode = c.mode, !.start = c.start,
                                !.end = c.end, !.version = @ + 1]
     \/ /\ act.status # "draft" \/ "db" \in Faults
        /\ act' = act
  /\ Become(h, Idle)
  /\ UNCHANGED <<draws, meta, jobs, lock, now>>

\* Mutant: the status loaded is the one read, not the one decided.
PublishLoadSeen(h) ==
  /\ pr[h].pc = "load"
  /\ meta' = [status |-> pr[h].seen.status, start |-> pr[h].seen.start,
              end |-> pr[h].seen.end]
  /\ Goto(h, "cas")
  /\ UNCHANGED <<act, draws, jobs, lock, now>>

\* LoadMeta.  If it fails, Publish returns.
PublishLoad(h) ==
  /\ pr[h].pc = "load"
  /\ \/ /\ meta' = [status |-> pr[h].to, start |-> pr[h].seen.start,
                    end |-> pr[h].seen.end]
        /\ Goto(h, "cas")
     \/ /\ "redis" \in Faults
        /\ meta' = meta
        /\ Become(h, Idle)
  /\ UNCHANGED <<act, draws, jobs, lock, now>>

\* CASStatus succeeds.
CASWon(p) ==
  /\ pr[p].pc = "cas"
  /\ CASWins(pr[p].seen)
  /\ act' = Moved(pr[p].to)
  /\ Goto(p, IF pr[p].op = "publish" THEN "schedstart" ELSE "meta")
  /\ UNCHANGED <<draws, meta, jobs, lock, now>>

\* Mutant: Publish schedules the jobs though it lost the race.
CASLostGoesOn(p) ==
  /\ pr[p].pc = "cas"
  /\ ~CASWins(pr[p].seen)
  /\ Goto(p, IF pr[p].op = "publish" THEN "schedstart" ELSE "meta")
  /\ UNCHANGED <<act, draws, meta, jobs, lock, now>>

\* It changes no row or fails.  A handler returns the error; the worker
\* ignores it and goes on to set the status in Redis.
CASLost(p) ==
  /\ pr[p].pc = "cas"
  /\ ~CASWins(pr[p].seen) \/ "db" \in Faults
  /\ IF p = Worker THEN Goto(p, "meta") ELSE Become(p, Idle)
  /\ UNCHANGED <<act, draws, meta, jobs, lock, now>>

\* SetStatus.  Pause and Resume return its error, the others ignore it; the
\* meta hash keeps the old status either way.  The worker's end job goes on
\* to draw a scheduled activity.
SetStatus(p) ==
  /\ pr[p].pc = "meta"
  /\ \/ meta' = [meta EXCEPT !.status = pr[p].to]
     \/ "redis" \in Faults /\ meta' = meta
  /\ IF pr[p].op = "end" /\ pr[p].seen.mode = "scheduled"
       THEN Become(p, InJob("run", "end"))
       ELSE Finish(p)
  /\ UNCHANGED <<act, draws, jobs, lock, now>>

\* ScheduleJob; its error is dropped.
ScheduleStart(h) ==
  /\ pr[h].pc = "schedstart"
  /\ \/ jobs' = [jobs EXCEPT !["start"] = pr[h].seen.start]
     \/ "redis" \in Faults /\ jobs' = jobs
  /\ Goto(h, "schedend")
  /\ UNCHANGED <<act, draws, meta, lock, now>>

ScheduleEnd(h) ==
  /\ pr[h].pc = "schedend"
  /\ \/ jobs' = [jobs EXCEPT !["end"] = pr[h].seen.end]
     \/ "redis" \in Faults /\ jobs' = jobs
  /\ Become(h, Idle)
  /\ UNCHANGED <<act, draws, meta, lock, now>>
-----------------------------------------------------------------------------
(* RunScheduledDraw, called by the worker's end job and by ForceDraw.      *)

\* The call begins: where the end job left off, or a request comes in.
RunCalled(p) ==
  \/ pr[p].pc = "run"
  \/ /\ p \in Handlers
     /\ "force" \in Ops[p]
     /\ act.version < MaxVersion
     /\ pr[p] = Idle

\* What it checks of the row before it takes the lock.
RunAllowed ==
  /\ act.mode = "scheduled"
  /\ act.status # "drawn"
  /\ now + Slack >= act.end

RunRead(p) ==
  /\ RunCalled(p)
  /\ RunAllowed
  /\ Become(p, [pc |-> "lock", op |-> IF p = Worker THEN "end" ELSE "force",
                seen |-> act, to |-> "ended"])
  /\ UNCHANGED <<act, draws, meta, jobs, lock, now>>

RunRefused(p) ==
  /\ pr[p].pc = "run"
  /\ ~RunAllowed \/ "db" \in Faults
  /\ Finish(p)
  /\ UNCHANGED <<act, draws, meta, jobs, lock, now>>

\* SETNX succeeds.
RunLock(p) ==
  /\ pr[p].pc = "lock"
  /\ ~lock
  /\ lock' = TRUE
  /\ Goto(p, IF pr[p].seen.status # "ended" THEN "close" ELSE "insert")
  /\ UNCHANGED <<act, draws, meta, jobs, now>>

\* ErrBusy, or Redis fails.
RunBusy(p) ==
  /\ pr[p].pc = "lock"
  /\ lock \/ "redis" \in Faults
  /\ Finish(p)
  /\ UNCHANGED <<act, draws, meta, jobs, lock, now>>

\* CASStatus to ended, whatever the status was; its result is ignored.
RunClose(p) ==
  /\ pr[p].pc = "close"
  /\ \/ CASWins(pr[p].seen) /\ act' = Moved("ended")
     \/ /\ ~CASWins(pr[p].seen) \/ "db" \in Faults
        /\ act' = act
  /\ Goto(p, "reread")
  /\ UNCHANGED <<draws, meta, jobs, lock, now>>

\* The row is read again, for its version; if that fails, the old one stays.
RunReread(p) ==
  /\ pr[p].pc = "reread"
  /\ \E a \in {act} \cup (IF "db" \in Faults THEN {pr[p].seen} ELSE {}) :
       Become(p, [pr[p] EXCEPT !.pc = "insert", !.seen = a])
  /\ UNCHANGED <<act, draws, meta, jobs, lock, now>>

\* Mutant: the transaction relies on the lock.
InsertWinsLocked(p) == TRUE

\* The WHERE clause of InsertWinnersTx.
InsertWins(p) ==
  /\ act.version = pr[p].seen.version
  /\ act.status \in {"ended", "running", "published"}

\* InsertWinnersTx commits: status and winners in one transaction.
RunInsert(p) ==
  /\ pr[p].pc = "insert"
  /\ InsertWins(p)
  /\ act.roster # "clashes"
  /\ act' = Moved("drawn")
  /\ draws' = draws + 1
  /\ Goto(p, "drawn")
  /\ UNCHANGED <<meta, jobs, lock, now>>

\* It meets another version or status, a row breaks a unique key, or it fails.
RunInsertFails(p) ==
  /\ pr[p].pc = "insert"
  /\ ~InsertWins(p) \/ act.roster # "fits" \/ "db" \in Faults
  /\ Goto(p, "unlock")
  /\ UNCHANGED <<act, draws, meta, jobs, lock, now>>

RunSetStatus(p) ==
  /\ pr[p].pc = "drawn"
  /\ \/ meta' = [meta EXCEPT !.status = "drawn"]
     \/ "redis" \in Faults /\ meta' = meta
  /\ Goto(p, "unlock")
  /\ UNCHANGED <<act, draws, jobs, lock, now>>

\* The deferred DEL, whoever holds the lock by now.
RunUnlock(p) ==
  /\ pr[p].pc = "unlock"
  /\ \/ lock' = FALSE
     \/ "redis" \in Faults /\ lock' = lock
  /\ Finish(p)
  /\ UNCHANGED <<act, draws, meta, jobs, now>>
-----------------------------------------------------------------------------
(* HandleDueJobs: the worker takes due jobs in the order of their times.   *)

Due(k) == jobs[k] # NoTime /\ jobs[k] <= now

\* The start job comes first.  If its row cannot be read, or it cannot be
\* removed, the worker goes on with the next job.
StartIsDone == Due("start") => Faults \cap {"db", "redis"} # {}

TakeStart ==
  /\ pr[Worker] = Idle
  /\ Due("start")
  /\ Become(Worker, IF act.status = "published" /\ act.start <= now
       THEN [pc |-> "cas", op |-> "start", seen |-> act, to |-> "running"]
       ELSE InJob("remove", "start"))
  /\ UNCHANGED <<act, draws, meta, jobs, lock, now>>

\* Mutant: only an activity that this job has ended itself is drawn.
TakeEndOwn ==
  /\ pr[Worker] = Idle
  /\ Due("end") /\ StartIsDone
  /\ act.end <= now + Slack
  /\ Become(Worker,
       IF act.status \in {"running", "published", "paused"}
         THEN [pc |-> "cas", op |-> "end", seen |-> act, to |-> "ended"]
         ELSE InJob("remove", "end"))
  /\ UNCHANGED <<act, draws, meta, jobs, lock, now>>

\* The end job checks the row's end again, with the tolerance.
TakeEnd ==
  /\ pr[Worker] = Idle
  /\ Due("end") /\ StartIsDone
  /\ act.end <= now + Slack
  /\ Become(Worker,
       IF act.status \in {"running", "published", "paused"}
         THEN [pc |-> "cas", op |-> "end", seen |-> act, to |-> "ended"]
         ELSE InJob(IF act.mode = "scheduled" THEN "run" ELSE "remove", "end"))
  /\ UNCHANGED <<act, draws, meta, jobs, lock, now>>

\* RemoveJob, whatever came of the job.  If ZREM fails the job is taken again.
RemoveJob ==
  /\ pr[Worker].pc = "remove"
  /\ \/ jobs' = [jobs EXCEPT ![pr[Worker].op] = NoTime]
     \/ "redis" \in Faults /\ jobs' = jobs
  /\ Become(Worker, Idle)
  /\ UNCHANGED <<act, draws, meta, lock, now>>
-----------------------------------------------------------------------------
(* The environment, and the specification.                                 *)

\* A process dies and comes back.
Crash(p) ==
  /\ "crash" \in Faults
  /\ pr[p] # Idle
  /\ Become(p, Idle)
  /\ UNCHANGED <<act, draws, meta, jobs, lock, now>>

\* The lock's 120 seconds are over.
Expire ==
  /\ "expire" \in Faults
  /\ lock
  /\ lock' = FALSE
  /\ UNCHANGED <<act, draws, meta, jobs, now, pr>>

Tick ==
  /\ now < MaxTime
  /\ now' = now + 1
  /\ UNCHANGED <<act, draws, meta, jobs, lock, pr>>

Request(h) ==
  \/ PublishRead(h) \/ UpdateRead(h) \/ PauseRead(h) \/ ResumeRead(h)
  \/ CancelRead(h) \/ VisitRead(h)

RunStep(p) ==
  \/ RunRead(p) \/ RunRefused(p) \/ RunLock(p) \/ RunBusy(p) \/ RunClose(p)
  \/ RunReread(p) \/ RunInsert(p) \/ RunInsertFails(p) \/ RunSetStatus(p)
  \/ RunUnlock(p)

HandlerStep(h) ==
  \/ UpdateTx(h) \/ PublishLoad(h) \/ CASWon(h) \/ CASLost(h) \/ SetStatus(h)
  \/ ScheduleStart(h) \/ ScheduleEnd(h)
  \/ pr[h] # Idle /\ RunStep(h)

WorkerStep ==
  \/ TakeStart \/ TakeEnd \/ CASWon(Worker) \/ CASLost(Worker)
  \/ SetStatus(Worker) \/ RunStep(Worker) \/ RemoveJob

Next ==
  \/ \E h \in Handlers : Request(h) \/ RunRead(h) \/ HandlerStep(h)
  \/ WorkerStep
  \/ \E p \in Procs : Crash(p)
  \/ Expire
  \/ Tick

Spec == Init /\ [][Next]_vars

\* Requests that have begun go on, the worker's ticker calls HandleDueJobs
\* every second, and time passes.  No request has to come.
Fairness == /\ \A h \in Handlers : WF_vars(HandlerStep(h))
            /\ WF_vars(WorkerStep)
            /\ WF_vars(Tick)

FairSpec == Spec /\ Fairness
-----------------------------------------------------------------------------
(* What holds, for any interleaving and every failure above.               *)

\* The winners of a scheduled activity are written once, and nothing moves
\* it on afterwards: a lock that expires or is deleted by another process
\* lets two draws run, and still one of them commits.
DrawnOnce == draws = IF act.status = "drawn" THEN 1 ELSE 0

\* The status is never ahead of the clock, though handlers decide on a row
\* and a window that others may have changed since: an activity that runs has
\* started, and one that has ended is at most the tolerance early.
OnTime ==
  /\ act.status \in {"running", "paused"} => act.start <= now
  /\ act.status = "ended" => act.end <= now + Slack

\* The delay queue holds the times of the activity that was published, not
\* those of an edit or of a publisher that lost.
JobsMatch ==
  /\ jobs["start"] \in {NoTime, act.start}
  /\ jobs["end"] \in {NoTime, act.end}
  /\ act.status = "draft" => jobs["start"] = NoTime /\ jobs["end"] = NoTime

\* What is published is what the publisher has read and validated, and it
\* stays as it is: no edit, however late, changes an activity that has left
\* the draft status, and none comes back to it.
FrozenByPublish == [][
  /\ act.status # "draft" => act'.status # "draft" /\ Config(act') = Config(act)
  /\ act.status = "draft" /\ act'.status \in {"published", "running"}
       => \E h \in Handlers : pr[h].op = "publish" /\ pr[h].seen = act]_vars

\* Without failures the worker sees every published activity to its end: a
\* scheduled one is drawn, a live one is closed, or it was cancelled.  A scheduled
\* one whose winners the unique keys may refuse is at least closed; its job is
\* removed, and nothing but a ForceDraw tries again.
SeenToEnd ==
  act.status \in {"published", "running"}
    ~> \/ act.status \in {"drawn", "cancelled"}
       \/ act.status = "ended" /\ (act.mode = "live" \/ act.roster # "fits")
-----------------------------------------------------------------------------
(* What the documents say of the program and the code does not keep.       *)

\* docs/production-edges.md section 5: the script refuses a paused activity.
\* (Checked when no process is between its update and its SetStatus.)
PausedRefused ==
  act.status = "paused" /\ (\A p \in Procs : pr[p] = Idle) => ~LuaAllows

\* docs/production-edges.md section 5: no jumps; cancelled is an end.
CancelledStays == [][act.status = "cancelled" => act'.status = "cancelled"]_vars

\* docs/production-edges.md section 6: a draw that is too early is refused.
DrawnOnTime == act.status = "drawn" => act.end <= now + Slack
=============================================================================
