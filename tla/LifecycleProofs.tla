-------------------------- MODULE LifecycleProofs --------------------------
(***************************************************************************)
(* Proofs about Lifecycle, for any handlers, operations, windows and       *)
(* failures.  They rest on one fact: whoever changes the row raises its    *)
(* version, so a process whose version is still the row's has seen the row *)
(* as it is, and what it has decided about the row it saw is true of the   *)
(* row it changes.                                                         *)
(***************************************************************************)
EXTENDS Lifecycle, TLAPS

\* A row that a process has seen is an old row, or the row as it is.
SeenIsOld(p) ==
  pr[p].seen # NoAct => /\ pr[p].seen.version <= act.version
                        /\ pr[p].seen.version = act.version => pr[p].seen = act

\* What a process that is about to change the status has made sure of.
Decided(p) ==
  pr[p].pc \in {"load", "cas"} =>
    /\ pr[p].seen \in Act
    /\ pr[p].seen.status # "drawn"
    /\ pr[p].to \in {"published", "running", "paused", "ended", "cancelled"}
    /\ pr[p].to \in {"running", "paused"} => pr[p].seen.start <= now
    /\ pr[p].to = "ended" => pr[p].seen.end <= now + Slack

\* Only a publisher moves a draft on.
DraftIsPublished(p) ==
  /\ pr[p].pc = "load" => pr[p].op = "publish"
  /\ pr[p].pc \in {"load", "cas"} /\ pr[p].op = "publish" =>
       p \in Handlers /\ pr[p].to \in {"published", "running"}
  /\ /\ pr[p].pc = "cas"
     /\ pr[p].to \in {"published", "running"}
     /\ pr[p].seen.status = "draft"
     => pr[p].op = "publish"

\* What RunScheduledDraw has made sure of before it closes the activity.
RunChecked(p) ==
  pr[p].pc \in {"lock", "close"} =>
    /\ pr[p].seen \in Act
    /\ pr[p].seen.status # "drawn"
    /\ pr[p].seen.end <= now + Slack

\* A process that schedules the jobs has published this activity.
Scheduling(p) ==
  pr[p].pc \in {"schedstart", "schedend"} =>
    /\ pr[p].seen \in Act
    /\ act.status # "draft"
    /\ pr[p].seen.start = act.start
    /\ pr[p].seen.end = act.end

\* A process between SetStatus and its end has something to write.
Writing(p) == pr[p].pc = "meta" => pr[p].to \in Statuses \ {"draft"}

\* The worker removes the job it has taken.
Removing ==
  /\ pr[Worker].op \in {"start", "end", "none"}
  /\ pr[Worker].pc # "idle" => pr[Worker].op \in {"start", "end"}

ProcInv(p) ==
  /\ SeenIsOld(p) /\ Decided(p) /\ DraftIsPublished(p) /\ RunChecked(p)
  /\ Scheduling(p) /\ Writing(p)

Inv == /\ TypeOK
       /\ DrawnOnce /\ OnTime /\ JobsMatch
       /\ \A p \in Procs : ProcInv(p)
       /\ Removing
-----------------------------------------------------------------------------
(* The shape of a step.                                                    *)

\* The row stays, or a newer one takes its place; what has been published
\* does not become a draft again and keeps its window.
RowStep ==
  \/ act' = act
  \/ /\ act' \in Act
     /\ act'.version = act.version + 1
     /\ act.status # "draft" => /\ act'.status # "draft"
                                /\ act'.start = act.start
                                /\ act'.end = act.end

LEMMA ActFields ==
  ASSUME NEW a \in Act
  PROVE  /\ a.mode \in Modes /\ a.start \in Nat /\ a.end \in Nat
         /\ a.status \in Statuses /\ a.version \in Nat /\ a # NoAct
BY DEF Act, NoAct, Modes

LEMMA NoActFields ==
  /\ NoAct.version = 0 /\ NoAct.start = 0 /\ NoAct.end = 0
  /\ NoAct.mode = "none" /\ NoAct.status = "none"
BY DEF NoAct

\* A row with another status and another version.
LEMMA RowWith ==
  ASSUME NEW a \in Act, NEW s \in Statuses, NEW v \in Nat
  PROVE  [a EXCEPT !.status = s, !.version = v] \in Act
BY DEF Act

LEMMA RowEdited ==
  ASSUME NEW a \in Act, NEW m \in Modes, NEW s \in Nat, NEW e \in Nat, NEW v \in Nat
  PROVE  [a EXCEPT !.mode = m, !.start = s, !.end = e, !.version = v] \in Act
BY DEF Act

LEMMA MovedRow ==
  ASSUME act \in Act, NEW to \in Statuses
  PROVE  /\ Moved(to) \in Act
         /\ Moved(to).status = to
         /\ Moved(to).version = act.version + 1
         /\ Moved(to).start = act.start
         /\ Moved(to).end = act.end
         /\ Moved(to).mode = act.mode
<1>1. act.version + 1 \in Nat
  BY DEF Act
<1>2. Moved(to) \in Act
  BY <1>1, RowWith DEF Moved
<1> QED
  BY <1>2 DEF Moved, Act

\* What holds of a process that does nothing holds after a step of another.
LEMMA OthersKeep ==
  ASSUME TypeOK, NEW q \in Procs, ProcInv(q), pr'[q] = pr[q], RowStep,
         now' \in Nat, now <= now'
  PROVE  ProcInv(q)'
<1> USE ActFields, NoActFields
<1>1. act \in Act /\ now \in Nat /\ Slack \in Nat
  BY LifecycleAssumption DEF TypeOK
<1>2. pr[q].seen \in Act \cup {NoAct}
  BY DEF TypeOK, Proc
<1>3. SeenIsOld(q)'
  BY <1>1, <1>2 DEF ProcInv, SeenIsOld, RowStep
<1>4. Decided(q)'
  BY <1>1, <1>2 DEF ProcInv, Decided
<1>5. DraftIsPublished(q)'
  BY DEF ProcInv, DraftIsPublished
<1>6. RunChecked(q)'
  BY <1>1, <1>2 DEF ProcInv, RunChecked
<1>7. Scheduling(q)'
  BY <1>1, <1>2 DEF ProcInv, Scheduling, RowStep
<1>8. Writing(q)'
  BY DEF ProcInv, Writing
<1> QED
  BY <1>3, <1>4, <1>5, <1>6, <1>7, <1>8 DEF ProcInv

\* A step of p, which leaves p with the local state r.
LEMMA StepOf ==
  ASSUME Inv, NEW p \in Procs, NEW r \in Proc, Become(p, r), RowStep,
         now' = now, draws' \in Nat, meta' \in Meta, lock' \in BOOLEAN,
         jobs' \in [{"start", "end"} -> Nat \cup {NoTime}],
         DrawnOnce', OnTime', JobsMatch', ProcInv(p)',
         p = Worker => Removing'
  PROVE  Inv'
<1>1. pr' \in [Procs -> Proc] /\ \A q \in Procs \ {p} : pr'[q] = pr[q]
  BY DEF Inv, TypeOK, Become
<1>2. act' \in Act
  BY DEF Inv, TypeOK, RowStep
<1>3. TypeOK'
  BY <1>1, <1>2 DEF Inv, TypeOK
<1>4. now \in Nat
  BY LifecycleAssumption DEF Inv, TypeOK
<1>5. ASSUME NEW q \in Procs PROVE ProcInv(q)'
  BY <1>1, <1>4, <1>5, OthersKeep DEF Inv
<1>6. Removing'
  BY <1>1 DEF Inv, Removing, Procs
<1> QED
  BY <1>3, <1>5, <1>6 DEF Inv

\* A step that changes neither the row nor the queue nor the clock.
LEMMA QuietStep ==
  ASSUME Inv, NEW p \in Procs, NEW r \in Proc, Become(p, r),
         UNCHANGED <<act, draws, jobs, now>>, meta' \in Meta, lock' \in BOOLEAN,
         ProcInv(p)', p = Worker => Removing'
  PROVE  Inv'
<1>1. DrawnOnce' /\ OnTime' /\ JobsMatch'
  BY DEF Inv, DrawnOnce, OnTime, JobsMatch
<1>2. draws' \in Nat /\ jobs' \in [{"start", "end"} -> Nat \cup {NoTime}]
  BY DEF Inv, TypeOK
<1> QED
  BY <1>1, <1>2, StepOf DEF RowStep

\* A step that moves the status, but not to drawn.
LEMMA MoveStep ==
  ASSUME Inv, NEW p \in Procs, NEW r \in Proc, Become(p, r),
         NEW to \in Statuses \ {"draft", "drawn"}, act' = Moved(to),
         act.status # "drawn",
         to \in {"running", "paused"} => act.start <= now,
         to = "ended" => act.end <= now + Slack,
         UNCHANGED <<draws, meta, jobs, lock, now>>,
         ProcInv(p)', p = Worker => Removing'
  PROVE  Inv'
<1>1. /\ act' \in Act /\ act'.status = to /\ act'.version = act.version + 1
      /\ act'.start = act.start /\ act'.end = act.end
  BY MovedRow DEF Inv, TypeOK
<1>2. DrawnOnce'
  BY <1>1 DEF Inv, DrawnOnce
<1>3. OnTime'
  BY <1>1 DEF OnTime
<1>4. JobsMatch'
  BY <1>1 DEF Inv, JobsMatch
<1>5. RowStep
  BY <1>1 DEF RowStep
<1>6. /\ draws' \in Nat /\ meta' \in Meta /\ lock' \in BOOLEAN
      /\ jobs' \in [{"start", "end"} -> Nat \cup {NoTime}]
  BY DEF Inv, TypeOK
<1> QED
  BY <1>2, <1>3, <1>4, <1>5, <1>6, StepOf
-----------------------------------------------------------------------------
(* Local states.                                                           *)

LEMMA ProcFields ==
  ASSUME Inv, NEW p \in Procs
  PROVE  /\ pr[p] \in Proc
         /\ pr[p].pc \in PC
         /\ pr[p].op \in OpKinds \cup {"start", "end", "none"}
         /\ pr[p].seen \in Act \cup {NoAct}
         /\ pr[p].to \in Statuses \cup {"none"}
BY DEF Inv, TypeOK, Proc

LEMMA NewLocal ==
  ASSUME Inv, NEW p \in Procs, NEW r \in Proc, Become(p, r)
  PROVE  pr'[p] = r
BY DEF Inv, TypeOK, Become

LEMMA IdleLocal ==
  /\ Idle \in Proc /\ Idle.pc = "idle" /\ Idle.seen = NoAct
  /\ Idle.op = "none" /\ Idle.to = "none"
BY DEF Idle, Proc, PC

\* A process that goes to another point of its program.
LEMMA GotoLocal ==
  ASSUME Inv, NEW p \in Procs, NEW pc \in PC
  PROVE  /\ At(p, pc) \in Proc /\ At(p, pc).pc = pc
         /\ At(p, pc).op = pr[p].op /\ At(p, pc).to = pr[p].to
         /\ At(p, pc).seen = pr[p].seen
BY ProcFields DEF At, Proc

\* The worker about to draw, or to remove the job it has taken.
LEMMA WorkerLocal ==
  ASSUME NEW pc \in PC, NEW op \in {"start", "end"}
  PROVE  /\ InJob(pc, op) \in Proc /\ InJob(pc, op).pc = pc
         /\ InJob(pc, op).op = op /\ InJob(pc, op).seen = NoAct
BY IdleLocal DEF InJob, Proc

\* At these points nothing but the version of the row seen matters.
LEMMA Carefree ==
  ASSUME NEW p \in Procs, SeenIsOld(p)',
         pr'[p].pc \in {"idle", "update", "run", "reread", "insert", "drawn",
                        "unlock", "remove"}
  PROVE  ProcInv(p)'
BY DEF ProcInv, Decided, DraftIsPublished, RunChecked, Scheduling, Writing

\* A process that saw nothing, the same row as before, or the row as it is.
LEMMA SeenStays ==
  ASSUME Inv, NEW p \in Procs, act' = act,
         \/ pr'[p].seen = NoAct
         \/ pr'[p].seen = pr[p].seen
         \/ pr'[p].seen = act
  PROVE  SeenIsOld(p)'
<1>1. act \in Act /\ SeenIsOld(p)
  BY DEF Inv, ProcInv, TypeOK
<1> QED
  BY <1>1, ProcFields, ActFields, NoActFields DEF SeenIsOld

\* The row seen is older still once the row has changed.
LEMMA SeenOlder ==
  ASSUME Inv, NEW p \in Procs, act' \in Act, act'.version = act.version + 1,
         pr'[p].seen = NoAct \/ pr'[p].seen = pr[p].seen
  PROVE  SeenIsOld(p)'
<1>1. act \in Act /\ SeenIsOld(p)
  BY DEF Inv, ProcInv, TypeOK
<1>2. act.version \in Nat /\ act'.version \in Nat
  BY <1>1, ActFields
<1>3. CASE pr'[p].seen = NoAct
  BY <1>3 DEF SeenIsOld
<1>4. CASE pr'[p].seen = pr[p].seen /\ pr[p].seen # NoAct
  <2>1. pr[p].seen \in Act /\ pr[p].seen.version \in Nat
    BY <1>4, ProcFields, ActFields
  <2>2. pr[p].seen.version <= act.version
    BY <1>1, <1>4 DEF SeenIsOld
  <2> QED
    BY <1>2, <1>4, <2>1, <2>2 DEF SeenIsOld
<1> QED
  BY <1>3, <1>4

\* Idle fits anywhere, and so does what the worker leaves a job with.
LEMMA IdleStep ==
  ASSUME Inv, NEW p \in Procs, Become(p, Idle),
         UNCHANGED <<act, draws, jobs, now>>, meta' \in Meta, lock' \in BOOLEAN
  PROVE  Inv'
<1>1. pr'[p] = Idle
  BY IdleLocal, NewLocal
<1>2. ProcInv(p)'
  BY <1>1, IdleLocal, SeenStays, Carefree
<1>3. p = Worker => Removing'
  BY <1>1, IdleLocal DEF Removing
<1> QED
  BY <1>2, <1>3, IdleLocal, QuietStep

LEMMA FinishStep ==
  ASSUME Inv, NEW p \in Procs, Finish(p), pr[p].pc # "idle",
         UNCHANGED <<act, draws, jobs, now>>, meta' \in Meta, lock' \in BOOLEAN
  PROVE  Inv'
<1>1. CASE p # Worker
  BY <1>1, IdleStep DEF Finish
<1>2. CASE p = Worker
  <2> DEFINE r == InJob("remove", pr[p].op)
  <2>1. pr[p].op \in {"start", "end"}
    BY <1>2 DEF Inv, Removing
  <2> "remove" \in PC
    BY DEF PC
  <2>2. r \in Proc /\ r.pc = "remove" /\ r.op = pr[p].op /\ r.seen = NoAct
    BY <2>1, WorkerLocal
  <2>3. Become(p, r)
    BY <1>2 DEF Finish
  <2> HIDE DEF r
  <2>4. pr'[p] = r
    BY <2>2, <2>3, NewLocal
  <2>5. ProcInv(p)'
    BY <2>2, <2>4, SeenStays, Carefree
  <2>6. Removing'
    BY <1>2, <2>1, <2>2, <2>4 DEF Removing
  <2> QED
    BY <2>2, <2>3, <2>5, <2>6, QuietStep
<1> QED
  BY <1>1, <1>2
-----------------------------------------------------------------------------
(* Requests.                                                               *)

LEMMA DecideStep ==
  ASSUME Inv, NEW h \in Handlers, NEW op \in OpKinds, NEW pc \in {"load", "cas"},
         NEW to \in {"published", "running", "paused", "ended", "cancelled"},
         Decide(h, op, pc, to),
         act.status # "drawn",
         to \in {"running", "paused"} => act.start <= now,
         to = "ended" => act.end <= now + Slack,
         pc = "load" => op = "publish",
         op = "publish" => to \in {"published", "running"},
         to \in {"published", "running"} /\ act.status = "draft" => op = "publish"
  PROVE  Inv'
<1> DEFINE r == [pc |-> pc, op |-> op, seen |-> act, to |-> to]
<1>1. act \in Act /\ h \in Procs /\ h # Worker
  BY LifecycleAssumption DEF Inv, TypeOK, Procs
<1>2. r \in Proc
  BY <1>1 DEF Proc, PC, Statuses
<1>3. /\ Become(h, r)
      /\ UNCHANGED <<act, draws, meta, jobs, lock, now>>
  BY DEF Decide
<1>4. /\ r.pc = pc /\ r.op = op /\ r.seen = act /\ r.to = to
  OBVIOUS
<1> HIDE DEF r
<1>5. pr'[h] = r
  BY <1>1, <1>2, <1>3, NewLocal
<1>6. SeenIsOld(h)'
  BY <1>1, <1>3, <1>4, <1>5, SeenStays
<1>7. ProcInv(h)'
  BY <1>1, <1>3, <1>4, <1>5, <1>6
     DEF ProcInv, Decided, DraftIsPublished, RunChecked, Scheduling, Writing
<1>8. meta' \in Meta /\ lock' \in BOOLEAN
  BY <1>3 DEF Inv, TypeOK
<1> QED
  BY <1>1, <1>2, <1>3, <1>7, <1>8, QuietStep

LEMMA UpdateReadStep ==
  ASSUME Inv, NEW h \in Handlers, UpdateRead(h)
  PROVE  Inv'
<1> DEFINE r == [pc |-> "update", op |-> "update", seen |-> act, to |-> "draft"]
<1>1. act \in Act /\ h \in Procs /\ h # Worker
  BY LifecycleAssumption DEF Inv, TypeOK, Procs
<1>2. r \in Proc
  BY <1>1 DEF Proc, PC, Statuses, OpKinds
<1>3. /\ Become(h, r)
      /\ UNCHANGED <<act, draws, meta, jobs, lock, now>>
  BY DEF UpdateRead, Decide
<1>4. r.pc = "update" /\ r.seen = act
  OBVIOUS
<1> HIDE DEF r
<1>5. pr'[h] = r
  BY <1>1, <1>2, <1>3, NewLocal
<1>6. ProcInv(h)'
  BY <1>1, <1>3, <1>4, <1>5, SeenStays, Carefree
<1>7. meta' \in Meta /\ lock' \in BOOLEAN
  BY <1>3 DEF Inv, TypeOK
<1> QED
  BY <1>1, <1>2, <1>3, <1>6, <1>7, QuietStep

LEMMA RequestStep ==
  ASSUME Inv, NEW h \in Handlers, Request(h)
  PROVE  Inv'
<1>1. /\ act \in Act /\ act.start \in Nat /\ act.end \in Nat /\ now \in Nat
      /\ Slack \in Nat /\ OnTime
  BY LifecycleAssumption DEF Inv, TypeOK, Act
<1>2. {"publish", "pause", "resume", "cancel", "visit"} \subseteq OpKinds
  BY DEF OpKinds
<1>3. CASE PublishRead(h)
  <2> DEFINE to == IF act.start <= now /\ now < act.end
                     THEN "running" ELSE "published"
  <2>1. /\ to \in {"published", "running"}
        /\ to = "running" => act.start <= now
    OBVIOUS
  <2>2. Decide(h, "publish", "load", to) /\ act.status = "draft"
    BY <1>3 DEF PublishRead
  <2> HIDE DEF to
  <2> QED
    BY <1>2, <2>1, <2>2, DecideStep
<1>4. CASE UpdateRead(h)
  BY <1>4, UpdateReadStep
<1>5. CASE PauseRead(h)
  BY <1>1, <1>2, <1>5, DecideStep DEF PauseRead, OnTime
<1>6. CASE ResumeRead(h)
  BY <1>1, <1>2, <1>6, DecideStep DEF ResumeRead, OnTime
<1>7. CASE CancelRead(h)
  BY <1>2, <1>7, DecideStep DEF CancelRead
<1>8. CASE VisitRead(h)
  <2>1. CASE /\ act.status = "published" /\ act.start <= now
             /\ Decide(h, "visit", "cas", "running")
    BY <1>2, <2>1, DecideStep
  <2>2. CASE /\ act.status \in {"running", "published"} /\ act.end <= now
             /\ Decide(h, "visit", "cas", "ended")
    <3>1. act.end <= now + Slack
      BY <1>1, <2>2
    <3> QED
      BY <1>2, <2>2, <3>1, DecideStep
  <2> QED
    BY <1>8, <2>1, <2>2 DEF VisitRead
<1> QED
  BY <1>3, <1>4, <1>5, <1>6, <1>7, <1>8 DEF Request

LEMMA UpdateTxStep ==
  ASSUME Inv, NEW h \in Handlers, UpdateTx(h)
  PROVE  Inv'
<1>1. /\ h \in Procs /\ h # Worker /\ Become(h, Idle)
      /\ UNCHANGED <<draws, meta, jobs, lock, now>>
  BY LifecycleAssumption DEF UpdateTx, Procs
<1>2. meta' \in Meta /\ lock' \in BOOLEAN
  BY <1>1 DEF Inv, TypeOK
<1>3. CASE act' = act
  BY <1>1, <1>2, <1>3, IdleStep
<1>4. CASE act' # act
  <2>1. PICK c \in Configs :
          act' = [act EXCEPT !.mode = c.mode, !.start = c.start, !.end = c.end,
                             !.version = @ + 1]
    BY <1>4 DEF UpdateTx
  <2>2. act.status = "draft"
    BY <1>4 DEF UpdateTx
  <2>3. act \in Act /\ act.version + 1 \in Nat
    BY DEF Inv, TypeOK, Act
  <2>4. c.mode \in Modes /\ c.start \in Nat /\ c.end \in Nat
    BY LifecycleAssumption
  <2>5. act' \in Act
    BY <2>1, <2>3, <2>4, RowEdited
  <2>6. act'.version = act.version + 1 /\ act'.status = "draft"
    BY <2>1, <2>2, <2>3 DEF Act
  <2>7. RowStep
    BY <2>2, <2>5, <2>6 DEF RowStep
  <2>8. DrawnOnce' /\ OnTime'
    BY <1>1, <2>2, <2>6 DEF Inv, DrawnOnce, OnTime
  <2>9. JobsMatch'
    BY <1>1, <2>2 DEF Inv, JobsMatch
  <2>10. pr'[h] = Idle
    BY <1>1, IdleLocal, NewLocal
  <2>11. ProcInv(h)'
    <3>1. pr'[h].pc = "idle" /\ pr'[h].seen = NoAct
      BY <2>10, IdleLocal
    <3>2. SeenIsOld(h)'
      BY <1>1, <2>5, <2>6, <3>1, SeenOlder
    <3> QED
      BY <1>1, <3>1, <3>2, Carefree
  <2>12. draws' \in Nat /\ jobs' \in [{"start", "end"} -> Nat \cup {NoTime}]
    BY <1>1 DEF Inv, TypeOK
  <2> QED
    BY <1>1, <1>2, <2>7, <2>8, <2>9, <2>11, <2>12, IdleLocal, StepOf
<1> QED
  BY <1>3, <1>4
-----------------------------------------------------------------------------
(* Changing the status, and what follows.                                  *)

\* A process that has decided and whose version is still the row's has seen
\* the row as it is.
LEMMA SawTheRow ==
  ASSUME Inv, NEW p \in Procs, pr[p].seen \in Act, CASWins(pr[p].seen)
  PROVE  pr[p].seen = act
BY ActFields DEF Inv, ProcInv, SeenIsOld, CASWins

LEMMA CASWonStep ==
  ASSUME Inv, NEW p \in Procs, CASWon(p)
  PROVE  Inv'
<1> DEFINE to == pr[p].to
           pc == IF pr[p].op = "publish" THEN "schedstart" ELSE "meta"
           r == At(p, pc)
<1>1. /\ pr[p].pc = "cas" /\ CASWins(pr[p].seen)
      /\ act' = Moved(to) /\ Become(p, r)
      /\ UNCHANGED <<draws, meta, jobs, lock, now>>
  BY DEF CASWon, Goto
<1>2. /\ pr[p].seen \in Act /\ pr[p].seen.status # "drawn"
      /\ to \in {"published", "running", "paused", "ended", "cancelled"}
      /\ to \in {"running", "paused"} => pr[p].seen.start <= now
      /\ to = "ended" => pr[p].seen.end <= now + Slack
  BY <1>1 DEF Inv, ProcInv, Decided
<1>3. pr[p].seen = act
  BY <1>1, <1>2, SawTheRow
<1>4. pc \in PC /\ pc \in {"schedstart", "meta"}
  BY DEF PC
<1>5. to \in Statuses \ {"draft", "drawn"}
  BY <1>2 DEF Statuses
<1> HIDE DEF pc
<1>6. /\ r \in Proc /\ r.pc = pc /\ r.op = pr[p].op /\ r.seen = pr[p].seen
      /\ r.to = to
  BY <1>4, GotoLocal
<1> HIDE DEF r, to
<1>7. pr'[p] = r
  BY <1>1, <1>6, NewLocal
<1>8. /\ act' \in Act /\ act'.status = to /\ act'.version = act.version + 1
      /\ act'.start = act.start /\ act'.end = act.end
  BY <1>1, <1>5, MovedRow DEF Inv, TypeOK
<1>9. RowStep
  BY <1>5, <1>8 DEF RowStep
<1>10. SeenIsOld(p)'
  BY <1>6, <1>7, <1>8, SeenOlder
<1>11. ProcInv(p)'
  BY <1>2, <1>3, <1>4, <1>5, <1>6, <1>7, <1>8, <1>10
     DEF ProcInv, Decided, DraftIsPublished, RunChecked, Scheduling, Writing
<1>12. p = Worker => Removing'
  BY <1>1, <1>6, <1>7 DEF Inv, Removing
<1> QED
  BY <1>1, <1>2, <1>3, <1>5, <1>6, <1>11, <1>12, MoveStep

\* A step of p from one point to another that changes nothing else that
\* matters.
LEMMA GotoStep ==
  ASSUME Inv, NEW p \in Procs, pr[p].pc # "idle",
         NEW pc \in {"meta", "close", "reread", "insert", "drawn", "unlock",
                     "schedend"},
         Goto(p, pc), UNCHANGED <<act, draws, jobs, now>>,
         meta' \in Meta, lock' \in BOOLEAN,
         pc = "meta" => pr[p].pc = "cas",
         pc = "close" => pr[p].pc = "lock",
         pc = "schedend" => pr[p].pc = "schedstart"
  PROVE  Inv'
<1>1. pc \in PC
  BY DEF PC
<1>2. /\ At(p, pc) \in Proc /\ At(p, pc).pc = pc /\ At(p, pc).op = pr[p].op
      /\ At(p, pc).seen = pr[p].seen /\ At(p, pc).to = pr[p].to
  BY <1>1, GotoLocal
<1>3. Become(p, At(p, pc))
  BY DEF Goto
<1>4. pr'[p] = At(p, pc)
  BY <1>2, <1>3, NewLocal
<1>5. SeenIsOld(p)'
  BY <1>2, <1>4, SeenStays
<1>6. Decided(p) /\ RunChecked(p) /\ Scheduling(p)
  BY DEF Inv, ProcInv
<1>7. Writing(p)'
  BY <1>2, <1>4, <1>6 DEF Writing, Decided, Statuses
<1>8. RunChecked(p)' /\ Scheduling(p)'
  BY <1>2, <1>4, <1>6 DEF RunChecked, Scheduling
<1>9. Decided(p)' /\ DraftIsPublished(p)'
  BY <1>2, <1>4 DEF Decided, DraftIsPublished
<1>10. p = Worker => Removing'
  BY <1>2, <1>4 DEF Inv, Removing
<1> QED
  BY <1>2, <1>3, <1>5, <1>7, <1>8, <1>9, <1>10, QuietStep DEF ProcInv

LEMMA CASLostStep ==
  ASSUME Inv, NEW p \in Procs, CASLost(p)
  PROVE  Inv'
<1>1. meta' \in Meta /\ lock' \in BOOLEAN
  BY DEF CASLost, Inv, TypeOK
<1>2. CASE p = Worker
  BY <1>1, <1>2, GotoStep DEF CASLost
<1>3. CASE p # Worker
  BY <1>1, <1>3, IdleStep DEF CASLost
<1> QED
  BY <1>2, <1>3

\* A process goes on to another part of its job.
LEMMA JobStep ==
  ASSUME Inv, NEW p \in Procs, NEW pc \in {"run", "remove"},
         NEW op \in {"start", "end"},
         Become(p, InJob(pc, op)), UNCHANGED <<act, draws, jobs, now>>,
         meta' \in Meta, lock' \in BOOLEAN
  PROVE  Inv'
<1>1. pc \in PC
  BY DEF PC
<1>2. /\ InJob(pc, op) \in Proc /\ InJob(pc, op).pc = pc
      /\ InJob(pc, op).op = op /\ InJob(pc, op).seen = NoAct
  BY <1>1, WorkerLocal
<1>3. pr'[p] = InJob(pc, op)
  BY <1>2, NewLocal
<1>4. SeenIsOld(p)'
  BY <1>2, <1>3, SeenStays
<1>5. ProcInv(p)'
  BY <1>2, <1>3, <1>4, Carefree
<1>6. p = Worker => Removing'
  BY <1>2, <1>3 DEF Removing
<1> QED
  BY <1>2, <1>5, <1>6, QuietStep

LEMMA SetStatusStep ==
  ASSUME Inv, NEW p \in Procs, SetStatus(p)
  PROVE  Inv'
<1>1. /\ pr[p].pc = "meta"
      /\ UNCHANGED <<act, draws, jobs, lock, now>>
  BY DEF SetStatus
<1>2. pr[p].to \in Statuses \ {"draft"} /\ meta \in Meta /\ lock' \in BOOLEAN
  BY <1>1 DEF Inv, ProcInv, Writing, TypeOK
<1>3. meta' \in Meta
  BY <1>2 DEF SetStatus, Meta
<1>4. CASE Become(p, InJob("run", "end"))
  BY <1>1, <1>2, <1>3, <1>4, JobStep
<1>5. CASE Finish(p)
  BY <1>1, <1>2, <1>3, <1>5, FinishStep
<1> QED
  BY <1>4, <1>5 DEF SetStatus

LEMMA PublishLoadStep ==
  ASSUME Inv, NEW h \in Handlers, PublishLoad(h)
  PROVE  Inv'
<1>1. /\ h \in Procs /\ h # Worker /\ pr[h].pc = "load"
      /\ UNCHANGED <<act, draws, jobs, lock, now>>
  BY LifecycleAssumption DEF PublishLoad, Procs
<1>2. /\ pr[h].seen \in Act /\ meta \in Meta /\ lock' \in BOOLEAN
      /\ pr[h].to \in {"published", "running"}
  BY <1>1 DEF Inv, ProcInv, Decided, DraftIsPublished, TypeOK
<1>3. CASE meta' = meta /\ Become(h, Idle)
  BY <1>1, <1>2, <1>3, IdleStep
<1>4. CASE /\ meta' = [status |-> pr[h].to, start |-> pr[h].seen.start,
                       end |-> pr[h].seen.end]
           /\ Goto(h, "cas")
  <2>1. meta' \in Meta
    BY <1>2, <1>4, ActFields DEF Meta, Statuses
  <2>2. "cas" \in PC
    BY DEF PC
  <2>3. /\ At(h, "cas") \in Proc /\ At(h, "cas").pc = "cas"
        /\ At(h, "cas").op = pr[h].op /\ At(h, "cas").to = pr[h].to
        /\ At(h, "cas").seen = pr[h].seen
    BY <1>1, <2>2, GotoLocal
  <2>4. Become(h, At(h, "cas"))
    BY <1>4 DEF Goto
  <2>5. pr'[h] = At(h, "cas")
    BY <1>1, <2>3, <2>4, NewLocal
  <2>6. SeenIsOld(h)'
    BY <1>1, <2>3, <2>5, SeenStays
  <2>7. Decided(h) /\ DraftIsPublished(h)
    BY <1>1 DEF Inv, ProcInv
  <2>8. Decided(h)' /\ DraftIsPublished(h)'
    BY <1>1, <2>3, <2>5, <2>7 DEF Decided, DraftIsPublished
  <2>9. RunChecked(h)' /\ Scheduling(h)' /\ Writing(h)'
    BY <2>3, <2>5 DEF RunChecked, Scheduling, Writing
  <2> QED
    BY <1>1, <1>2, <2>1, <2>3, <2>4, <2>6, <2>8, <2>9, QuietStep DEF ProcInv
<1> QED
  BY <1>3, <1>4 DEF PublishLoad

\* A step that changes the delay queue and not the row.
LEMMA QueueStep ==
  ASSUME Inv, NEW p \in Procs, NEW r \in Proc, Become(p, r),
         UNCHANGED <<act, draws, meta, lock, now>>,
         jobs' \in [{"start", "end"} -> Nat \cup {NoTime}], JobsMatch',
         ProcInv(p)', p = Worker => Removing'
  PROVE  Inv'
<1>1. DrawnOnce' /\ OnTime' /\ RowStep
  BY DEF Inv, DrawnOnce, OnTime, RowStep
<1>2. draws' \in Nat /\ meta' \in Meta /\ lock' \in BOOLEAN
  BY DEF Inv, TypeOK
<1> QED
  BY <1>1, <1>2, StepOf

LEMMA ScheduleStep ==
  ASSUME Inv, NEW h \in Handlers, ScheduleStart(h) \/ ScheduleEnd(h)
  PROVE  Inv'
<1>1. /\ h \in Procs /\ h # Worker /\ pr[h].pc \in {"schedstart", "schedend"}
      /\ UNCHANGED <<act, draws, meta, lock, now>>
  BY LifecycleAssumption DEF ScheduleStart, ScheduleEnd, Procs
<1>2. /\ pr[h].seen \in Act /\ act.status # "draft"
      /\ pr[h].seen.start = act.start /\ pr[h].seen.end = act.end
  BY <1>1 DEF Inv, ProcInv, Scheduling
<1>3. jobs \in [{"start", "end"} -> Nat \cup {NoTime}] /\ JobsMatch
  BY DEF Inv, TypeOK
<1>4. \/ jobs' = jobs
      \/ jobs' = [jobs EXCEPT !["start"] = act.start]
      \/ jobs' = [jobs EXCEPT !["end"] = act.end]
  BY <1>2 DEF ScheduleStart, ScheduleEnd
<1>5. act.start \in Nat /\ act.end \in Nat
  BY ActFields DEF Inv, TypeOK
<1>6. jobs' \in [{"start", "end"} -> Nat \cup {NoTime}]
  BY <1>3, <1>4, <1>5
<1>7. JobsMatch'
  BY <1>1, <1>2, <1>3, <1>4, <1>5 DEF JobsMatch
<1>8. CASE Become(h, Idle)
  <2>1. pr'[h].pc = "idle" /\ pr'[h].seen = NoAct
    BY <1>1, <1>8, IdleLocal, NewLocal
  <2>2. ProcInv(h)'
    BY <1>1, <2>1, SeenStays, Carefree
  <2> QED
    BY <1>1, <1>6, <1>7, <1>8, <2>2, IdleLocal, QueueStep
<1>9. CASE pr[h].pc = "schedstart" /\ Goto(h, "schedend")
  <2>1. "schedend" \in PC
    BY DEF PC
  <2>2. /\ At(h, "schedend") \in Proc /\ At(h, "schedend").pc = "schedend"
        /\ At(h, "schedend").seen = pr[h].seen
    BY <1>1, <2>1, GotoLocal
  <2>3. Become(h, At(h, "schedend"))
    BY <1>9 DEF Goto
  <2>4. pr'[h] = At(h, "schedend")
    BY <1>1, <2>2, <2>3, NewLocal
  <2>5. SeenIsOld(h)'
    BY <1>1, <2>2, <2>4, SeenStays
  <2>6. ProcInv(h)'
    BY <1>1, <1>2, <2>2, <2>4, <2>5
       DEF ProcInv, Decided, DraftIsPublished, RunChecked, Scheduling, Writing
  <2> QED
    BY <1>1, <1>6, <1>7, <2>2, <2>3, <2>6, QueueStep
<1> QED
  BY <1>8, <1>9 DEF ScheduleStart, ScheduleEnd
-----------------------------------------------------------------------------
(* RunScheduledDraw.                                                       *)

LEMMA RunReadStep ==
  ASSUME Inv, NEW p \in Procs, RunRead(p)
  PROVE  Inv'
<1> DEFINE op == IF p = Worker THEN "end" ELSE "force"
           r == [pc |-> "lock", op |-> op, seen |-> act, to |-> "ended"]
<1>1. /\ act \in Act /\ act.status # "drawn" /\ act.end <= now + Slack
      /\ Become(p, r)
      /\ UNCHANGED <<act, draws, meta, jobs, lock, now>>
  BY DEF RunRead, RunAllowed, Inv, TypeOK
<1>2. op \in OpKinds \cup {"start", "end"} /\ (p = Worker => op = "end")
  BY DEF OpKinds
<1> HIDE DEF op
<1>3. r \in Proc
  BY <1>1, <1>2 DEF Proc, PC, Statuses
<1>4. r.pc = "lock" /\ r.op = op /\ r.seen = act
  OBVIOUS
<1> HIDE DEF r
<1>5. pr'[p] = r
  BY <1>1, <1>3, NewLocal
<1>6. SeenIsOld(p)'
  BY <1>1, <1>4, <1>5, SeenStays
<1>7. ProcInv(p)'
  BY <1>1, <1>4, <1>5, <1>6
     DEF ProcInv, Decided, DraftIsPublished, RunChecked, Scheduling, Writing
<1>8. p = Worker => Removing'
  BY <1>2, <1>4, <1>5 DEF Removing
<1>9. meta' \in Meta /\ lock' \in BOOLEAN
  BY <1>1 DEF Inv, TypeOK
<1> QED
  BY <1>1, <1>3, <1>7, <1>8, <1>9, QuietStep

\* The draw closes the activity, or goes on without having done so.
LEMMA RunCloseStep ==
  ASSUME Inv, NEW p \in Procs, RunClose(p)
  PROVE  Inv'
<1>1. /\ pr[p].pc = "close" /\ Goto(p, "reread")
      /\ UNCHANGED <<draws, meta, jobs, lock, now>>
  BY DEF RunClose
<1>2. /\ pr[p].seen \in Act /\ pr[p].seen.status # "drawn"
      /\ pr[p].seen.end <= now + Slack
  BY <1>1 DEF Inv, ProcInv, RunChecked
<1>3. meta' \in Meta /\ lock' \in BOOLEAN
  BY <1>1 DEF Inv, TypeOK
<1>4. CASE act' = act
  BY <1>1, <1>3, <1>4, GotoStep
<1>5. CASE CASWins(pr[p].seen) /\ act' = Moved("ended")
  <2>1. pr[p].seen = act
    BY <1>2, <1>5, SawTheRow
  <2>2. "reread" \in PC /\ "ended" \in Statuses
    BY DEF PC, Statuses
  <2>3. /\ At(p, "reread") \in Proc /\ At(p, "reread").pc = "reread"
        /\ At(p, "reread").op = pr[p].op /\ At(p, "reread").seen = pr[p].seen
    BY <2>2, GotoLocal
  <2>4. Become(p, At(p, "reread"))
    BY <1>1 DEF Goto
  <2>5. pr'[p] = At(p, "reread")
    BY <2>3, <2>4, NewLocal
  <2>6. act' \in Act /\ act'.version = act.version + 1
    BY <1>5, <2>2, MovedRow DEF Inv, TypeOK
  <2>7. SeenIsOld(p)'
    BY <2>3, <2>5, <2>6, SeenOlder
  <2>8. ProcInv(p)'
    BY <2>3, <2>5, <2>7, Carefree
  <2>9. p = Worker => Removing'
    BY <1>1, <2>3, <2>5 DEF Inv, Removing
  <2> QED
    BY <1>1, <1>2, <1>5, <2>1, <2>2, <2>3, <2>4, <2>8, <2>9, MoveStep
<1> QED
  BY <1>4, <1>5 DEF RunClose

LEMMA RunRereadStep ==
  ASSUME Inv, NEW p \in Procs, RunReread(p)
  PROVE  Inv'
<1>1. /\ pr[p].pc = "reread" /\ act \in Act
      /\ UNCHANGED <<act, draws, meta, jobs, lock, now>>
  BY DEF RunReread, Inv, TypeOK
<1>2. PICK a \in {act, pr[p].seen} :
        Become(p, [pr[p] EXCEPT !.pc = "insert", !.seen = a])
  BY DEF RunReread
<1> DEFINE r == [pr[p] EXCEPT !.pc = "insert", !.seen = a]
<1>3. a \in Act \cup {NoAct} /\ "insert" \in PC
  BY <1>1, ProcFields DEF PC
<1>4. r \in Proc /\ r.pc = "insert" /\ r.op = pr[p].op /\ r.seen = a
  BY <1>3, ProcFields DEF Proc
<1>5. Become(p, r)
  BY <1>2
<1> HIDE DEF r
<1>6. pr'[p] = r
  BY <1>4, <1>5, NewLocal
<1>7. SeenIsOld(p)'
  BY <1>1, <1>2, <1>4, <1>6, SeenStays
<1>8. ProcInv(p)'
  BY <1>4, <1>6, <1>7, Carefree
<1>9. p = Worker => Removing'
  BY <1>1, <1>4, <1>6 DEF Inv, Removing
<1>10. meta' \in Meta /\ lock' \in BOOLEAN
  BY <1>1 DEF Inv, TypeOK
<1> QED
  BY <1>1, <1>4, <1>5, <1>8, <1>9, <1>10, QuietStep

\* The draw commits: the row was not drawn, so nothing had been drawn.
LEMMA RunInsertStep ==
  ASSUME Inv, NEW p \in Procs, RunInsert(p)
  PROVE  Inv'
<1>1. /\ pr[p].pc = "insert" /\ act' = Moved("drawn") /\ draws' = draws + 1
      /\ Goto(p, "drawn") /\ UNCHANGED <<meta, jobs, lock, now>>
      /\ act.status \in {"ended", "running", "published"}
  BY DEF RunInsert, InsertWins
<1>2. "drawn" \in PC /\ "drawn" \in Statuses
  BY DEF PC, Statuses
<1>3. /\ act' \in Act /\ act'.status = "drawn" /\ act'.version = act.version + 1
      /\ act'.start = act.start /\ act'.end = act.end
  BY <1>1, <1>2, MovedRow DEF Inv, TypeOK
<1>4. /\ At(p, "drawn") \in Proc /\ At(p, "drawn").pc = "drawn"
      /\ At(p, "drawn").op = pr[p].op /\ At(p, "drawn").seen = pr[p].seen
  BY <1>2, GotoLocal
<1>5. Become(p, At(p, "drawn"))
  BY <1>1 DEF Goto
<1>6. pr'[p] = At(p, "drawn")
  BY <1>4, <1>5, NewLocal
<1>7. SeenIsOld(p)'
  BY <1>3, <1>4, <1>6, SeenOlder
<1>8. ProcInv(p)'
  BY <1>4, <1>6, <1>7, Carefree
<1>9. p = Worker => Removing'
  BY <1>1, <1>4, <1>6 DEF Inv, Removing
<1>10. draws = 0 /\ DrawnOnce'
  BY <1>1, <1>3 DEF Inv, DrawnOnce
<1>11. OnTime' /\ JobsMatch'
  BY <1>1, <1>3 DEF Inv, OnTime, JobsMatch
<1>12. RowStep
  BY <1>3 DEF RowStep
<1>13. /\ draws' \in Nat /\ meta' \in Meta /\ lock' \in BOOLEAN
       /\ jobs' \in [{"start", "end"} -> Nat \cup {NoTime}]
  BY <1>1, <1>10 DEF Inv, TypeOK
<1> QED
  BY <1>1, <1>4, <1>5, <1>8, <1>9, <1>10, <1>11, <1>12, <1>13, StepOf

LEMMA DrawStep ==
  ASSUME Inv, NEW p \in Procs, RunStep(p)
  PROVE  Inv'
<1>1. meta \in Meta /\ lock \in BOOLEAN
  BY DEF Inv, TypeOK
<1>2. CASE RunRefused(p) \/ RunBusy(p)
  BY <1>1, <1>2, FinishStep DEF RunRefused, RunBusy
<1>3. CASE RunLock(p)
  <2> DEFINE pc == IF pr[p].seen.status # "ended" THEN "close" ELSE "insert"
  <2>1. /\ pr[p].pc = "lock" /\ Goto(p, pc) /\ lock' = TRUE
        /\ UNCHANGED <<act, draws, meta, jobs, now>>
    BY <1>3 DEF RunLock
  <2>2. pc \in {"close", "insert"}
    OBVIOUS
  <2> HIDE DEF pc
  <2> QED
    BY <1>1, <2>1, <2>2, GotoStep
<1>4. CASE RunInsertFails(p)
  BY <1>1, <1>4, GotoStep DEF RunInsertFails
<1>5. CASE RunSetStatus(p)
  <2>1. meta' \in Meta
    BY <1>1, <1>5 DEF RunSetStatus, Meta, Statuses
  <2> QED
    BY <1>1, <1>5, <2>1, GotoStep DEF RunSetStatus
<1>6. CASE RunUnlock(p)
  <2>1. lock' \in BOOLEAN
    BY <1>1, <1>6 DEF RunUnlock
  <2> QED
    BY <1>1, <1>6, <2>1, FinishStep DEF RunUnlock
<1> QED
  BY <1>2, <1>3, <1>4, <1>5, <1>6, RunReadStep, RunCloseStep, RunRereadStep,
     RunInsertStep DEF RunStep
-----------------------------------------------------------------------------
(* The worker and the environment.                                         *)

\* The worker takes a job that makes it change the status.
LEMMA TakeStep ==
  ASSUME Inv, NEW op \in {"start", "end"}, NEW to \in {"running", "ended"},
         Become(Worker, [pc |-> "cas", op |-> op, seen |-> act, to |-> to]),
         UNCHANGED <<act, draws, meta, jobs, lock, now>>,
         act.status \in {"published", "running", "paused"},
         to = "running" => act.start <= now,
         to = "ended" => act.end <= now + Slack
  PROVE  Inv'
<1> DEFINE r == [pc |-> "cas", op |-> op, seen |-> act, to |-> to]
<1>1. act \in Act /\ Worker \in Procs /\ meta \in Meta /\ lock \in BOOLEAN
  BY DEF Inv, TypeOK, Procs
<1>2. r \in Proc
  BY <1>1 DEF Proc, PC, Statuses
<1>3. r.pc = "cas" /\ r.op = op /\ r.seen = act /\ r.to = to
  OBVIOUS
<1>4. Become(Worker, r)
  OBVIOUS
<1> HIDE DEF r
<1>5. pr'[Worker] = r
  BY <1>1, <1>2, <1>4, NewLocal
<1>6. SeenIsOld(Worker)'
  BY <1>1, <1>3, <1>5, SeenStays
<1>7. ProcInv(Worker)'
  BY <1>1, <1>3, <1>5, <1>6
     DEF ProcInv, Decided, DraftIsPublished, RunChecked, Scheduling, Writing
<1>8. Removing'
  BY <1>3, <1>5 DEF Removing
<1> QED
  BY <1>1, <1>2, <1>4, <1>7, <1>8, QuietStep

LEMMA TakeJobStep ==
  ASSUME Inv, TakeStart \/ TakeEnd
  PROVE  Inv'
<1>1. meta \in Meta /\ lock \in BOOLEAN /\ Worker \in Procs
  BY DEF Inv, TypeOK, Procs
<1>2. CASE TakeStart
  <2>1. CASE act.status = "published" /\ act.start <= now
    BY <1>2, <2>1, TakeStep DEF TakeStart
  <2>2. CASE ~(act.status = "published" /\ act.start <= now)
    BY <1>1, <1>2, <2>2, JobStep DEF TakeStart
  <2> QED
    BY <2>1, <2>2
<1>3. CASE TakeEnd
  <2>1. CASE act.status \in {"running", "published", "paused"}
    BY <1>3, <2>1, TakeStep DEF TakeEnd
  <2>2. CASE act.status \notin {"running", "published", "paused"}
    <3> DEFINE pc == IF act.mode = "scheduled" THEN "run" ELSE "remove"
    <3>1. Become(Worker, InJob(pc, "end"))
      BY <1>3, <2>2 DEF TakeEnd
    <3>2. pc \in {"run", "remove"}
      OBVIOUS
    <3>3. UNCHANGED <<act, draws, meta, jobs, lock, now>>
      BY <1>3 DEF TakeEnd
    <3> HIDE DEF pc
    <3> QED
      BY <1>1, <3>1, <3>2, <3>3, JobStep
  <2> QED
    BY <2>1, <2>2
<1> QED
  BY <1>2, <1>3

LEMMA RemoveJobStep ==
  ASSUME Inv, RemoveJob
  PROVE  Inv'
<1>1. /\ Worker \in Procs /\ pr[Worker].op \in {"start", "end"}
      /\ Become(Worker, Idle) /\ UNCHANGED <<act, draws, meta, lock, now>>
      /\ jobs \in [{"start", "end"} -> Nat \cup {NoTime}] /\ JobsMatch
  BY DEF RemoveJob, Inv, Removing, TypeOK, Procs
<1>2. jobs' \in [{"start", "end"} -> Nat \cup {NoTime}]
  BY <1>1 DEF RemoveJob
<1>3. JobsMatch'
  BY <1>1 DEF RemoveJob, JobsMatch
<1>4. pr'[Worker] = Idle
  BY <1>1, IdleLocal, NewLocal
<1>5. ProcInv(Worker)'
  BY <1>1, <1>4, IdleLocal, SeenStays, Carefree
<1>6. Removing'
  BY <1>4, IdleLocal DEF Removing
<1> QED
  BY <1>1, <1>2, <1>3, <1>5, <1>6, IdleLocal, QueueStep

\* A step that leaves every process, the row and the queue alone.
LEMMA ClockStep ==
  ASSUME Inv, UNCHANGED <<act, draws, meta, jobs, pr>>, lock' \in BOOLEAN,
         now' \in 0 .. MaxTime, now <= now'
  PROVE  Inv'
<1>1. TypeOK'
  BY DEF Inv, TypeOK
<1>2. DrawnOnce' /\ JobsMatch' /\ Removing'
  BY DEF Inv, DrawnOnce, JobsMatch, Removing
<1>3. act.start \in Nat /\ act.end \in Nat /\ now \in Nat /\ now' \in Nat
      /\ Slack \in Nat
  BY ActFields, LifecycleAssumption DEF Inv, TypeOK
<1>4. OnTime'
  BY <1>3 DEF Inv, OnTime
<1>5. ASSUME NEW q \in Procs PROVE ProcInv(q)'
  BY <1>3, OthersKeep DEF Inv, RowStep
<1> QED
  BY <1>1, <1>2, <1>4, <1>5 DEF Inv

LEMMA EnvironmentStep ==
  ASSUME Inv, (\E p \in Procs : Crash(p)) \/ Expire \/ Tick
  PROVE  Inv'
<1>1. meta \in Meta /\ lock \in BOOLEAN /\ now \in 0 .. MaxTime /\ MaxTime \in Nat
  BY LifecycleAssumption DEF Inv, TypeOK
<1>2. CASE \E p \in Procs : Crash(p)
  BY <1>1, <1>2, IdleStep DEF Crash
<1>3. CASE Expire
  <2>1. lock' \in BOOLEAN /\ UNCHANGED <<act, draws, meta, jobs, now, pr>>
    BY <1>3 DEF Expire
  <2>2. now' \in 0 .. MaxTime /\ now <= now'
    BY <1>1, <2>1
  <2> QED
    BY <2>1, <2>2, ClockStep
<1>4. CASE Tick
  <2>1. now' \in 0 .. MaxTime /\ now <= now'
    BY <1>1, <1>4 DEF Tick
  <2> QED
    BY <1>1, <1>4, <2>1, ClockStep DEF Tick
<1> QED
  BY <1>2, <1>3, <1>4
-----------------------------------------------------------------------------
(* The theorems.                                                           *)

LEMMA InitInv == Init => Inv
<1> SUFFICES ASSUME Init PROVE Inv
  OBVIOUS
<1>1. PICK c \in Configs, r \in Rosters :
        act = [mode |-> c.mode, start |-> c.start, end |-> c.end,
               status |-> "draft", version |-> 0, roster |-> r]
  BY DEF Init
<1>2. act \in Act /\ act.status = "draft"
  BY <1>1, LifecycleAssumption DEF Act, Statuses
<1>3. \A p \in Procs : pr[p] = Idle
  BY DEF Init
<1>4. TypeOK
  <2>1. meta \in Meta
    BY DEF Init, Meta, NoMeta
  <2>2. pr \in [Procs -> Proc]
    BY IdleLocal DEF Init
  <2>3. /\ jobs \in [{"start", "end"} -> Nat \cup {NoTime}]
        /\ draws \in Nat /\ lock \in BOOLEAN
    BY DEF Init
  <2>4. now \in 0 .. MaxTime
    BY LifecycleAssumption DEF Init
  <2> QED
    BY <1>2, <2>1, <2>2, <2>3, <2>4 DEF TypeOK
<1>5. DrawnOnce /\ OnTime /\ JobsMatch
  BY <1>2 DEF Init, DrawnOnce, OnTime, JobsMatch
<1>6. ASSUME NEW p \in Procs PROVE ProcInv(p)
  BY <1>3, IdleLocal
     DEF ProcInv, SeenIsOld, Decided, DraftIsPublished, RunChecked, Scheduling,
         Writing
<1>7. Removing
  BY <1>3, IdleLocal DEF Removing, Procs
<1> QED
  BY <1>4, <1>5, <1>6, <1>7 DEF Inv

LEMMA NextInv == Inv /\ [Next]_vars => Inv'
<1> SUFFICES ASSUME Inv, [Next]_vars PROVE Inv'
  OBVIOUS
<1>1. CASE UNCHANGED vars
  BY <1>1, ClockStep DEF vars, Inv, TypeOK
<1>2. CASE \E h \in Handlers : Request(h)
  BY <1>2, RequestStep
<1>3. CASE \E h \in Handlers : RunRead(h)
  BY <1>3, RunReadStep DEF Procs
<1>4. CASE \E h \in Handlers : HandlerStep(h)
  <2>1. PICK h \in Handlers : HandlerStep(h)
    BY <1>4
  <2>2. h \in Procs
    BY DEF Procs
  <2> QED
    BY <2>1, <2>2, UpdateTxStep, PublishLoadStep, CASWonStep, CASLostStep,
       SetStatusStep, ScheduleStep, DrawStep DEF HandlerStep
<1>5. CASE WorkerStep
  <2>1. Worker \in Procs
    BY DEF Procs
  <2> QED
    BY <1>5, <2>1, TakeJobStep, CASWonStep, CASLostStep, SetStatusStep, DrawStep,
       RemoveJobStep DEF WorkerStep
<1>6. CASE (\E p \in Procs : Crash(p)) \/ Expire \/ Tick
  BY <1>6, EnvironmentStep
<1> QED
  BY <1>1, <1>2, <1>3, <1>4, <1>5, <1>6 DEF Next

LEMMA Inductive == Spec => []Inv
BY InitInv, NextInv, PTL DEF Spec

\* Every variable has its type; in particular the meta hash never says draft.
THEOREM LifecycleTypes == Spec => []TypeOK
BY Inductive, PTL DEF Inv

\* RunScheduledDraw commits at most once, and drawn is final, whoever holds
\* the lock, whoever crashes, and however many processes draw at once.
THEOREM OneDraw == Spec => []DrawnOnce
BY Inductive, PTL DEF Inv

\* No status is ahead of the clock, though a process decides on a row that
\* may have changed before it acts.
THEOREM StatusOnTime == Spec => []OnTime
BY Inductive, PTL DEF Inv

\* The delay queue holds no times but those of the published activity.
THEOREM QueueMatches == Spec => []JobsMatch
BY Inductive, PTL DEF Inv

\* The only steps that change the row.
LEMMA RowChanges ==
  ASSUME Next, act' # act
  PROVE  \/ \E h \in Handlers : UpdateTx(h)
         \/ \E p \in Procs : CASWon(p) \/ RunClose(p) \/ RunInsert(p)
<1>1. \A h \in Handlers : ~Request(h)
  BY DEF Request, PublishRead, UpdateRead, PauseRead, ResumeRead, CancelRead,
         VisitRead, Decide
<1>2. \A p \in Procs : RunStep(p) => RunClose(p) \/ RunInsert(p)
  BY DEF RunStep, RunRead, RunRefused, RunLock, RunBusy, RunReread,
         RunInsertFails, RunSetStatus, RunUnlock
<1>3. \A p \in Procs : ~CASLost(p) /\ ~SetStatus(p) /\ ~RunRead(p) /\ ~Crash(p)
  BY DEF CASLost, SetStatus, RunRead, Crash
<1>4. \A h \in Handlers : HandlerStep(h) =>
        UpdateTx(h) \/ CASWon(h) \/ RunClose(h) \/ RunInsert(h)
  BY <1>2, <1>3 DEF HandlerStep, PublishLoad, ScheduleStart, ScheduleEnd, Procs
<1>5. WorkerStep => CASWon(Worker) \/ RunClose(Worker) \/ RunInsert(Worker)
  BY <1>2, <1>3 DEF WorkerStep, TakeStart, TakeEnd, RemoveJob, Procs
<1>6. ~Expire /\ ~Tick
  BY DEF Expire, Tick
<1> QED
  BY <1>1, <1>3, <1>4, <1>5, <1>6 DEF Next, Procs

LEMMA FrozenStep ==
  ASSUME Inv, [Next]_vars
  PROVE  /\ act.status # "draft" =>
              act'.status # "draft" /\ Config(act') = Config(act)
         /\ act.status = "draft" /\ act'.status \in {"published", "running"} =>
              \E h \in Handlers : pr[h].op = "publish" /\ pr[h].seen = act
<1>1. act \in Act
  BY DEF Inv, TypeOK
<1>2. CASE act' = act
  BY <1>2
<1>3. CASE \E h \in Handlers : UpdateTx(h) /\ act' # act
  <2>1. act.status = "draft"
    BY <1>3 DEF UpdateTx
  <2>2. act'.status = "draft"
    BY <1>1, <1>3, <2>1 DEF UpdateTx, Act
  <2> QED
    BY <2>1, <2>2
<1>4. ASSUME NEW to \in Statuses \ {"draft"}, act' = Moved(to)
      PROVE  act'.status = to /\ Config(act') = Config(act)
  BY <1>1, <1>4, MovedRow DEF Config
<1>5. CASE \E p \in Procs : CASWon(p)
  <2>1. PICK p \in Procs : CASWon(p)
    BY <1>5
  <2>2. /\ pr[p].pc = "cas" /\ CASWins(pr[p].seen) /\ act' = Moved(pr[p].to)
    BY <2>1 DEF CASWon
  <2>3. /\ pr[p].seen \in Act
        /\ pr[p].to \in {"published", "running", "paused", "ended", "cancelled"}
    BY <2>2 DEF Inv, ProcInv, Decided
  <2>4. pr[p].to \in Statuses \ {"draft"}
    BY <2>3 DEF Statuses
  <2>5. act'.status = pr[p].to /\ Config(act') = Config(act)
    BY <1>4, <2>2, <2>4
  <2>6. pr[p].seen = act
    BY <2>2, <2>3, SawTheRow
  <2>7. DraftIsPublished(p)
    BY DEF Inv, ProcInv
  <2> QED
    BY <2>2, <2>4, <2>5, <2>6, <2>7 DEF DraftIsPublished
<1>6. CASE \E p \in Procs : RunClose(p) \/ RunInsert(p)
  <2>1. act' = act \/ act' = Moved("ended") \/ act' = Moved("drawn")
    BY <1>6 DEF RunClose, RunInsert
  <2>2. {"ended", "drawn"} \subseteq Statuses \ {"draft"}
    BY DEF Statuses
  <2>3. CASE act' = Moved("ended")
    BY <1>4, <2>2, <2>3
  <2>4. CASE act' = Moved("drawn")
    BY <1>4, <2>2, <2>4
  <2> QED
    BY <1>2, <2>1, <2>3, <2>4
<1>7. UNCHANGED vars => act' = act
  BY DEF vars
<1> QED
  BY <1>2, <1>3, <1>5, <1>6, <1>7, RowChanges

\* What is published is what its publisher has validated, and no later edit
\* changes it, however the two are interleaved.
THEOREM PublishedStays == Spec => FrozenByPublish
<1>1. Inv /\ [Next]_vars =>
        [/\ act.status # "draft" =>
              act'.status # "draft" /\ Config(act') = Config(act)
         /\ act.status = "draft" /\ act'.status \in {"published", "running"} =>
              \E h \in Handlers : pr[h].op = "publish" /\ pr[h].seen = act]_vars
  BY FrozenStep
<1> QED
  BY <1>1, Inductive, PTL DEF Spec, FrozenByPublish
=============================================================================
