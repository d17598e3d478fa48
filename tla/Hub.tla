-------------------------------- MODULE Hub --------------------------------
(***************************************************************************)
(* The walk-in lottery of the gateway (src/internal/lottery): a roster in  *)
(* memory (Hub.members, a sync.Map) beside the table live_roster.  A join  *)
(* works on both without a lock; the reload behind /participants and the   *)
(* draw hold drawMu.  The gateway may stop between any two steps; it comes *)
(* back with the active rows of the table or, when MySQL does not answer,  *)
(* with an empty hub that has no table.                                    *)
(*                                                                         *)
(* Abstracted: names, staff numbers and validation (a refused request does *)
(* nothing), the rate limiter, and the order of the names.                 *)
(***************************************************************************)
EXTENDS Naturals, Sequences, FiniteSets

CONSTANTS
    Users,      \* user ids: form ids, "wx:" + openid, mock-NN
    Requests,   \* handlers of /join and /seed-mock, each serving one request
    Mocks,      \* the ids /seed-mock joins, in its order
    MaxFaults   \* bound: failed database calls plus restarts

ASSUME HubAssumption == /\ Mocks \in Seq(Users)
                        /\ MaxFaults \in Nat

Status == {"none", "active", "won"}

VARIABLES
    table,      \* live_roster: the status of each user's row, "none" without one
    members,    \* Hub.members: the same in memory
    persist,    \* whether Hub.persist is set
    req,        \* the join handlers: ids still to join, where the first of them is
    crit,       \* the holder of drawMu: its step, the keys it has left, its list
    announced,  \* history: users some draw answered as winners
    unmarked,   \* history: winners whose markWon failed
    told,       \* history: users told they are in the pool by a hub with a table
    faults      \* how many faults have happened

store == <<table, members, persist>>
history == <<announced, unmarked, told>>
vars == <<store, req, crit, history, faults>>

Free == [at |-> "free", left |-> {}, list |-> {}]
NewRequest == [at |-> "new", ids |-> <<>>, read |-> "none"]
DoneRequest == [NewRequest EXCEPT !.at = "done"]

TypeOK ==
    /\ table \in [Users -> Status]
    /\ members \in [Users -> Status]
    /\ persist \in BOOLEAN
    /\ req \in [Requests ->
                  [at : {"new", "load", "upsert", "check", "get", "store", "done"},
                   ids : Seq(Users), read : Status]]
    /\ \A r \in Requests : req[r].at \notin {"new", "done"} => req[r].ids # <<>>
    /\ crit \in [at : {"free", "apply", "pop", "mark", "answer"},
                 left : SUBSET Users, list : SUBSET Users]
    /\ announced \in SUBSET Users
    /\ unmarked \in SUBSET Users
    /\ told \in SUBSET Users
    /\ faults \in 0 .. MaxFaults

\* Mutant: the SELECT does not ask for status 'active'.
AllRows == {u \in Users : table[u] # "none"}

\* rosterDB.listActive
ActiveRows == {u \in Users : table[u] = "active"}

\* Hub.snapshotActive: whom a draw can pick.  Joins go on during its Range; one
\* that stores a member meanwhile is taken as before or after the whole Range.
Pool == {u \in Users : members[u] = "active"}

\* Hub.lookupMember: memory first, then the table
Lookup(u) == IF members[u] # "none" \/ ~persist THEN members[u] ELSE table[u]

\* What /me answers
Me(u) == [inPool |-> Lookup(u) = "active", won |-> Lookup(u) = "won"]

Fault == /\ faults < MaxFaults
         /\ faults' = faults + 1

-----------------------------------------------------------------------------
(* The join handlers: Hub.JoinMember, called once by /join and for one id    *)
(* after the other by /seed-mock, which gives up at the first error.         *)

User(r) == Head(req[r].ids)

Goto(r, at, read) == req' = [req EXCEPT ![r].at = at, ![r].read = read]

\* JoinMember returns without an error: /seed-mock goes on with its next id
Next1(r) == req' = [req EXCEPT ![r] =
                      IF Tail(@.ids) = <<>> THEN DoneRequest
                      ELSE [at |-> "load", ids |-> Tail(@.ids), read |-> "none"]]

\* The answer says the user is in the pool
Tell(u) == told' = IF persist THEN told \cup {u} ELSE told

Arrive(r) ==
    /\ req[r].at = "new"
    /\ \E ids \in {<<u>> : u \in Users} \cup ({Mocks} \ {<<>>}) :
          req' = [req EXCEPT ![r] = [at |-> "load", ids |-> ids, read |-> "none"]]
    /\ UNCHANGED <<store, crit, history, faults>>

\* members.Load: known in memory, or on to the table, or (without one) to memory
JoinKnown(r) ==
    /\ req[r].at = "load"
    /\ members[User(r)] # "none"
    /\ IF members[User(r)] = "won" THEN UNCHANGED told ELSE Tell(User(r))
    /\ Next1(r)
    /\ UNCHANGED <<store, crit, announced, unmarked, faults>>

JoinUnknown(r) ==
    /\ req[r].at = "load"
    /\ members[User(r)] = "none"
    /\ Goto(r, IF persist THEN "upsert" ELSE "store", "active")
    /\ UNCHANGED <<store, crit, history, faults>>

\* Mutant: the duplicate key update sets the status back to active.
InsertedActive(u) == [table EXCEPT ![u] = "active"]

\* INSERT ... ON DUPLICATE KEY UPDATE name=name: an existing row stays as it is
Inserted(u) == [table EXCEPT ![u] = IF @ = "none" THEN "active" ELSE @]

Upsert(r) ==
    /\ req[r].at = "upsert"
    /\ table' = Inserted(User(r))
    /\ Goto(r, IF table[User(r)] = "none" THEN "store" ELSE "check", "active")
    /\ UNCHANGED <<members, persist, crit, history, faults>>

\* Mutant: an insert that failed is only logged.
UpsertFailsGoesOn(r) ==
    /\ req[r].at = "upsert"
    /\ Fault
    /\ table' \in {table, Inserted(User(r))}
    /\ Goto(r, "store", "active")
    /\ UNCHANGED <<members, persist, crit, history>>

\* The insert fails, or it commits and its answer does not arrive in 3 seconds:
\* the handler answers 500 either way
UpsertFails(r) ==
    /\ req[r].at = "upsert"
    /\ Fault
    /\ table' \in {table, Inserted(User(r))}
    /\ req' = [req EXCEPT ![r] = DoneRequest]
    /\ UNCHANGED <<members, persist, crit, history>>

CheckWon(r) ==
    /\ req[r].at = "check"
    /\ IF table[User(r)] = "won" THEN Next1(r) ELSE Goto(r, "get", "none")
    /\ UNCHANGED <<store, crit, history, faults>>

\* The error of isWon is dropped and counts as "not won"
CheckWonFails(r) ==
    /\ req[r].at = "check"
    /\ Fault
    /\ Goto(r, "get", "none")
    /\ UNCHANGED <<store, crit, history>>

GetRow(r) ==
    /\ req[r].at = "get"
    /\ Goto(r, "store", table[User(r)])
    /\ UNCHANGED <<store, crit, history, faults>>

\* Without the row the handler still answers "already in the list"
GetRowFails(r) ==
    /\ req[r].at = "get"
    /\ Fault
    /\ Tell(User(r))
    /\ Next1(r)
    /\ UNCHANGED <<store, crit, announced, unmarked>>

StoreMember(r) ==
    /\ req[r].at = "store"
    /\ members' = [members EXCEPT ![User(r)] = req[r].read]
    /\ Tell(User(r))
    /\ Next1(r)
    /\ UNCHANGED <<table, persist, crit, announced, unmarked, faults>>

Join(r) ==
    \/ Arrive(r)
    \/ JoinKnown(r) \/ JoinUnknown(r)
    \/ Upsert(r) \/ UpsertFails(r)
    \/ CheckWon(r) \/ CheckWonFails(r)
    \/ GetRow(r) \/ GetRowFails(r)
    \/ StoreMember(r)

-----------------------------------------------------------------------------
(* The reload behind /participants, under drawMu.  A failed SELECT changes   *)
(* nothing: the handler logs it and shows what is in memory.                 *)

ReloadList ==
    /\ crit.at = "free"
    /\ persist
    /\ crit' = [at |-> "apply", left |-> Users, list |-> ActiveRows]
    /\ UNCHANGED <<store, req, history, faults>>

\* Mutant: the reload only adds.
ReloadKeyAdds(u) ==
    /\ crit.at = "apply"
    /\ u \in crit.left
    /\ members' = [members EXCEPT ![u] = IF u \in crit.list THEN "active" ELSE @]
    /\ crit' = [crit EXCEPT !.left = @ \ {u}]
    /\ UNCHANGED <<table, persist, req, history, faults>>

\* One key: deleted when the list does not have it, stored when it does
ReloadKey(u) ==
    /\ crit.at = "apply"
    /\ u \in crit.left
    /\ members' = [members EXCEPT ![u] = IF u \in crit.list THEN "active" ELSE "none"]
    /\ crit' = [crit EXCEPT !.left = @ \ {u}]
    /\ UNCHANGED <<table, persist, req, history, faults>>

ReloadDone ==
    /\ crit.at = "apply"
    /\ crit.left = {}
    /\ crit' = Free
    /\ UNCHANGED <<store, req, history, faults>>

-----------------------------------------------------------------------------
(* The draw, under drawMu: the winners leave memory one by one, then their   *)
(* rows are marked in one transaction, then the answer names them.           *)

DrawPick ==
    /\ crit.at = "free"
    /\ \E W \in SUBSET Pool \ {{}} :
          crit' = [at |-> "pop", left |-> W, list |-> W]
    /\ UNCHANGED <<store, req, history, faults>>

DrawDelete(u) ==
    /\ crit.at = "pop"
    /\ u \in crit.left
    /\ members' = [members EXCEPT ![u] = "none"]
    /\ crit' = [crit EXCEPT !.left = @ \ {u},
                            !.at = IF crit.left # {u} THEN "pop"
                                   ELSE IF persist THEN "mark" ELSE "answer"]
    /\ UNCHANGED <<table, persist, req, history, faults>>

\* UPDATE ... WHERE user_id=? AND status='active'
Marked(W) == [u \in Users |-> IF u \in W /\ table[u] = "active" THEN "won" ELSE table[u]]

MarkWon ==
    /\ crit.at = "mark"
    /\ table' = Marked(crit.list)
    /\ crit' = [crit EXCEPT !.at = "answer"]
    /\ UNCHANGED <<members, persist, req, history, faults>>

\* removeWinners drops the error of markWon, whether the commit took place or not
MarkWonFails ==
    /\ crit.at = "mark"
    /\ Fault
    /\ table' \in {table, Marked(crit.list)}
    /\ unmarked' = unmarked \cup crit.list
    /\ crit' = [crit EXCEPT !.at = "answer"]
    /\ UNCHANGED <<members, persist, req, announced, told>>

DrawAnswer ==
    /\ crit.at = "answer"
    /\ announced' = announced \cup crit.list
    /\ unmarked' = IF persist THEN unmarked ELSE unmarked \cup crit.list
    /\ crit' = Free
    /\ UNCHANGED <<store, req, told, faults>>

-----------------------------------------------------------------------------
(* A restart ends every handler and empties memory.  main then loads the     *)
(* active rows, or goes on with a hub that has no table.                     *)

Restart(withTable) ==
    /\ Fault
    /\ persist' = withTable
    /\ members' = [u \in Users |-> IF withTable /\ table[u] = "active" THEN "active" ELSE "none"]
    /\ req' = [r \in Requests |-> IF req[r].at = "new" THEN NewRequest ELSE DoneRequest]
    /\ crit' = Free
    /\ UNCHANGED <<table, history>>

Init ==
    /\ table = [u \in Users |-> "none"]
    /\ members = [u \in Users |-> "none"]
    /\ persist = TRUE
    /\ req = [r \in Requests |-> NewRequest]
    /\ crit = Free
    /\ announced = {}
    /\ unmarked = {}
    /\ told = {}
    /\ faults = 0

Reload == ReloadList \/ ReloadDone \/ \E u \in Users : ReloadKey(u)

DrawRest == MarkWon \/ MarkWonFails \/ DrawAnswer \/ \E u \in Users : DrawDelete(u)

Next ==
    \/ \E r \in Requests : Join(r)
    \/ Reload
    \/ DrawPick \/ DrawRest
    \/ \E withTable \in BOOLEAN : Restart(withTable)

\* Handlers that have started run on, and the live screen asks for /participants
\* again and again.  Nobody has to join or to draw.
Fairness ==
    /\ WF_vars(Reload)
    /\ WF_vars(DrawRest)
    /\ \A r \in Requests : WF_vars(Join(r) /\ req[r].at # "new")

Spec == Init /\ [][Next]_vars /\ Fairness

-----------------------------------------------------------------------------
(* Properties                                                                *)

\* Who was told they are in the pool has a row, whatever fails or restarts
\* afterwards: JoinMember writes the row before memory and before the answer,
\* and memory, which answers a repeated join alone, never knows more than the
\* table does.
KeptJoined == \A u \in told : table[u] # "none"

\* The row of an announced winner is won and stays so, whatever joins and
\* reloads run beside the draw, except when markWon itself failed.
AnnouncedKept == \A u \in announced \ unmarked : table[u] = "won"

\* Only a join can put a user whose row is won back into the pool in memory: a
\* reload cannot, because it holds drawMu from its SELECT to its last store.
BackOnlyByJoin ==
    [][\A u \in Users :
         (table[u] = "won" /\ members[u] # "active" /\ members'[u] = "active")
            => \E r \in Requests : req[r].at = "store" /\ User(r) = u]_vars

\* Once joins, draws and faults are over, memory agrees with the table for good:
\* the pool holds exactly the active rows, and /me tells every winner so.
Agree == \A u \in Users : /\ members[u] = "active" <=> table[u] = "active"
                          /\ Me(u).won <=> table[u] = "won"
Converges == <>[](persist => Agree)

\* Nobody is announced twice.  Does not hold: a join that read the row before
\* markWon stores it after.
WinsOnce == [][DrawAnswer => crit.list \cap announced = {}]_vars
=============================================================================
