----------------------------- MODULE HubProofs -----------------------------
(***************************************************************************)
(* Proofs about Hub, for any users, requests, mock list and number of      *)
(* faults.  They rest on two facts: with a table, memory and the joins     *)
(* under way know nobody who has no row, and a row is never taken away;    *)
(* and drawMu keeps the rows that a reload has listed active until it is   *)
(* over, because only a draw marks rows.                                   *)
(***************************************************************************)
EXTENDS Hub, TLAPS

\* With a table, whoever is in memory has a row.
RowBehindMember == persist => \A u \in Users : members[u] # "none" => table[u] # "none"

\* A join that asks the table has one, and behind its insert the row is there.
RowBehindJoin ==
    \A r \in Requests :
       /\ req[r].at \in {"upsert", "check", "get"} => persist
       /\ req[r].at \in {"check", "get", "store"} /\ persist => table[User(r)] # "none"

\* What the holder of drawMu knows of the rows of its list.
CritKnows ==
    /\ crit.at \in {"apply", "mark"} => persist
    /\ crit.at = "apply" => \A u \in crit.list : table[u] = "active"
    /\ crit.at \in {"pop", "mark"} /\ persist => \A u \in crit.list : table[u] # "none"
    /\ crit.at = "answer" /\ persist => \A u \in crit.list \ unmarked : table[u] = "won"

IInv == /\ TypeOK
        /\ KeptJoined /\ AnnouncedKept
        /\ RowBehindMember /\ RowBehindJoin /\ CritKnows

\* A row stays, and so does its mark.
RowsGrow == \A u \in Users : /\ table[u] # "none" => table'[u] # "none"
                             /\ table[u] = "won" => table'[u] = "won"
-----------------------------------------------------------------------------
(* Types.                                                                  *)

\* What the handlers' steps make of their ids.
LEMMA UserOfRequest ==
  ASSUME TypeOK, NEW r \in Requests, req[r].at \notin {"new", "done"}
  PROVE  /\ req[r].ids # <<>> /\ req[r].ids \in Seq(Users)
         /\ User(r) \in Users
         /\ Tail(req[r].ids) \in Seq(Users)
<1>1. req[r].ids \in Seq(Users) /\ req[r].ids # <<>>
  BY DEF TypeOK
<1>2. Head(req[r].ids) \in Users /\ Tail(req[r].ids) \in Seq(Users)
  BY <1>1
<1> QED
  BY <1>1, <1>2 DEF User

LEMMA InitTypes == Init => TypeOK
<1> SUFFICES ASSUME Init PROVE TypeOK
  OBVIOUS
<1>1. 0 \in 0 .. MaxFaults
  BY HubAssumption
<1>2. <<>> \in Seq(Users)
  OBVIOUS
<1> QED
  BY <1>1, <1>2 DEF Init, TypeOK, Status, NewRequest, Free

\* One handler has moved on, to a well-formed state.
ReqMoved(r) ==
    /\ req' \in [Requests ->
                  [at : {"new", "load", "upsert", "check", "get", "store", "done"},
                   ids : Seq(Users), read : Status]]
    /\ req'[r].at \notin {"new", "done"} => req'[r].ids # <<>>
    /\ \A q \in Requests : q # r => req'[q] = req[q]

LEMMA GotoTypes ==
  ASSUME TypeOK, NEW r \in Requests, req[r].at \notin {"new", "done"},
         NEW at \in {"upsert", "check", "get", "store"}, NEW read \in Status,
         Goto(r, at, read)
  PROVE  /\ ReqMoved(r)
         /\ req'[r].at = at /\ req'[r].read = read /\ req'[r].ids = req[r].ids
BY UserOfRequest DEF TypeOK, Goto, ReqMoved

LEMMA Next1Types ==
  ASSUME TypeOK, NEW r \in Requests, req[r].at \notin {"new", "done"}, Next1(r)
  PROVE  ReqMoved(r) /\ req'[r].at \in {"load", "done"}
<1>1. CASE Tail(req[r].ids) = <<>>
  <2>1. req' = [req EXCEPT ![r] = DoneRequest]
    BY <1>1 DEF Next1
  <2>2. DoneRequest = [at |-> "done", ids |-> <<>>, read |-> "none"]
    BY DEF DoneRequest, NewRequest
  <2>3. <<>> \in Seq(Users)
    OBVIOUS
  <2> QED
    BY <2>1, <2>2, <2>3 DEF ReqMoved, TypeOK, Status
<1>2. CASE Tail(req[r].ids) # <<>>
  <2>1. req' = [req EXCEPT ![r] = [at |-> "load", ids |-> Tail(req[r].ids), read |-> "none"]]
    BY <1>2 DEF Next1
  <2> QED
    BY <1>2, <2>1, UserOfRequest DEF ReqMoved, TypeOK, Status
<1> QED
  BY <1>1, <1>2

LEMMA ArriveTypes ==
  ASSUME TypeOK, NEW r \in Requests, Arrive(r)
  PROVE  ReqMoved(r) /\ req'[r].at = "load"
<1>1. PICK ids \in {<<u>> : u \in Users} \cup ({Mocks} \ {<<>>}) :
         req' = [req EXCEPT ![r] = [at |-> "load", ids |-> ids, read |-> "none"]]
  BY DEF Arrive
<1>2. ids \in Seq(Users) /\ ids # <<>>
  <2>1. CASE ids \in {<<u>> : u \in Users}
    <3>1. PICK u \in Users : ids = <<u>>
      BY <2>1
    <3> QED
      BY <3>1
  <2>2. CASE ids = Mocks /\ ids # <<>>
    BY <2>2, HubAssumption DEF HubAssumption
  <2> QED
    BY <2>1, <2>2
<1>3. req' = [req EXCEPT ![r] = [at |-> "load", ids |-> ids, read |-> "none"]]
  BY <1>1
<1> QED
  <2>1. [at |-> "load", ids |-> ids, read |-> "none"]
          \in [at : {"new", "load", "upsert", "check", "get", "store", "done"},
               ids : Seq(Users), read : Status]
    BY <1>2 DEF Status
  <2> QED
    BY <1>2, <1>3, <2>1 DEF ReqMoved, TypeOK

\* What a step of a join handler leaves alone and what it may do.
JoinShape(r) ==
    /\ ReqMoved(r)
    /\ table' \in [Users -> Status] /\ members' \in [Users -> Status]
    /\ RowsGrow
    /\ \A u \in Users : table[u] = "active" => table'[u] = "active"
    /\ persist' = persist /\ crit' = crit
    /\ announced' = announced /\ unmarked' = unmarked
    /\ told' \in SUBSET Users /\ faults' \in 0 .. MaxFaults

LEMMA FaultTypes == ASSUME TypeOK, Fault PROVE faults' \in 0 .. MaxFaults
BY HubAssumption DEF TypeOK, Fault

LEMMA InsertedRow ==
  ASSUME TypeOK, NEW r \in Requests, req[r].at = "upsert", table' \in {table, Inserted(User(r))}
  PROVE  /\ table' \in [Users -> Status] /\ RowsGrow
         /\ \A u \in Users : table[u] = "active" => table'[u] = "active"
         /\ table' = Inserted(User(r)) => table'[User(r)] # "none"
BY UserOfRequest DEF TypeOK, Inserted, RowsGrow, Status

LEMMA JoinsAreShaped ==
  ASSUME IInv, NEW r \in Requests, Join(r)
  PROVE  JoinShape(r)
<1> USE DEF IInv
<1>1. CASE Arrive(r)
  BY <1>1, ArriveTypes DEF Arrive, JoinShape, store, history, TypeOK, RowsGrow
<1>2. CASE JoinKnown(r)
  BY <1>2, Next1Types, UserOfRequest DEF JoinKnown, Tell, JoinShape, store, TypeOK, RowsGrow
<1>3. CASE JoinUnknown(r)
  <2>1. ReqMoved(r)
    BY <1>3, GotoTypes DEF JoinUnknown, Status
  <2> QED
    BY <1>3, <2>1 DEF JoinUnknown, JoinShape, store, history, TypeOK, RowsGrow
<1>4. CASE Upsert(r)
  <2>1. ReqMoved(r)
    BY <1>4, GotoTypes DEF Upsert, Status
  <2> QED
    BY <1>4, <2>1, InsertedRow DEF Upsert, JoinShape, history, TypeOK
<1>5. CASE UpsertFails(r)
  <2>1. ReqMoved(r)
    <3>1. DoneRequest = [at |-> "done", ids |-> <<>>, read |-> "none"]
      BY DEF DoneRequest, NewRequest
    <3>2. <<>> \in Seq(Users)
      OBVIOUS
    <3> QED
      BY <1>5, <3>1, <3>2 DEF UpsertFails, ReqMoved, TypeOK, Status
  <2> QED
    BY <1>5, <2>1, InsertedRow, FaultTypes DEF UpsertFails, JoinShape, history, TypeOK
<1>6. CASE CheckWon(r)
  <2>1. ReqMoved(r)
    BY <1>6, GotoTypes, Next1Types DEF CheckWon, Status
  <2> QED
    BY <1>6, <2>1 DEF CheckWon, JoinShape, store, history, TypeOK, RowsGrow
<1>7. CASE CheckWonFails(r)
  <2>1. ReqMoved(r)
    BY <1>7, GotoTypes DEF CheckWonFails, Status
  <2> QED
    BY <1>7, <2>1, FaultTypes DEF CheckWonFails, JoinShape, store, history, TypeOK, RowsGrow
<1>8. CASE GetRow(r)
  <2>1. ReqMoved(r)
    BY <1>8, GotoTypes, UserOfRequest DEF GetRow, TypeOK
  <2> QED
    BY <1>8, <2>1 DEF GetRow, JoinShape, store, history, TypeOK, RowsGrow
<1>9. CASE GetRowFails(r)
  BY <1>9, Next1Types, UserOfRequest, FaultTypes DEF GetRowFails, Tell, JoinShape, store, TypeOK, RowsGrow
<1>10. CASE StoreMember(r)
  BY <1>10, Next1Types, UserOfRequest DEF StoreMember, Tell, JoinShape, TypeOK, RowsGrow
<1> QED
  BY <1>1, <1>2, <1>3, <1>4, <1>5, <1>6, <1>7, <1>8, <1>9, <1>10 DEF Join

LEMMA JoinKeepsTypes ==
  ASSUME TypeOK, NEW r \in Requests, JoinShape(r)
  PROVE  TypeOK'
BY DEF TypeOK, JoinShape, ReqMoved

\* Joins know nobody without a row: they write it before anything else.
LEMMA JoinKeepsRows ==
  ASSUME IInv, NEW r \in Requests, Join(r)
  PROVE  RowBehindMember' /\ RowBehindJoin' /\ KeptJoined'
<1> USE DEF IInv
<1>0. JoinShape(r)
  BY JoinsAreShaped
<1>1. ASSUME NEW q \in Requests, q # r
      PROVE  /\ req'[q].at \in {"upsert", "check", "get"} => persist'
             /\ req'[q].at \in {"check", "get", "store"} /\ persist' => table'[User(q)'] # "none"
  <2>1. req'[q] = req[q] /\ User(q)' = User(q) /\ persist' = persist
    BY <1>0, <1>1 DEF JoinShape, ReqMoved, User
  <2> QED
    BY <2>1, <1>0, UserOfRequest DEF RowBehindJoin, JoinShape, RowsGrow
<1>2. /\ RowBehindMember'
      /\ req'[r].at \in {"upsert", "check", "get"} => persist'
      /\ req'[r].at \in {"check", "get", "store"} /\ persist' => table'[User(r)'] # "none"
      /\ KeptJoined'
  <2>1. CASE Arrive(r)
    BY <2>1, ArriveTypes DEF Arrive, store, history, RowBehindMember, KeptJoined
  <2>2. CASE JoinKnown(r)
    BY <2>2, Next1Types, UserOfRequest DEF JoinKnown, Tell, store, RowBehindMember, KeptJoined
  <2>3. CASE JoinUnknown(r)
    BY <2>3, GotoTypes DEF JoinUnknown, Status, store, history, RowBehindMember, KeptJoined
  <2>4. CASE Upsert(r)
    <3>1. req'[r].at \in {"store", "check"} /\ User(r)' = User(r)
      BY <2>4, GotoTypes DEF Upsert, Status, User
    <3>2. table'[User(r)] # "none" /\ persist
      BY <2>4, InsertedRow DEF Upsert, RowBehindJoin
    <3> QED
      BY <2>4, <3>1, <3>2, <1>0 DEF Upsert, history, RowBehindMember, KeptJoined, JoinShape, RowsGrow, TypeOK
  <2>5. CASE UpsertFails(r)
    <3>1. req'[r].at = "done"
      BY <2>5 DEF UpsertFails, DoneRequest, NewRequest, TypeOK
    <3> QED
      BY <2>5, <3>1, <1>0 DEF UpsertFails, history, RowBehindMember, KeptJoined, JoinShape, RowsGrow, TypeOK
  <2>6. CASE CheckWon(r)
    <3>1. req'[r].at \in {"load", "done"} \/ (req'[r].at = "get" /\ User(r)' = User(r))
      BY <2>6, GotoTypes, Next1Types DEF CheckWon, Status, User
    <3> QED
      BY <2>6, <3>1 DEF CheckWon, store, history, RowBehindMember, RowBehindJoin, KeptJoined
  <2>7. CASE CheckWonFails(r)
    <3>1. req'[r].at = "get" /\ User(r)' = User(r)
      BY <2>7, GotoTypes DEF CheckWonFails, Status, User
    <3> QED
      BY <2>7, <3>1 DEF CheckWonFails, store, history, RowBehindMember, RowBehindJoin, KeptJoined
  <2>8. CASE GetRow(r)
    <3>1. req'[r].at = "store" /\ User(r)' = User(r)
      BY <2>8, GotoTypes, UserOfRequest DEF GetRow, TypeOK, User
    <3> QED
      BY <2>8, <3>1 DEF GetRow, store, history, RowBehindMember, RowBehindJoin, KeptJoined
  <2>9. CASE GetRowFails(r)
    BY <2>9, Next1Types, UserOfRequest DEF GetRowFails, Tell, store, RowBehindMember, RowBehindJoin, KeptJoined
  <2>10. CASE StoreMember(r)
    BY <2>10, Next1Types, UserOfRequest
       DEF StoreMember, Tell, RowBehindMember, RowBehindJoin, KeptJoined, TypeOK
  <2> QED
    BY <2>1, <2>2, <2>3, <2>4, <2>5, <2>6, <2>7, <2>8, <2>9, <2>10 DEF Join
<1> QED
  BY <1>1, <1>2 DEF RowBehindJoin

LEMMA JoinKeeps ==
  ASSUME IInv, NEW r \in Requests, Join(r)
  PROVE  IInv'
<1>1. JoinShape(r) /\ TypeOK
  BY JoinsAreShaped DEF IInv
<1>2. TypeOK'
  BY <1>1, JoinKeepsTypes
<1>3. AnnouncedKept'
  BY <1>1 DEF IInv, AnnouncedKept, JoinShape, RowsGrow, TypeOK
<1>4. CritKnows'
  BY <1>1 DEF IInv, CritKnows, JoinShape, RowsGrow, TypeOK
<1> QED
  BY <1>2, <1>3, <1>4, JoinKeepsRows DEF IInv
-----------------------------------------------------------------------------
(* The holder of drawMu, and restarts.                                     *)

LEMMA ReloadKeeps ==
  ASSUME IInv, Reload
  PROVE  IInv'
<1> USE DEF IInv
<1>1. CASE ReloadList
  <2>1. TypeOK'
    BY <1>1 DEF ReloadList, store, history, TypeOK, ActiveRows
  <2> QED
    BY <1>1, <2>1 DEF ReloadList, store, history, ActiveRows, TypeOK, KeptJoined,
                      AnnouncedKept, RowBehindMember, RowBehindJoin, CritKnows, User
<1>2. CASE ReloadDone
  <2>1. TypeOK'
    BY <1>2 DEF ReloadDone, store, history, TypeOK, Free
  <2> QED
    BY <1>2, <2>1 DEF ReloadDone, store, history, Free, KeptJoined,
                      AnnouncedKept, RowBehindMember, RowBehindJoin, CritKnows, User
<1>3. ASSUME NEW u \in Users, ReloadKey(u) PROVE IInv'
  <2>1. TypeOK'
    BY <1>3 DEF ReloadKey, history, TypeOK, Status
  <2>2. RowBehindMember'
    BY <1>3 DEF ReloadKey, TypeOK, RowBehindMember, CritKnows
  <2> QED
    BY <1>3, <2>1, <2>2 DEF ReloadKey, history, TypeOK, KeptJoined,
                      AnnouncedKept, RowBehindJoin, CritKnows, User
<1> QED
  BY <1>1, <1>2, <1>3 DEF Reload

\* Marking touches active rows only.
LEMMA MarkedRows ==
  ASSUME TypeOK, NEW W \in SUBSET Users, table' = Marked(W)
  PROVE  /\ table' \in [Users -> Status] /\ RowsGrow
         /\ \A u \in W : table[u] # "none" => table'[u] = "won"
BY DEF TypeOK, Marked, RowsGrow, Status

LEMMA DrawKeeps ==
  ASSUME IInv, DrawPick \/ DrawRest
  PROVE  IInv'
<1> USE DEF IInv
<1>1. CASE DrawPick
  <2>1. PICK W \in SUBSET Pool \ {{}} : crit' = [at |-> "pop", left |-> W, list |-> W]
    BY <1>1 DEF DrawPick
  <2>2. W \in SUBSET Users /\ \A u \in W : members[u] = "active"
    BY DEF Pool
  <2>3. TypeOK'
    BY <1>1, <2>1, <2>2 DEF DrawPick, store, history, TypeOK
  <2>4. CritKnows'
    BY <1>1, <2>1, <2>2 DEF DrawPick, store, history, TypeOK, CritKnows, RowBehindMember
  <2> QED
    BY <1>1, <2>3, <2>4 DEF DrawPick, store, history, KeptJoined,
                      AnnouncedKept, RowBehindMember, RowBehindJoin, User
<1>2. ASSUME NEW u \in Users, DrawDelete(u) PROVE IInv'
  <2>1. TypeOK'
    BY <1>2 DEF DrawDelete, history, TypeOK, Status
  <2>2. CritKnows'
    <3>1. CASE crit'.at = "answer"
      BY <1>2, <3>1 DEF DrawDelete, history, TypeOK, CritKnows
    <3>2. CASE crit'.at # "answer"
      BY <1>2, <3>2 DEF DrawDelete, history, TypeOK, CritKnows
    <3> QED
      BY <3>1, <3>2
  <2>3. RowBehindMember'
    BY <1>2 DEF DrawDelete, TypeOK, RowBehindMember
  <2> QED
    BY <1>2, <2>1, <2>2, <2>3 DEF DrawDelete, history, KeptJoined,
                      AnnouncedKept, RowBehindJoin, User
<1>3. CASE MarkWon
  <2>0. crit.list \in SUBSET Users /\ table' = Marked(crit.list)
    BY <1>3 DEF MarkWon, TypeOK
  <2>1. /\ table' \in [Users -> Status] /\ RowsGrow
        /\ \A u \in crit.list : table[u] # "none" => table'[u] = "won"
    BY <2>0, MarkedRows
  <2>2. TypeOK'
    BY <1>3, <2>1 DEF MarkWon, history, TypeOK
  <2>3. CritKnows'
    BY <1>3, <2>1 DEF MarkWon, history, TypeOK, CritKnows
  <2>4. RowBehindJoin'
    BY <1>3, <2>1, UserOfRequest DEF MarkWon, RowBehindJoin, RowsGrow, User
  <2> QED
    BY <1>3, <2>1, <2>2, <2>3, <2>4 DEF MarkWon, history, TypeOK, KeptJoined,
                      AnnouncedKept, RowBehindMember, RowsGrow
<1>4. CASE MarkWonFails
  <2>0. crit.list \in SUBSET Users
    BY DEF TypeOK
  <2>1. table' \in [Users -> Status] /\ RowsGrow
    <3>1. CASE table' = table
      BY <3>1 DEF TypeOK, RowsGrow
    <3>2. CASE table' = Marked(crit.list)
      BY <2>0, <3>2, MarkedRows
    <3> QED
      BY <1>4, <3>1, <3>2 DEF MarkWonFails
  <2>2. TypeOK'
    BY <1>4, <2>0, <2>1, FaultTypes DEF MarkWonFails, TypeOK
  <2>3. CritKnows'
    BY <1>4 DEF MarkWonFails, TypeOK, CritKnows
  <2>4. RowBehindJoin'
    BY <1>4, <2>1, UserOfRequest DEF MarkWonFails, RowBehindJoin, RowsGrow, User
  <2> QED
    BY <1>4, <2>1, <2>2, <2>3, <2>4 DEF MarkWonFails, TypeOK, KeptJoined,
                      AnnouncedKept, RowBehindMember, RowsGrow
<1>5. CASE DrawAnswer
  <2>1. TypeOK'
    BY <1>5 DEF DrawAnswer, store, TypeOK, Free
  <2>2. AnnouncedKept'
    BY <1>5 DEF DrawAnswer, store, AnnouncedKept, CritKnows
  <2> QED
    BY <1>5, <2>1, <2>2 DEF DrawAnswer, store, Free, KeptJoined,
                      RowBehindMember, RowBehindJoin, CritKnows, User
<1> QED
  BY <1>1, <1>2, <1>3, <1>4, <1>5 DEF DrawRest

LEMMA RestartKeeps ==
  ASSUME IInv, NEW withTable \in BOOLEAN, Restart(withTable)
  PROVE  IInv'
<1> USE DEF IInv
<1>1. members' \in [Users -> Status]
  BY DEF Restart, Status
<1>2. /\ req' \in [Requests ->
                  [at : {"new", "load", "upsert", "check", "get", "store", "done"},
                   ids : Seq(Users), read : Status]]
      /\ \A r \in Requests : req'[r].at \in {"new", "done"}
  <2>1. /\ NewRequest = [at |-> "new", ids |-> <<>>, read |-> "none"]
        /\ DoneRequest = [at |-> "done", ids |-> <<>>, read |-> "none"]
        /\ <<>> \in Seq(Users)
    BY DEF NewRequest, DoneRequest
  <2> QED
    BY <2>1 DEF Restart, Status
<1>3. TypeOK'
  BY <1>1, <1>2, FaultTypes DEF Restart, history, TypeOK, Free
<1>4. RowBehindMember'
  BY DEF Restart, RowBehindMember
<1> QED
  BY <1>2, <1>3, <1>4 DEF Restart, history, Free, KeptJoined, AnnouncedKept,
                          RowBehindJoin, CritKnows
-----------------------------------------------------------------------------
(* The theorems.                                                           *)

LEMMA Initially == Init => IInv
<1> SUFFICES ASSUME Init PROVE IInv
  OBVIOUS
<1>1. TypeOK
  BY InitTypes
<1> QED
  BY <1>1 DEF Init, IInv, KeptJoined, AnnouncedKept, RowBehindMember, RowBehindJoin,
              CritKnows, NewRequest, Free

LEMMA Inductive == IInv /\ [Next]_vars => IInv'
<1> SUFFICES ASSUME IInv, [Next]_vars PROVE IInv'
  OBVIOUS
<1>1. CASE \E r \in Requests : Join(r)
  BY <1>1, JoinKeeps
<1>2. CASE Reload
  BY <1>2, ReloadKeeps
<1>3. CASE DrawPick \/ DrawRest
  BY <1>3, DrawKeeps
<1>4. CASE \E withTable \in BOOLEAN : Restart(withTable)
  BY <1>4, RestartKeeps
<1>5. CASE UNCHANGED vars
  BY <1>5 DEF vars, store, history, IInv, TypeOK, KeptJoined, AnnouncedKept,
              RowBehindMember, RowBehindJoin, CritKnows, User
<1> QED
  BY <1>1, <1>2, <1>3, <1>4, <1>5 DEF Next

\* Every variable has its type: in particular a handler at work has an id to join
\* and the holder of drawMu a list of users.
THEOREM HubTypes == Spec => []TypeOK
<1>1. IInv => TypeOK
  BY DEF IInv
<1> QED
  BY <1>1, Initially, Inductive, PTL DEF Spec

\* Whoever was told they are in the pool by a hub with a table keeps a row: through
\* any joins, draws, reloads, failed calls and restarts.
THEOREM ToldAreKept == Spec => []KeptJoined
<1>1. IInv => KeptJoined
  BY DEF IInv
<1> QED
  BY <1>1, Initially, Inductive, PTL DEF Spec

\* An announced winner whose markWon did not fail has a row that says so, for good.
THEOREM WinnersStayMarked == Spec => []AnnouncedKept
<1>1. IInv => AnnouncedKept
  BY DEF IInv
<1> QED
  BY <1>1, Initially, Inductive, PTL DEF Spec

\* Only a join puts somebody whose row is won back into the pool in memory; a
\* reload or a restart never does.
THEOREM OnlyJoinsBringBack == Spec => BackOnlyByJoin
<1> DEFINE Back == \A u \in Users :
                     (table[u] = "won" /\ members[u] # "active" /\ members'[u] = "active")
                        => \E r \in Requests : req[r].at = "store" /\ User(r) = u
<1>1. IInv /\ [Next]_vars => [Back]_vars
  <2> SUFFICES ASSUME IInv, Next, NEW u \in Users, table[u] = "won",
                      members[u] # "active", members'[u] = "active"
               PROVE  \E r \in Requests : req[r].at = "store" /\ User(r) = u
    BY DEF vars
  <2>0. TypeOK /\ CritKnows
    BY DEF IInv
  <2>1. CASE \E r \in Requests : Join(r)
    <3>1. PICK r \in Requests : Join(r)
      BY <2>1
    <3>2. CASE StoreMember(r)
      BY <3>2, <2>0 DEF StoreMember, TypeOK
    <3>3. CASE ~StoreMember(r)
      BY <3>1, <3>3 DEF Join, Arrive, JoinKnown, JoinUnknown, Upsert, UpsertFails,
                        CheckWon, CheckWonFails, GetRow, GetRowFails, store
    <3> QED
      BY <3>2, <3>3
  <2>2. CASE Reload
    <3>1. CASE ReloadList \/ ReloadDone
      BY <3>1 DEF ReloadList, ReloadDone, store
    <3>2. ASSUME NEW w \in Users, ReloadKey(w) PROVE FALSE
      BY <3>2, <2>0 DEF ReloadKey, TypeOK, CritKnows
    <3> QED
      BY <2>2, <3>1, <3>2 DEF Reload
  <2>3. CASE DrawPick \/ DrawRest
    BY <2>3, <2>0 DEF DrawPick, DrawRest, MarkWon, MarkWonFails, DrawAnswer, DrawDelete,
                      store, TypeOK
  <2>4. CASE \E withTable \in BOOLEAN : Restart(withTable)
    BY <2>4 DEF Restart
  <2> QED
    BY <2>1, <2>2, <2>3, <2>4 DEF Next
<1> QED
  BY <1>1, Initially, Inductive, PTL DEF Spec, BackOnlyByJoin
=============================================================================
