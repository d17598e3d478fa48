---------------------------- MODULE RedeemProofs ----------------------------
(***************************************************************************)
(* Proofs about Accounts and Redeem, for any tenants, accounts and prizes. *)
(* A name's first registrar is the only one who gets to make an account    *)
(* for it; rows of accounts are never changed or removed; and a row of     *)
(* redemptions is written by statements that name the status it must have. *)
(***************************************************************************)
EXTENDS Redeem, FiniteSetTheorems, TLAPS

AdminsOf(t) == {u \in users : u.tenant = t /\ u.role = "admin"}
PendingOf(t) == {r \in Registrars : reg[r].at = "admin" /\ reg[r].tenant = t}

\* Who may become, or is, the admin of a name: one at most, and none before the
\* tenant has its row.
Claimed(t) ==
    /\ t \notin tenants => AdminsOf(t) = {} /\ PendingOf(t) = {}
    /\ \A u, v \in AdminsOf(t) : u = v
    /\ \A r, s \in PendingOf(t) : r = s
    /\ AdminsOf(t) = {} \/ PendingOf(t) = {}

\* A registrar between its two statements has a name.
Named == \A r \in Registrars : reg[r].at = "admin" => reg[r].tenant \in TenantNames

AccountsInv ==
    /\ AccountsTypeOK /\ Named /\ TokensTrue
    /\ \A t \in TenantNames : Claimed(t)

\* A row of redemptions belongs to a prize that was won.
Won == \A t \in Tokens :
          /\ wins[t].mode = "none" => wins[t].account = None
          /\ redemptions[t].status # "none" => wins[t].mode # "none"
          /\ redemptions[t].status # "used" => redemptions[t].usedBy = None

IInv == AccountsInv /\ TypeOK /\ Won /\ WithinTenant
-----------------------------------------------------------------------------
(* Accounts.                                                               *)

LEMMA InsertTenantKeeps ==
  ASSUME AccountsInv, NEW r \in Registrars, InsertTenant(r)
  PROVE  AccountsInv'
<1>1. users' = users /\ tokens' = tokens
  BY DEF InsertTenant
<1>2. PICK name \in TenantNames :
         IF name \in tenants
         THEN reg' = [reg EXCEPT ![r].at = "done"] /\ tenants' = tenants
         ELSE /\ tenants' = tenants \cup {name}
              /\ reg' = [reg EXCEPT ![r] = [at |-> "admin", tenant |-> name]]
  BY DEF InsertTenant
<1>3. CASE name \in tenants
  <2>1. reg' = [reg EXCEPT ![r].at = "done"] /\ tenants' = tenants
    BY <1>2, <1>3
  <2>2. AccountsTypeOK' /\ Named' /\ TokensTrue'
    BY <1>1, <2>1 DEF AccountsInv, AccountsTypeOK, Named, TokensTrue
  <2>3. ASSUME NEW t \in TenantNames PROVE Claimed(t)'
    <3>1. AdminsOf(t)' = AdminsOf(t)
      BY <1>1 DEF AdminsOf
    <3>2. PendingOf(t)' \subseteq PendingOf(t)
      BY <2>1 DEF PendingOf, AccountsInv, AccountsTypeOK
    <3> QED
      BY <2>1, <3>1, <3>2 DEF Claimed, AccountsInv
  <2> QED
    BY <2>2, <2>3 DEF AccountsInv
<1>4. CASE name \notin tenants
  <2>1. /\ tenants' = tenants \cup {name}
        /\ reg' = [reg EXCEPT ![r] = [at |-> "admin", tenant |-> name]]
    BY <1>2, <1>4
  <2>2. AccountsTypeOK' /\ Named' /\ TokensTrue'
    BY <1>1, <2>1 DEF AccountsInv, AccountsTypeOK, Named, TokensTrue
  <2>3. ASSUME NEW t \in TenantNames PROVE Claimed(t)'
    <3>1. AdminsOf(t)' = AdminsOf(t)
      BY <1>1 DEF AdminsOf
    <3>2. CASE t = name
      <4>1. PendingOf(t)' \subseteq {r}
        <5>1. PendingOf(t) = {}
          BY <1>4, <3>2 DEF AccountsInv, Claimed
        <5> QED
          BY <2>1, <5>1 DEF PendingOf, AccountsInv, AccountsTypeOK
      <4>2. AdminsOf(t) = {} /\ t \in tenants'
        BY <1>4, <2>1, <3>2 DEF AccountsInv, Claimed
      <4> QED
        BY <3>1, <4>1, <4>2 DEF Claimed
    <3>3. CASE t # name
      <4>1. PendingOf(t)' \subseteq PendingOf(t)
        BY <2>1, <3>3 DEF PendingOf, AccountsInv, AccountsTypeOK
      <4>2. t \notin tenants' => t \notin tenants
        BY <2>1
      <4> QED
        BY <3>1, <4>1, <4>2 DEF Claimed, AccountsInv
    <3> QED
      BY <3>2, <3>3
  <2> QED
    BY <2>2, <2>3 DEF AccountsInv
<1> QED
  BY <1>3, <1>4

LEMMA InsertAdminKeeps ==
  ASSUME AccountsInv, NEW r \in Registrars, InsertAdmin(r)
  PROVE  AccountsInv'
<1>1. tenants' = tenants /\ reg' = [reg EXCEPT ![r].at = "done"] /\ reg[r].at = "admin"
  BY DEF InsertAdmin
<1> DEFINE name == reg[r].tenant
<1>2. name \in TenantNames /\ r \in PendingOf(name)
  BY <1>1 DEF AccountsInv, Named, PendingOf
<1>3. PICK account \in AccountNames :
         LET id == [tenant |-> name, account |-> account, role |-> "admin"]
         IN InsertUser(id) /\ Issue(users' \cap {id})
  BY DEF InsertAdmin
<1> DEFINE id == [tenant |-> name, account |-> account, role |-> "admin"]
<1>4. id \in Identity /\ id.tenant = name
  BY <1>2 DEF Identity
<1> HIDE DEF id, name
<1>5. /\ users \subseteq users' /\ users' \subseteq users \cup {id}
      /\ tokens' \subseteq tokens \cup (users' \cap {id})
  BY <1>3 DEF InsertUser, Issue, id
<1>6. AccountsTypeOK' /\ Named' /\ TokensTrue'
  BY <1>1, <1>4, <1>5 DEF AccountsInv, AccountsTypeOK, Named, TokensTrue
<1>7. ASSUME NEW t \in TenantNames PROVE Claimed(t)'
  <2>0. Claimed(t)
    BY DEF AccountsInv
  <2>1. CASE t = name
    <3>1. AdminsOf(t) = {} /\ t \in tenants
      BY <1>2, <2>0, <2>1 DEF Claimed
    <3>2. AdminsOf(t)' \subseteq {id}
      BY <1>5, <3>1 DEF AdminsOf
    <3>3. PendingOf(t)' \subseteq PendingOf(t) \ {r}
      BY <1>1 DEF PendingOf, AccountsInv, AccountsTypeOK
    <3>4. PendingOf(t)' = {}
      BY <1>2, <2>0, <2>1, <3>3 DEF Claimed
    <3> QED
      BY <1>1, <3>1, <3>2, <3>4 DEF Claimed
  <2>2. CASE t # name
    <3>1. AdminsOf(t)' = AdminsOf(t)
      BY <1>4, <1>5, <2>2 DEF AdminsOf
    <3>2. PendingOf(t)' \subseteq PendingOf(t)
      BY <1>1 DEF PendingOf, AccountsInv, AccountsTypeOK
    <3> QED
      BY <1>1, <2>0, <3>1, <3>2 DEF Claimed
  <2> QED
    BY <2>1, <2>2
<1> QED
  BY <1>6, <1>7 DEF AccountsInv

LEMMA RegisterFailsKeeps ==
  ASSUME AccountsInv, NEW r \in Registrars, RegisterFails(r)
  PROVE  AccountsInv'
<1>1. /\ tenants' = tenants /\ users' = users /\ tokens' = tokens
      /\ reg' = [reg EXCEPT ![r].at = "done"]
  BY DEF RegisterFails
<1>2. AccountsTypeOK' /\ Named' /\ TokensTrue'
  BY <1>1 DEF AccountsInv, AccountsTypeOK, Named, TokensTrue
<1>3. ASSUME NEW t \in TenantNames PROVE Claimed(t)'
  <2>1. AdminsOf(t)' = AdminsOf(t) /\ PendingOf(t)' \subseteq PendingOf(t)
    BY <1>1 DEF AdminsOf, PendingOf, AccountsInv, AccountsTypeOK
  <2> QED
    BY <1>1, <2>1 DEF Claimed, AccountsInv
<1> QED
  BY <1>2, <1>3 DEF AccountsInv

\* Accounts of users and further tokens: no admin comes or goes.
LEMMA UsersKeep ==
  ASSUME AccountsInv, NEW t \in TenantNames, NEW a \in AccountNames,
         RegisterUser(t, a) \/ Login(t, a)
  PROVE  AccountsInv'
<1>1. tenants' = tenants /\ reg' = reg
  BY DEF RegisterUser, Login
<1>2. /\ users \subseteq users' /\ users' \subseteq Identity
      /\ \A u \in users' \ users : u.role = "user"
      /\ tokens' \subseteq users'
  <2>1. CASE Login(t, a)
    BY <2>1 DEF Login, Issue, UserByAccount, AccountsInv, AccountsTypeOK, TokensTrue
  <2>2. CASE RegisterUser(t, a)
    <3> DEFINE id == [tenant |-> t, account |-> a, role |-> "user"]
    <3>1. id \in Identity /\ id.role = "user" /\ id.tenant = t /\ id.account = a
      BY DEF Identity
    <3>2. UserByAccount(t, a) = {} /\ InsertUser(id) /\ tokens' = tokens \cup {id}
      BY <2>2 DEF RegisterUser, Issue
    <3> HIDE DEF id
    <3>3. users' = users \cup {id}
      BY <3>1, <3>2 DEF InsertUser
    <3> QED
      BY <3>1, <3>2, <3>3 DEF AccountsInv, AccountsTypeOK, TokensTrue
  <2> QED
    BY <2>1, <2>2
<1>3. AccountsTypeOK' /\ Named' /\ TokensTrue'
  BY <1>1, <1>2 DEF AccountsInv, AccountsTypeOK, Named, TokensTrue
<1>4. ASSUME NEW n \in TenantNames PROVE Claimed(n)'
  <2>1. AdminsOf(n)' = AdminsOf(n) /\ PendingOf(n)' = PendingOf(n)
    BY <1>1, <1>2 DEF AdminsOf, PendingOf
  <2> QED
    BY <1>1, <2>1 DEF Claimed, AccountsInv
<1> QED
  BY <1>3, <1>4 DEF AccountsInv

LEMMA AccountsKeep ==
  ASSUME AccountsInv, AccountsNext
  PROVE  AccountsInv'
BY InsertTenantKeeps, InsertAdminKeeps, RegisterFailsKeeps, UsersKeep DEF AccountsNext

LEMMA AccountsStay ==
  ASSUME AccountsInv, UNCHANGED accountVars
  PROVE  AccountsInv'
BY DEF AccountsInv, AccountsTypeOK, Named, TokensTrue, Claimed, AdminsOf, PendingOf, accountVars
-----------------------------------------------------------------------------
(* Prizes: what one statement does to one prize.                           *)

\* The fields of a winner and of a row, and what belongs together.
WinRow == [mode : {"none", "popped", "live", "undone", "scheduled"},
           tenant : TenantNames \cup {None}, account : AccountNames \cup {None}]
CodeRows == [status : {"none", "unused", "used"},
             tenant : TenantNames \cup {None}, account : AccountNames \cup {None},
             address : Addresses \cup {None}, usedBy : Identity \cup {None}]

PrizeOK(win, row) ==
    /\ win.mode = "none" => win.account = None
    /\ row.status # "none" =>
         /\ win.mode # "none"
         /\ row.tenant = win.tenant
         /\ row.account = win.account
         /\ row.usedBy # None => row.usedBy.tenant = win.tenant /\ row.usedBy.role = "admin"
    /\ row.status # "used" => row.usedBy = None

LEMMA PrizesOK ==
  IInv => \A t \in Tokens : /\ wins[t] \in WinRow /\ redemptions[t] \in CodeRows
                            /\ PrizeOK(wins[t], redemptions[t])
BY DEF IInv, TypeOK, Won, WithinTenant, PrizeOK, WinRow, CodeRows

\* A statement about prize t keeps the invariant if it leaves t well-formed.
LEMMA PrizeStep ==
  ASSUME IInv, UNCHANGED accountVars, handed' \in [Tokens -> Nat], NEW t \in Tokens,
         NEW win \in WinRow, NEW row \in CodeRows, PrizeOK(win, row),
         wins' = [wins EXCEPT ![t] = win], redemptions' = [redemptions EXCEPT ![t] = row]
  PROVE  IInv'
<1>1. AccountsInv' /\ AccountsTypeOK'
  BY AccountsStay DEF IInv, AccountsInv
<1>2. TypeOK'
  BY <1>1 DEF IInv, TypeOK, WinRow, CodeRows
<1>3. \A s \in Tokens : PrizeOK(wins'[s], redemptions'[s])
  <2>1. \A s \in Tokens : s # t => wins'[s] = wins[s] /\ redemptions'[s] = redemptions[s]
    BY DEF IInv, TypeOK
  <2>2. wins'[t] = win /\ redemptions'[t] = row
    BY DEF IInv, TypeOK
  <2> QED
    BY <2>1, <2>2, PrizesOK
<1>4. Won' /\ WithinTenant'
  BY <1>3 DEF PrizeOK, Won, WithinTenant
<1> QED
  BY <1>1, <1>2, <1>4 DEF IInv

LEMMA HandKeeps ==
  ASSUME IInv, NEW t \in Tokens, Hand(t)
  PROVE  handed' \in [Tokens -> Nat]
BY DEF IInv, TypeOK, Hand

LEMMA WinKeeps ==
  ASSUME IInv, NEW t \in Tokens, Win(t)
  PROVE  IInv'
<1>1. PICK mode \in {"popped", "scheduled"}, tenant \in TenantNames,
           account \in AccountNames \cup {None} :
         wins' = [wins EXCEPT ![t] = [mode |-> mode, tenant |-> tenant, account |-> account]]
  BY DEF Win
<1> DEFINE win == [mode |-> mode, tenant |-> tenant, account |-> account]
<1>2. win \in WinRow /\ win.mode # "none"
  BY DEF WinRow
<1>3. /\ redemptions[t] \in CodeRows /\ redemptions[t].status = "none"
      /\ redemptions[t].usedBy = None
  BY PrizesOK DEF Win, PrizeOK
<1>4. /\ UNCHANGED accountVars /\ handed' \in [Tokens -> Nat]
      /\ redemptions' = [redemptions EXCEPT ![t] = redemptions[t]]
  BY DEF Win, IInv, TypeOK
<1>5. PrizeOK(win, redemptions[t])
  BY <1>2, <1>3 DEF PrizeOK
<1> HIDE DEF win
<1> QED
  BY <1>1, <1>2, <1>3, <1>4, <1>5, PrizeStep DEF win

LEMMA RecordKeeps ==
  ASSUME IInv, NEW t \in Tokens, Record(t)
  PROVE  IInv'
<1> DEFINE win == [wins[t] EXCEPT !.mode = "live"]
<1>1. wins[t] \in WinRow /\ redemptions[t] \in CodeRows /\ PrizeOK(wins[t], redemptions[t])
  BY PrizesOK
<1>2. win \in WinRow /\ wins' = [wins EXCEPT ![t] = win]
  BY <1>1 DEF WinRow, Record, IInv, TypeOK
<1>3. PrizeOK(win, redemptions[t])
  BY <1>1 DEF PrizeOK, WinRow
<1>4. /\ UNCHANGED accountVars /\ handed' \in [Tokens -> Nat]
      /\ redemptions' = [redemptions EXCEPT ![t] = redemptions[t]]
  BY DEF Record, IInv, TypeOK
<1> HIDE DEF win
<1> QED
  BY <1>1, <1>2, <1>3, <1>4, PrizeStep

LEMMA UndoKeeps ==
  ASSUME IInv, NEW t \in Tokens, Undo(t)
  PROVE  IInv'
<1> DEFINE win == [wins[t] EXCEPT !.mode = "undone"]
<1>1. wins[t] \in WinRow /\ redemptions[t] \in CodeRows /\ PrizeOK(wins[t], redemptions[t])
  BY PrizesOK
<1>2. win \in WinRow /\ wins' = [wins EXCEPT ![t] = win]
  BY <1>1 DEF WinRow, Undo, IInv, TypeOK
<1>3. PrizeOK(win, redemptions[t])
  BY <1>1 DEF PrizeOK, WinRow
<1>4. /\ UNCHANGED accountVars /\ handed' \in [Tokens -> Nat]
      /\ redemptions' = [redemptions EXCEPT ![t] = redemptions[t]]
  BY DEF Undo, IInv, TypeOK
<1> HIDE DEF win
<1> QED
  BY <1>1, <1>2, <1>3, <1>4, PrizeStep

\* The three statements that write a row of redemptions.
LEMMA RowKeeps ==
  ASSUME IInv, NEW t \in Tokens, UNCHANGED accountVars, wins' = wins,
         handed' \in [Tokens -> Nat], NEW row \in CodeRows, PrizeOK(wins[t], row),
         redemptions' = [redemptions EXCEPT ![t] = row]
  PROVE  IInv'
<1>1. wins[t] \in WinRow /\ wins' = [wins EXCEPT ![t] = wins[t]]
  BY PrizesOK DEF IInv, TypeOK
<1> QED
  BY <1>1, PrizeStep

LEMMA IssueKeeps ==
  ASSUME IInv, NEW t \in Tokens, IssueRedeem(t)
  PROVE  IInv'
<1>1. wins[t] \in WinRow /\ PrizeOK(wins[t], redemptions[t]) /\ wins[t].account # None
  BY PrizesOK DEF IssueRedeem
<1>2. CodeRow(t) \in CodeRows /\ PrizeOK(wins[t], CodeRow(t))
  BY <1>1 DEF CodeRow, CodeRows, WinRow, PrizeOK
<1>3. /\ UNCHANGED accountVars /\ wins' = wins /\ handed' \in [Tokens -> Nat]
      /\ redemptions' = [redemptions EXCEPT ![t] = CodeRow(t)]
  BY DEF IssueRedeem, IInv, TypeOK
<1> QED
  BY <1>2, <1>3, RowKeeps

\* Both ways to settle leave a used row that names an admin of the tenant.
LEMMA SettleKeeps ==
  ASSUME IInv, NEW t \in Tokens, NEW id \in tokens, Redeem(id, t) \/ OfflineRedeem(id, t)
  PROVE  /\ IInv' /\ wins' = wins /\ Hand(t)
         /\ redemptions[t].status # "used" /\ wins[t].mode # "none"
         /\ \E row \in CodeRows : /\ row.status = "used"
                                  /\ redemptions' = [redemptions EXCEPT ![t] = row]
<1>1. /\ UNCHANGED accountVars /\ wins' = wins /\ Hand(t)
  BY DEF Redeem, OfflineRedeem
<1>2. /\ wins[t] \in WinRow /\ redemptions[t] \in CodeRows
      /\ PrizeOK(wins[t], redemptions[t]) /\ id \in Identity
  BY PrizesOK DEF IInv, TypeOK, AccountsTypeOK
<1>3. redemptions[t].status # "used" /\ wins[t].mode # "none"
  BY <1>2 DEF Redeem, Matches, OfflineRedeem, CanMarkOffline, PrizeOK
<1>4. PICK row \in CodeRows : /\ row.status = "used" /\ PrizeOK(wins[t], row)
                              /\ redemptions' = [redemptions EXCEPT ![t] = row]
  <2>1. CASE Redeem(id, t)
    <3> DEFINE row == [redemptions[t] EXCEPT !.status = "used", !.usedBy = id]
    <3>1. row \in CodeRows /\ row.status = "used"
      BY <1>2 DEF CodeRows
    <3>2. redemptions' = [redemptions EXCEPT ![t] = row]
      BY <2>1 DEF Redeem, IInv, TypeOK
    <3>3. redemptions[t].tenant = id.tenant /\ redemptions[t].status = "unused"
          /\ id.role = "admin"
      BY <2>1 DEF Redeem, Matches, MustAdmin
    <3>4. PrizeOK(wins[t], row)
      BY <1>2, <3>3 DEF PrizeOK, CodeRows
    <3> QED
      BY <3>1, <3>2, <3>4
  <2>2. CASE OfflineRedeem(id, t)
    <3> DEFINE row == [CodeRow(t) EXCEPT !.status = "used", !.usedBy = id]
    <3>1. row \in CodeRows /\ row.status = "used"
      BY <1>2 DEF CodeRows, CodeRow, WinRow
    <3>2. redemptions' = [redemptions EXCEPT ![t] = row]
      BY <2>2 DEF OfflineRedeem
    <3>3. wins[t].mode = "live" /\ wins[t].tenant = id.tenant /\ id.role = "admin"
      BY <2>2 DEF OfflineRedeem, CanMarkOffline, MustAdmin
    <3>4. PrizeOK(wins[t], row)
      BY <1>2, <3>3 DEF PrizeOK, CodeRow
    <3> QED
      BY <3>1, <3>2, <3>4
  <2> QED
    BY <2>1, <2>2
<1>5. IInv'
  BY <1>1, <1>4, HandKeeps, RowKeeps
<1> QED
  BY <1>1, <1>3, <1>4, <1>5

LEMMA FillKeeps ==
  ASSUME IInv, NEW t \in Tokens, NEW id \in tokens, NEW a \in Addresses, FillAddress(id, t, a)
  PROVE  /\ IInv' /\ wins' = wins /\ handed' = handed
         /\ redemptions[t].status = "unused"
         /\ \E row \in CodeRows : /\ row.status = "unused"
                                  /\ redemptions' = [redemptions EXCEPT ![t] = row]
<1> DEFINE row == [redemptions[t] EXCEPT !.address = a]
<1>1. redemptions[t] \in CodeRows /\ PrizeOK(wins[t], redemptions[t])
      /\ redemptions[t].status = "unused"
  BY PrizesOK DEF FillAddress, OwnUnused
<1>2. row \in CodeRows /\ row.status = "unused" /\ PrizeOK(wins[t], row)
  BY <1>1 DEF CodeRows, PrizeOK
<1>3. /\ UNCHANGED accountVars /\ wins' = wins /\ handed' = handed
      /\ handed' \in [Tokens -> Nat] /\ redemptions' = [redemptions EXCEPT ![t] = row]
  BY DEF FillAddress, IInv, TypeOK
<1> HIDE DEF row
<1>4. IInv'
  BY <1>2, <1>3, RowKeeps
<1> QED
  BY <1>1, <1>2, <1>3, <1>4
-----------------------------------------------------------------------------
(* The theorems.                                                           *)

LEMMA Initially == Init => IInv
<1> SUFFICES ASSUME Init PROVE IInv
  OBVIOUS
<1>1. AccountsTypeOK /\ Named /\ TokensTrue
  BY DEF Init, AccountsInit, AccountsTypeOK, Named, TokensTrue
<1>2. \A t \in TenantNames : Claimed(t)
  BY DEF Init, AccountsInit, Claimed, AdminsOf, PendingOf
<1>3. TypeOK
  BY <1>1 DEF Init, NoWin, NoRow, TypeOK
<1>4. Won /\ WithinTenant
  BY DEF Init, NoWin, NoRow, Won, WithinTenant
<1> QED
  BY <1>1, <1>2, <1>3, <1>4 DEF IInv, AccountsInv

LEMMA Inductive == IInv /\ [Next]_vars => IInv'
<1> SUFFICES ASSUME IInv, [Next]_vars PROVE IInv'
  OBVIOUS
<1>1. CASE AccountsNext /\ UNCHANGED <<wins, redemptions, handed>>
  <2>1. AccountsInv'
    BY <1>1, AccountsKeep DEF IInv
  <2> QED
    BY <1>1, <2>1 DEF IInv, AccountsInv, TypeOK, Won, WithinTenant
<1>2. CASE UNCHANGED vars
  <2>1. AccountsInv'
    BY <1>2, AccountsStay DEF IInv, vars
  <2> QED
    BY <1>2, <2>1 DEF IInv, AccountsInv, TypeOK, Won, WithinTenant, vars
<1> QED
  BY <1>1, <1>2, WinKeeps, RecordKeeps, UndoKeeps, IssueKeeps, SettleKeeps, FillKeeps DEF Next, PrizeNext

LEMMA IInvHolds == Spec => []IInv
BY Initially, Inductive, PTL DEF Spec

\* Rows and tokens have the shape of the tables.
THEOREM RedeemTypes == Spec => []TypeOK
<1>1. IInv => TypeOK
  BY DEF IInv
<1> QED
  BY <1>1, IInvHolds, PTL

\* A tenant has one admin, however many requests ask for its name at once.
THEOREM OneAdminPerTenant == Spec => []OneAdmin
<1>1. IInv => OneAdmin
  <2> SUFFICES ASSUME IInv, NEW t \in TenantNames
               PROVE  Cardinality(AdminsOf(t)) + Cardinality(PendingOf(t)) <= 1
    BY DEF OneAdmin, AdminsOf, PendingOf
  <2>0. Claimed(t)
    BY DEF IInv, AccountsInv
  <2>1. ASSUME NEW S, \A x, y \in S : x = y PROVE S = {} \/ \E x : S = {x}
    BY <2>1
  <2>2. ASSUME NEW S, S = {} \/ \E x : S = {x}
        PROVE  Cardinality(S) \in {0, 1} /\ (S = {} => Cardinality(S) = 0)
    BY <2>2, FS_EmptySet, FS_Singleton
  <2>3. /\ Cardinality(AdminsOf(t)) \in {0, 1}
        /\ AdminsOf(t) = {} => Cardinality(AdminsOf(t)) = 0
    BY <2>0, <2>1, <2>2 DEF Claimed
  <2>4. /\ Cardinality(PendingOf(t)) \in {0, 1}
        /\ PendingOf(t) = {} => Cardinality(PendingOf(t)) = 0
    BY <2>0, <2>1, <2>2 DEF Claimed
  <2> QED
    BY <2>0, <2>3, <2>4 DEF Claimed
<1> QED
  BY <1>1, IInvHolds, PTL

\* A token says what the row of its account says, as long as it is valid.
THEOREM TokensStayTrue == Spec => []TokensTrue
<1>1. IInv => TokensTrue
  BY DEF IInv, AccountsInv
<1> QED
  BY <1>1, IInvHolds, PTL

\* A prize is settled by an admin of the tenant in which it was won, and for the
\* account that won it.
THEOREM NothingCrossesTenants == Spec => []WithinTenant
<1>1. IInv => WithinTenant
  BY DEF IInv
<1> QED
  BY <1>1, IInvHolds, PTL

\* What a step does to rows that are used: nothing.
LEMMA UsedRowsStay ==
  ASSUME IInv, [Next]_vars, NEW t \in Tokens, redemptions[t].status = "used"
  PROVE  redemptions'[t] = redemptions[t]
<1>1. CASE redemptions' = redemptions
  BY <1>1
<1>2. ASSUME NEW s \in Tokens, NEW row \in CodeRows, redemptions[s].status # "used",
             redemptions' = [redemptions EXCEPT ![s] = row]
      PROVE  redemptions'[t] = redemptions[t]
  BY <1>2
<1>3. ASSUME NEW s \in Tokens, IssueRedeem(s) PROVE redemptions'[t] = redemptions[t]
  BY <1>3 DEF IssueRedeem
<1>4. ASSUME NEW s \in Tokens, NEW id \in tokens, Redeem(id, s) \/ OfflineRedeem(id, s)
      PROVE  redemptions'[t] = redemptions[t]
  BY <1>2, <1>4, SettleKeeps
<1>5. ASSUME NEW s \in Tokens, NEW id \in tokens, NEW a \in Addresses, FillAddress(id, s, a)
      PROVE  redemptions'[t] = redemptions[t]
  BY <1>2, <1>5, FillKeeps
<1> QED
  BY <1>1, <1>3, <1>4, <1>5 DEF Next, PrizeNext, Win, Record, Undo, vars

\* What is settled stays as it is, for good.
THEOREM SettledStays == Spec => SettledForGood
<1>1. IInv /\ [Next]_vars =>
        \A t \in Tokens : redemptions[t].status = "used" => redemptions'[t] = redemptions[t]
  BY UsedRowsStay
<1> QED
  BY <1>1, IInvHolds, PTL DEF Spec, SettledForGood
-----------------------------------------------------------------------------
(* Redeem implements Award.                                                *)

ClaimOf(win, row) == IF row.status = "used" THEN "settled"
                     ELSE IF win.mode = "none" THEN "none" ELSE "open"

LEMMA ClaimFields == /\ DOMAIN Claim = Tokens
                     /\ \A t \in Tokens : Claim[t] = ClaimOf(wins[t], redemptions[t])
BY DEF Claim, ClaimOf

LEMMA ClaimsStay ==
  ASSUME \A t \in Tokens : ClaimOf(wins'[t], redemptions'[t]) = ClaimOf(wins[t], redemptions[t])
  PROVE  Claim' = Claim
BY DEF Claim, ClaimOf

LEMMA ClaimMoves ==
  ASSUME NEW t \in Tokens,
         \A s \in Tokens : s # t =>
            ClaimOf(wins'[s], redemptions'[s]) = ClaimOf(wins[s], redemptions[s])
  PROVE  Claim' = [Claim EXCEPT ![t] = ClaimOf(wins'[t], redemptions'[t])]
BY DEF Claim, ClaimOf

LEMMA AwardInit == Init => A!Init
BY DEF Init, A!Init, Claim, NoWin, NoRow

\* A winner opens a claim, the two statements that settle a row settle it, and
\* everything else stutters.
LEMMA AwardStep == IInv /\ [Next]_vars => [A!Next]_<<Claim, handed>>
<1> SUFFICES ASSUME IInv, [Next]_vars PROVE A!Next \/ (Claim' = Claim /\ handed' = handed)
  OBVIOUS
<1>0. \A t \in Tokens : /\ wins[t] \in WinRow /\ redemptions[t] \in CodeRows
                        /\ PrizeOK(wins[t], redemptions[t])
  BY PrizesOK
<1>1. CASE UNCHANGED <<wins, redemptions, handed>>
  BY <1>1 DEF Claim
<1>2. ASSUME NEW t \in Tokens, Win(t) PROVE A!Next
  <2>1. redemptions' = redemptions /\ handed' = handed
    BY <1>2 DEF Win
  <2>2. wins'[t].mode \in {"popped", "scheduled"}
        /\ \A s \in Tokens : s # t => wins'[s] = wins[s]
    BY <1>2 DEF Win, IInv, TypeOK
  <2>3. wins[t].mode = "none" /\ redemptions[t].status = "none"
    BY <1>0, <1>2 DEF Win, PrizeOK
  <2>4. Claim[t] = "none" /\ Claim' = [Claim EXCEPT ![t] = "open"]
    BY <2>1, <2>2, <2>3, ClaimFields, ClaimMoves DEF ClaimOf
  <2> QED
    BY <2>1, <2>4 DEF A!Next, A!Open
<1>3. ASSUME NEW t \in Tokens, Undo(t) PROVE Claim' = Claim /\ handed' = handed
  <2>1. redemptions' = redemptions /\ handed' = handed
    BY <1>3 DEF Undo
  <2>2. wins'[t].mode = "undone" /\ wins[t].mode = "live"
        /\ \A s \in Tokens : s # t => wins'[s] = wins[s]
    BY <1>0, <1>3 DEF Undo, IInv, TypeOK, WinRow
  <2> QED
    BY <2>1, <2>2, ClaimsStay DEF ClaimOf
<1>4. ASSUME NEW t \in Tokens, IssueRedeem(t) PROVE Claim' = Claim /\ handed' = handed
  <2>1. wins' = wins /\ handed' = handed /\ redemptions[t].status = "none"
    BY <1>4 DEF IssueRedeem
  <2>2. redemptions'[t].status = "unused"
        /\ \A s \in Tokens : s # t => redemptions'[s] = redemptions[s]
    BY <1>4 DEF IssueRedeem, CodeRow, IInv, TypeOK
  <2> QED
    BY <2>1, <2>2, ClaimsStay DEF ClaimOf
<1>5. ASSUME NEW t \in Tokens, NEW id \in tokens, Redeem(id, t) \/ OfflineRedeem(id, t)
      PROVE  A!Next
  <2>1. /\ wins' = wins /\ Hand(t)
        /\ redemptions[t].status # "used" /\ wins[t].mode # "none"
    BY <1>5, SettleKeeps
  <2>2. PICK row \in CodeRows : /\ row.status = "used"
                                /\ redemptions' = [redemptions EXCEPT ![t] = row]
    BY <1>5, SettleKeeps
  <2>3. redemptions'[t].status = "used"
        /\ \A s \in Tokens : s # t => redemptions'[s] = redemptions[s]
    BY <2>2 DEF IInv, TypeOK
  <2>4. Claim[t] = "open" /\ Claim' = [Claim EXCEPT ![t] = "settled"]
    BY <2>1, <2>3, ClaimFields, ClaimMoves DEF ClaimOf
  <2> QED
    BY <2>1, <2>4 DEF A!Next, A!Settle, Hand
<1>6. ASSUME NEW t \in Tokens, NEW id \in tokens, NEW a \in Addresses, FillAddress(id, t, a)
      PROVE  Claim' = Claim /\ handed' = handed
  <2>1. /\ wins' = wins /\ handed' = handed /\ redemptions[t].status = "unused"
    BY <1>6, FillKeeps
  <2>2. PICK row \in CodeRows : /\ row.status = "unused"
                                /\ redemptions' = [redemptions EXCEPT ![t] = row]
    BY <1>6, FillKeeps
  <2>3. redemptions'[t].status = "unused"
        /\ \A s \in Tokens : s # t => redemptions'[s] = redemptions[s]
    BY <2>2 DEF IInv, TypeOK
  <2> QED
    BY <2>1, <2>3, ClaimsStay DEF ClaimOf
<1>7. ASSUME NEW t \in Tokens, Record(t) PROVE Claim' = Claim /\ handed' = handed
  <2>1. redemptions' = redemptions /\ handed' = handed
    BY <1>7 DEF Record
  <2>2. wins'[t].mode = "live" /\ wins[t].mode = "popped"
        /\ \A s \in Tokens : s # t => wins'[s] = wins[s]
    BY <1>0, <1>7 DEF Record, IInv, TypeOK, WinRow
  <2> QED
    BY <2>1, <2>2, ClaimsStay DEF ClaimOf
<1> QED
  BY <1>1, <1>2, <1>3, <1>4, <1>5, <1>6, <1>7 DEF Next, PrizeNext, vars

\* Through either way, by whoever and however often it is tried again, a prize is
\* settled at most once and handed out at most once.
THEOREM RedeemIsAward == Spec => RefinesAward
BY AwardInit, AwardStep, IInvHolds, PTL DEF Spec, RefinesAward, A!Spec
=============================================================================
