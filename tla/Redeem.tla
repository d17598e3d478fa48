------------------------------- MODULE Redeem -------------------------------
(***************************************************************************)
(* Handing out prizes: the table redemptions beside the winners            *)
(* (App.issueRedeem, Redeem, OfflineRedeem, FillAddress and MyPrizes in    *)
(* src/internal/service/app.go, Store.RedeemCAS, MarkOfflineUsed,          *)
(* InsertRedemption and FillAddress in src/internal/store/db.go), with the *)
(* callers' identities from Accounts.  Every operation is one statement;   *)
(* the answer to it may be lost.                                           *)
(*                                                                         *)
(* Abstracted: a code is the token it belongs to, in lower case, as        *)
(* issueRedeem stores it; Redeem looks up what it is typed in upper case,  *)
(* which is the same only when the code has no letter (AllDigits).         *)
(***************************************************************************)
EXTENDS Accounts

CONSTANTS
    Tokens,         \* prize tokens
    AllDigits,      \* the tokens whose redeem code has no letter
    Addresses

ASSUME RedeemAssumption ==
    /\ AllDigits \subseteq Tokens
    /\ None \notin AccountNames \cup Addresses

VARIABLES
    wins,           \* draw_records and scheduled_winners, by token
    redemptions,    \* redemptions, by draw_ref
    handed          \* history: how often the prize was handed out, by token

vars == <<accountVars, wins, redemptions, handed>>

NoWin == [mode |-> "none", tenant |-> None, account |-> None]
NoRow == [status |-> "none", tenant |-> None, account |-> None,
          address |-> None, usedBy |-> None]

TypeOK ==
    /\ AccountsTypeOK
    /\ wins \in [Tokens -> [mode : {"none", "popped", "live", "undone",
                                    "scheduled"},
                            tenant : TenantNames \cup {None},
                            account : AccountNames \cup {None}]]
    /\ redemptions \in [Tokens -> [status : {"none", "unused", "used"},
                                   tenant : TenantNames \cup {None},
                                   account : AccountNames \cup {None},
                                   address : Addresses \cup {None},
                                   usedBy : Identity \cup {None}]]
    /\ handed \in [Tokens -> Nat]

\* An OK answer hands the prize out; a lost one does not
Hand(t) == \/ handed' = [handed EXCEPT ![t] = @ + 1]
           \/ UNCHANGED handed

-----------------------------------------------------------------------------
(* The draws (modules LiveDraw and Scheduled): a winner with an account or an *)
(* imported one without, in an activity of a tenant that has an admin.  One   *)
(* popped by a live draw has no row of draw_records yet.                      *)
Win(t) ==
    /\ wins[t].mode = "none"
    /\ \E mode \in {"popped", "scheduled"}, tenant \in TenantNames,
          account \in AccountNames \cup {None} :
          /\ HasAdmin(tenant)
          /\ account # None => [tenant |-> tenant, account |-> account, role |-> "user"] \in users
          /\ wins' = [wins EXCEPT ![t] = [mode |-> mode, tenant |-> tenant, account |-> account]]
    /\ UNCHANGED <<accountVars, redemptions, handed>>

\* persistDraw writes the row: at once, or when the worker replays it.
Record(t) ==
    /\ wins[t].mode = "popped"
    /\ wins' = [wins EXCEPT ![t].mode = "live"]
    /\ UNCHANGED <<accountVars, redemptions, handed>>

\* MarkLiveUndone, which leaves redemptions alone
Undo(t) ==
    /\ wins[t].mode = "live"
    /\ wins' = [wins EXCEPT ![t].mode = "undone"]
    /\ UNCHANGED <<accountVars, redemptions, handed>>

\* Store.InsertRedemption, as issueRedeem calls it for a winner
CodeRow(t) == [status |-> "unused", tenant |-> wins[t].tenant, account |-> wins[t].account,
               address |-> None, usedBy |-> None]

\* issueRedeem by the draw that made the winner, whether its row could be written
\* or waits in persist_failures; it may fail, and uk_redeem_draw refuses a second
\* row
IssueRedeem(t) ==
    /\ wins[t].account # None
    /\ redemptions[t].status = "none"
    /\ redemptions' = [redemptions EXCEPT ![t] = CodeRow(t)]
    /\ UNCHANGED <<accountVars, wins, handed>>

-----------------------------------------------------------------------------
(* Store.RedeemCAS and App.Redeem: the code as typed, in upper case           *)
\* Mutant: the WHERE clause has no tenant.
MatchesAnyTenant(id, t) ==
    /\ t \in AllDigits
    /\ redemptions[t].status = "unused"

\* Mutant: the WHERE clause has no status.
MatchesAnyStatus(id, t) ==
    /\ t \in AllDigits
    /\ redemptions[t].status # "none"
    /\ redemptions[t].tenant = id.tenant

Matches(id, t) ==
    /\ t \in AllDigits
    /\ redemptions[t].status = "unused"
    /\ redemptions[t].tenant = id.tenant

Redeem(id, t) ==
    /\ MustAdmin(id)
    /\ Matches(id, t)
    /\ redemptions' = [redemptions EXCEPT ![t].status = "used", ![t].usedBy = id]
    /\ Hand(t)
    /\ UNCHANGED <<accountVars, wins>>

(* MarkOfflineUsed and App.OfflineRedeem: a used row selected from            *)
(* draw_records, which has no scheduled winner; uk_redeem_draw refuses it     *)
(* when the prize has a row, even an unused one (ErrRedeemed)                 *)
CanMarkOffline(id, t) ==
    /\ wins[t].mode = "live"
    /\ wins[t].tenant = id.tenant
    /\ redemptions[t].status = "none"

OfflineRedeem(id, t) ==
    /\ MustAdmin(id)
    /\ CanMarkOffline(id, t)
    /\ redemptions' = [redemptions EXCEPT ![t] =
                         [CodeRow(t) EXCEPT !.status = "used", !.usedBy = id]]
    /\ Hand(t)
    /\ UNCHANGED <<accountVars, wins>>

(* FillAddress: only the winner's own row and only while it is unused.  MySQL *)
(* counts changed rows, so the same address again is answered "not found".    *)
\* Mutant: an address may be filled in after the prize was handed out.
OwnAny(id, t) ==
    /\ redemptions[t].status # "none"
    /\ redemptions[t].tenant = id.tenant
    /\ redemptions[t].account = id.account

OwnUnused(id, t) ==
    /\ redemptions[t].status = "unused"
    /\ redemptions[t].tenant = id.tenant
    /\ redemptions[t].account = id.account

FillAddress(id, t, address) ==
    /\ MustUser(id)
    /\ OwnUnused(id, t)
    /\ redemptions' = [redemptions EXCEPT ![t].address = address]
    /\ UNCHANGED <<accountVars, wins, handed>>

(* Store.MyPrizes: the caller's prizes, from draw_records alone               *)
MyPrizes(id) == {t \in Tokens : /\ wins[t].mode = "live"
                                /\ wins[t].tenant = id.tenant
                                /\ wins[t].account = id.account}

Init ==
    /\ AccountsInit
    /\ wins = [t \in Tokens |-> NoWin]
    /\ redemptions = [t \in Tokens |-> NoRow]
    /\ handed = [t \in Tokens |-> 0]

PrizeNext ==
    \/ \E t \in Tokens : Win(t) \/ Record(t) \/ Undo(t) \/ IssueRedeem(t)
    \/ \E t \in Tokens, id \in tokens :
          \/ Redeem(id, t)
          \/ OfflineRedeem(id, t)
          \/ \E a \in Addresses : FillAddress(id, t, a)

Next ==
    \/ AccountsNext /\ UNCHANGED <<wins, redemptions, handed>>
    \/ PrizeNext

Spec == Init /\ [][Next]_vars

-----------------------------------------------------------------------------
(* Properties                                                                *)

\* The table implements the award: a prize is settled once, by either way and
\* whoever retries, and handed out at most once.
Claim == [t \in Tokens |-> IF redemptions[t].status = "used" THEN "settled"
                           ELSE IF wins[t].mode = "none" THEN "none" ELSE "open"]
A == INSTANCE Award WITH claim <- Claim
RefinesAward == A!Spec

\* A settled row is never written again: neither its address, nor who settled it,
\* nor its status, though its batch be undone.
SettledForGood ==
    [][\A t \in Tokens : redemptions[t].status = "used" => redemptions'[t] = redemptions[t]]_vars

\* Nothing crosses tenants: the row of a prize is of the tenant and account that
\* won it, and who settled it was an admin of that tenant.
WithinTenant ==
    \A t \in Tokens : redemptions[t].status # "none" =>
       /\ redemptions[t].tenant = wins[t].tenant
       /\ redemptions[t].account = wins[t].account
       /\ redemptions[t].usedBy # None =>
             /\ redemptions[t].usedBy.tenant = wins[t].tenant
             /\ redemptions[t].usedBy.role = "admin"

\* A prize that was won and not settled can be settled, by its code or offline.
\* Does not hold: a code with a letter never matches, its row keeps the offline
\* way shut, and a scheduled winner without an account has no way at all.
Payable ==
    \A t \in Tokens : wins[t].mode \in {"live", "scheduled"} /\ Claim[t] = "open" =>
       \E id \in users : Matches(id, t) \/ CanMarkOffline(id, t)

\* A winner with an account finds the prize in their list.  Does not hold for
\* scheduled winners.
SeesPrizes ==
    \A t \in Tokens, id \in users :
       wins[t].mode \in {"live", "scheduled"} /\ wins[t].tenant = id.tenant
          /\ wins[t].account = id.account => t \in MyPrizes(id)

\* What is handed out was not taken back.  Does not hold: the code of an undone
\* batch stays usable.
NotHandedUndone ==
    [][\A t \in Tokens : wins[t].mode = "undone" => handed'[t] = handed[t]]_vars
=============================================================================
