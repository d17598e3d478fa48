------------------------------ MODULE Accounts ------------------------------
(***************************************************************************)
(* Tenants, their accounts and the tokens that carry an identity           *)
(* (App.RegisterTenant, RegisterUser and Login; tokenkit.Issue; MustAdmin  *)
(* and MustUser in internal/ctxdata).  RegisterTenant writes the tenant    *)
(* and its admin in two statements without a transaction.                  *)
(*                                                                         *)
(* Abstracted: a tenant's id is its name and a user's id its tenant and    *)
(* account, both of which a unique key protects; passwords and bcrypt; the *)
(* expiry of a token, which only removes tokens; the status columns of     *)
(* tenants and users, which no code changes.                               *)
(***************************************************************************)
EXTENDS Naturals, FiniteSets

CONSTANTS
    TenantNames,
    AccountNames,
    Registrars,     \* handlers of RegisterTenant, each serving one request
    None

ASSUME AccountsAssumption == None \notin TenantNames

VARIABLES
    tenants,        \* tenants: the names with a row
    users,          \* users: rows [tenant, account, role]
    tokens,         \* identities of the tokens that were issued
    reg             \* the RegisterTenant handlers

accountVars == <<tenants, users, tokens, reg>>

Identity == [tenant : TenantNames, account : AccountNames, role : {"admin", "user"}]

AccountsTypeOK ==
    /\ tenants \in SUBSET TenantNames
    /\ users \in SUBSET Identity
    /\ tokens \in SUBSET Identity
    /\ reg \in [Registrars -> [at : {"new", "admin", "done"},
                               tenant : TenantNames \cup {None}]]

\* Store.UserByAccount: at most one row, by uk_users_tenant_account
UserByAccount(tenant, account) == {u \in users : u.tenant = tenant /\ u.account = account}

\* Store.InsertUser: nothing when the tenant has the account
InsertUser(id) == users' = IF UserByAccount(id.tenant, id.account) = {}
                           THEN users \cup {id} ELSE users

\* tokenkit.Issue: the claims of a token are this identity
Issue(ids) == tokens' = tokens \cup ids

\* An admin of the tenant exists, who may have made an activity
HasAdmin(tenant) == \E a \in users : a.tenant = tenant /\ a.role = "admin"

\* Mutant: the duplicate name is not noticed.
InsertTenantTaken(r) ==
    /\ reg[r].at = "new"
    /\ \E name \in TenantNames :
          /\ tenants' = tenants \cup {name}
          /\ reg' = [reg EXCEPT ![r] = [at |-> "admin", tenant |-> name]]
    /\ UNCHANGED <<users, tokens>>

\* InsertTenant: a name that has a row is refused (ErrTenantTaken)
InsertTenant(r) ==
    /\ reg[r].at = "new"
    /\ \E name \in TenantNames :
          IF name \in tenants
          THEN /\ reg' = [reg EXCEPT ![r].at = "done"]
               /\ UNCHANGED tenants
          ELSE /\ tenants' = tenants \cup {name}
               /\ reg' = [reg EXCEPT ![r] = [at |-> "admin", tenant |-> name]]
    /\ UNCHANGED <<users, tokens>>

\* InsertUser for the admin, and their first token
InsertAdmin(r) ==
    /\ reg[r].at = "admin"
    /\ \E account \in AccountNames :
          LET id == [tenant |-> reg[r].tenant, account |-> account, role |-> "admin"]
          IN InsertUser(id) /\ Issue(users' \cap {id})
    /\ reg' = [reg EXCEPT ![r].at = "done"]
    /\ UNCHANGED tenants

\* The process stops, the insert fails, or bcrypt refuses a password of more than
\* 72 bytes, which validateAccount lets through: the tenant's row stays
RegisterFails(r) ==
    /\ reg[r].at = "admin"
    /\ reg' = [reg EXCEPT ![r].at = "done"]
    /\ UNCHANGED <<tenants, users, tokens>>

\* An account registers through an activity, which an admin of its tenant made
RegisterUser(tenant, account) ==
    /\ HasAdmin(tenant)
    /\ UserByAccount(tenant, account) = {}
    /\ LET id == [tenant |-> tenant, account |-> account, role |-> "user"]
       IN InsertUser(id) /\ Issue({id})
    /\ UNCHANGED <<tenants, reg>>

\* The row of the name and account decides tenant and role of the token
Login(tenant, account) ==
    /\ tenant \in tenants
    /\ Issue(UserByAccount(tenant, account))
    /\ UNCHANGED <<tenants, users, reg>>

MustAdmin(id) == id \in tokens /\ id.role = "admin"
MustUser(id) == id \in tokens /\ id.role = "user"

AccountsInit ==
    /\ tenants = {}
    /\ users = {}
    /\ tokens = {}
    /\ reg = [r \in Registrars |-> [at |-> "new", tenant |-> None]]

AccountsNext ==
    \/ \E r \in Registrars : InsertTenant(r) \/ InsertAdmin(r) \/ RegisterFails(r)
    \/ \E t \in TenantNames, a \in AccountNames : RegisterUser(t, a) \/ Login(t, a)

-----------------------------------------------------------------------------
(* Properties                                                                *)

\* A tenant has one admin, the one whose request made its row, however many
\* requests ask for the name at once: a refused one never goes on to the account.
OneAdmin == \A t \in TenantNames :
               Cardinality({u \in users : u.tenant = t /\ u.role = "admin"})
                 + Cardinality({r \in Registrars : reg[r].at = "admin" /\ reg[r].tenant = t})
                    <= 1

\* A token says what the row of its account says, for good.
TokensTrue == tokens \subseteq users

\* A tenant whose registration is over has an admin.  Does not hold:
\* RegisterTenant may stop between its two statements, and the name is taken.
EveryTenantHasAdmin ==
    \A t \in tenants : \/ HasAdmin(t)
                       \/ \E r \in Registrars : reg[r].at = "admin" /\ reg[r].tenant = t
=============================================================================
