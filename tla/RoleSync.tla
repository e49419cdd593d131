------------------------------ MODULE RoleSync ------------------------------
(***************************************************************************)
(* Who may enter a tenant: the `tenant-member` role on the tenant's        *)
(* Keycloak client, which three actors hand out to its owner: provisioning *)
(* (under the tenant's advisory lock), the portal's sign-in, which links   *)
(* an account of the local-auth era to a Keycloak user and sweeps the      *)
(* account's tenants, and the background loop that retries such sweeps.    *)
(* Portal signup is here too, with its rollback, because it creates and    *)
(* deletes the tenants the sweeps are about.                               *)
(*                                                                         *)
(* One step per statement or Keycloak call.  The two statements of a link  *)
(* and of an auto-create are one step: a link, once made, stays.  A        *)
(* tenant's state column is not here (TenantLifecycle): provisioning and   *)
(* deprovisioning start whenever the tenant's lock is free.                *)
(***************************************************************************)
EXTENDS Naturals

CONSTANTS
    Accounts,       \* identifiers of portal accounts
    Users,          \* Keycloak users, each named by its `sub`
    Emails,         \* email addresses
    EmailOf,        \* the address of a Keycloak user, or NoEmail
    Tenants,        \* identifiers of tenants
    Handlers,       \* portal requests in flight
    Retrier,        \* the background retry loop
    Operator,       \* the operator's requests
    NoEmail, NoUser, NoAccount, NoTenant,
    MaxRuns,        \* bound: provisioning runs in a behaviour
    MaxFaults       \* bound: failed calls and restarts in a behaviour

ASSUME EmailAssumption == EmailOf \in [Users -> Emails \cup {NoEmail}] /\ NoEmail \notin Emails
ASSUME NamesAssumption ==
    /\ Retrier \notin Handlers /\ Operator \notin Handlers
    /\ NoUser \notin Users /\ NoAccount \notin Accounts /\ NoTenant \notin Tenants
    /\ Accounts \cap Users = {} /\ NoAccount \notin Users
ASSUME BoundsAssumption == MaxRuns \in Nat /\ MaxFaults \in Nat

VARIABLES
    users,      \* the users registered in Keycloak
    accounts,   \* the registry's portal accounts
    tenants,    \* the registry's tenants
    clients,    \* Keycloak's client of each tenant
    run,        \* what holds each tenant's advisory lock, and its next step
    work,       \* the portal requests and the retry loop
    queue,      \* accounts the retry loop's tick has yet to see to
    runs,       \* provisioning runs so far
    faults      \* failed calls and restarts so far

vars == <<users, accounts, tenants, clients, run, work, queue, runs, faults>>

Workers   == Handlers \cup {Retrier}
Addresses == Emails \cup {NoEmail}
(* A tenant's owner is an account, or the Keycloak user an operator picked. *)
Owners    == Accounts \cup Users
Subjects  == Users \cup {NoUser}

(* email = NoEmail: there is no such row.                                  *)
Account == [email: Addresses, user: Subjects, sync: {"pending", "complete"}]
Tenant  == [at: {"free", "stored", "deleted"}, owner: Owners \cup {NoAccount}, admin: Addresses]
(* id: the run that created the client, 0 if there is none.  ready: a run  *)
(* has been through all its Keycloak steps on this client.                 *)
Client  == [id: 0 .. MaxRuns, role: BOOLEAN, ready: BOOLEAN, holders: SUBSET Users]
Run     == [at: {"idle", "client", "role", "owner", "assign", "delete"},
            by: Handlers \cup {Operator}, id: 0 .. MaxRuns, user: Subjects]

SigningIn == {"byEmail", "link", "create"}
Sweeping  == {"list", "next", "look", "role", "post", "mark"}
SigningUp == {"signed", "provision", "running", "settle", "undo", "undoing", "remove"}
Work == [at: {"idle", "account"} \cup SigningIn \cup Sweeping \cup SigningUp,
         user: Subjects, acct: Accounts \cup {NoAccount}, todo: SUBSET Tenants,
         t: Tenants \cup {NoTenant}, id: 0 .. MaxRuns, ok: BOOLEAN]

NoClient == [id |-> 0, role |-> FALSE, ready |-> FALSE, holders |-> {}]
NoRun    == [at |-> "idle", by |-> Operator, id |-> 0, user |-> NoUser]
Idle     == [at |-> "idle", user |-> NoUser, acct |-> NoAccount, todo |-> {},
             t |-> NoTenant, id |-> 0, ok |-> TRUE]
NoRow    == [email |-> NoEmail, user |-> NoUser, sync |-> "complete"]
NoTenantRow == [at |-> "free", owner |-> NoAccount, admin |-> NoEmail]

(* Accounts of the local-auth era have an address and no Keycloak user.    *)
Init ==
    /\ users = {}
    /\ \E S \in SUBSET Accounts :
        \E address \in [S -> Emails] :
            /\ \A a, b \in S : a # b => address[a] # address[b]
            /\ accounts = [a \in Accounts |->
                              IF a \in S THEN [NoRow EXCEPT !.email = address[a]] ELSE NoRow]
    /\ tenants = [t \in Tenants |-> NoTenantRow]
    /\ clients = [t \in Tenants |-> NoClient]
    /\ run = [t \in Tenants |-> NoRun]
    /\ work = [w \in Workers |-> Idle]
    /\ queue = {}
    /\ runs = 0
    /\ faults = 0

-----------------------------------------------------------------------------
Fault == faults < MaxFaults /\ faults' = faults + 1

Goto(w, to)  == work' = [work EXCEPT ![w].at = to]
Become(w, x) == work' = [work EXCEPT ![w] = x]

Known(a) == accounts[a].email # NoEmail

Owned(a) == {t \in Tenants : tenants[t].at = "stored" /\ tenants[t].owner = a}

(* Keycloak's own: somebody registers.                                     *)
Register(u) ==
    /\ u \notin users
    /\ users' = users \cup {u}
    /\ UNCHANGED <<accounts, tenants, clients, run, work, queue, runs, faults>>

-----------------------------------------------------------------------------
(* The portal's sign-in, on every portal request.                          *)

(* The account is looked up by the token's `sub` first.                    *)
SignIn(h, u) ==
    /\ work[h].at = "idle"
    /\ u \in users
    /\ \/ \E a \in Accounts : accounts[a].user = u
                /\ Become(h, [Idle EXCEPT !.at = "signed", !.user = u, !.acct = a])
       \/ /\ \A a \in Accounts : accounts[a].user # u
          /\ EmailOf[u] # NoEmail
          /\ Become(h, [Idle EXCEPT !.at = "byEmail", !.user = u])
    /\ UNCHANGED <<users, accounts, tenants, clients, run, queue, runs, faults>>

ByEmail(h) ==
    LET Match == {a \in Accounts : accounts[a].email = EmailOf[work[h].user]} IN
    /\ work[h].at = "byEmail"
    /\ \/ \E a \in Match : work' = [work EXCEPT ![h].at = "link", ![h].acct = a]
       \/ Match = {} /\ Goto(h, "create")
    /\ UNCHANGED <<users, accounts, tenants, clients, run, queue, runs, faults>>

(* Variant: the link does not leave the mark.                              *)
LinkQuietly(h) ==
    LET a == work[h].acct IN
    /\ work[h].at = "link"
    /\ accounts[a].user = NoUser
    /\ accounts' = [accounts EXCEPT ![a].user = work[h].user]
    /\ Goto(h, "list")
    /\ UNCHANGED <<users, tenants, clients, run, queue, runs, faults>>

(* Variant: an UPDATE without its condition.                               *)
LinkOver(h) ==
    LET a == work[h].acct IN
    /\ work[h].at = "link"
    /\ accounts' = [accounts EXCEPT ![a].user = work[h].user, ![a].sync = "pending"]
    /\ Goto(h, "list")
    /\ UNCHANGED <<users, tenants, clients, run, queue, runs, faults>>

(* Bind an unbound account, and leave the mark of the sweep to come.       *)
Link(h) ==
    LET a == work[h].acct
        u == work[h].user
    IN
    /\ work[h].at = "link"
    /\ \/ /\ accounts[a].user = NoUser
          /\ \A b \in Accounts : accounts[b].user # u
          /\ accounts' = [accounts EXCEPT ![a].user = u, ![a].sync = "pending"]
          /\ Goto(h, "list")
       \/ accounts[a].user = u /\ Goto(h, "list") /\ UNCHANGED accounts
       \* Bound to somebody else, or the `sub` to another account.
       \/ /\ accounts[a].user # u
          /\ accounts[a].user # NoUser \/ \E b \in Accounts : accounts[b].user = u
          /\ Become(h, Idle)
          /\ UNCHANGED accounts
    /\ UNCHANGED <<users, tenants, clients, run, queue, runs, faults>>

(* The unique indexes refuse a second row for an address or a `sub`; the   *)
(* loser of a race reads the winner's row, if it has the same `sub`.       *)
Create(h) ==
    LET u == work[h].user
        Same == {a \in Accounts : accounts[a].user = u}
        Taken == Same # {} \/ \E a \in Accounts : accounts[a].email = EmailOf[u]
    IN
    /\ work[h].at = "create"
    /\ \/ /\ ~Taken
          /\ \E a \in Accounts :
                /\ ~Known(a)
                /\ accounts' = [accounts EXCEPT
                                   ![a] = [NoRow EXCEPT !.email = EmailOf[u], !.user = u]]
                /\ work' = [work EXCEPT ![h].at = "signed", ![h].acct = a]
       \/ \E a \in Same : work' = [work EXCEPT ![h].at = "signed", ![h].acct = a]
                          /\ UNCHANGED accounts
       \/ Taken /\ Same = {} /\ Become(h, Idle) /\ UNCHANGED accounts
    /\ UNCHANGED <<users, tenants, clients, run, queue, runs, faults>>

-----------------------------------------------------------------------------
(* A sweep: the role on every tenant the account owns, then the mark.      *)

List(w) ==
    /\ work[w].at = "list"
    /\ work' = [work EXCEPT ![w].at = "next", ![w].todo = Owned(work[w].acct), ![w].ok = TRUE]
    /\ UNCHANGED <<users, accounts, tenants, clients, run, queue, runs, faults>>

(* The sweep is over: a request goes on, the loop takes the next account.  *)
Finish(w) ==
    Become(w, IF w = Retrier THEN [Idle EXCEPT !.at = "account"]
              ELSE [Idle EXCEPT !.at = "signed", !.user = work[w].user, !.acct = work[w].acct])

(* The sweep is done with a tenant.                                        *)
Pass(w, ok) ==
    work' = [work EXCEPT ![w].at = "next", ![w].t = NoTenant, ![w].id = 0, ![w].ok = @ /\ ok]

ListFails(w) ==
    /\ work[w].at = "list"
    /\ Fault
    /\ Finish(w)
    /\ UNCHANGED <<users, accounts, tenants, clients, run, queue, runs>>

NextTenant(w) ==
    /\ work[w].at = "next"
    /\ \/ \E t \in work[w].todo :
            work' = [work EXCEPT ![w].at = "look", ![w].t = t, ![w].todo = @ \ {t}]
       \/ work[w].todo = {} /\ work[w].ok /\ Goto(w, "mark")
       \/ work[w].todo = {} /\ ~work[w].ok /\ Finish(w)
    /\ UNCHANGED <<users, accounts, tenants, clients, run, queue, runs, faults>>

(* Variant: a 404 is one more failure.                                     *)
MissingFails(w) == Pass(w, FALSE)

(* Keycloak answers 404: the loop takes it that there is nothing to give,  *)
(* a sign-in leaves the account to the loop.                               *)
Missing(w) == Pass(w, w = Retrier)

Call(w, call, answer) ==
    /\ work[w].at = call
    /\ answer
    /\ UNCHANGED <<users, accounts, tenants, run, queue, runs, faults>>

(* assignClientRoleToUser: the client, its role, the mapping.              *)
Look(w) ==
    LET c == clients[work[w].t] IN
    Call(w, "look",
         /\ IF c.id # 0 THEN work' = [work EXCEPT ![w].at = "role", ![w].id = c.id]
                        ELSE Missing(w)
         /\ UNCHANGED clients)

Role(w) ==
    LET c == clients[work[w].t] IN
    Call(w, "role",
         /\ IF c.id = work[w].id /\ c.role THEN Goto(w, "post") ELSE Missing(w)
         /\ UNCHANGED clients)

Post(w) ==
    LET t == work[w].t IN
    Call(w, "post",
         IF clients[t].id = work[w].id
         THEN /\ clients' = [clients EXCEPT ![t].holders = @ \cup {work[w].user}]
              /\ Pass(w, TRUE)
         ELSE Missing(w) /\ UNCHANGED clients)

CallFails(w) ==
    /\ work[w].at \in {"look", "role", "post"}
    /\ Fault
    /\ Pass(w, FALSE)
    /\ UNCHANGED <<users, accounts, tenants, clients, run, queue, runs>>

Mark(w) ==
    /\ work[w].at = "mark"
    /\ \/ accounts' = [accounts EXCEPT ![work[w].acct].sync = "complete"] /\ UNCHANGED faults
       \/ Fault /\ UNCHANGED accounts
    /\ Finish(w)
    /\ UNCHANGED <<users, tenants, clients, run, queue, runs>>

-----------------------------------------------------------------------------
(* The retry loop.                                                         *)

(* The timer fires; a tick that finds nothing, or cannot read, waits for   *)
(* the next one.                                                           *)
Tick ==
    /\ work[Retrier].at = "idle"
    /\ queue' = {a \in Accounts : accounts[a].sync = "pending" /\ accounts[a].user # NoUser}
    /\ queue' # {}
    /\ Goto(Retrier, "account")
    /\ UNCHANGED <<users, accounts, tenants, clients, run, runs, faults>>

TickFails ==
    /\ work[Retrier].at = "idle"
    /\ Fault
    /\ UNCHANGED <<users, accounts, tenants, clients, run, work, queue, runs>>

NextAccount ==
    /\ work[Retrier].at = "account"
    /\ \/ \E a \in queue :
            /\ Become(Retrier, [Idle EXCEPT !.at = "list", !.acct = a, !.user = accounts[a].user])
            /\ queue' = queue \ {a}
       \/ queue = {} /\ Become(Retrier, Idle) /\ UNCHANGED queue
    /\ UNCHANGED <<users, accounts, tenants, clients, run, runs, faults>>

-----------------------------------------------------------------------------
(* Provisioning and deprovisioning, the steps that concern Keycloak.       *)

Lock(t, at, by) ==
    /\ run[t].at = "idle"
    /\ \/ at = "client" /\ runs < MaxRuns /\ runs' = runs + 1
       \/ at = "delete" /\ UNCHANGED runs
    /\ run' = [run EXCEPT ![t] = [NoRun EXCEPT !.at = at, !.by = by, !.id = runs']]

Unlock(t) == run' = [run EXCEPT ![t] = NoRun]

(* The lock is given back, and the request that waited goes on.            *)
Report(t, to) ==
    IF run[t].by \in Handlers THEN Goto(run[t].by, to) ELSE UNCHANGED work

EnsureClient(t) ==
    /\ run[t].at = "client"
    /\ clients' = IF clients[t].id = 0 THEN [clients EXCEPT ![t] = [NoClient EXCEPT !.id = run[t].id]]
                                       ELSE clients
    /\ run' = [run EXCEPT ![t].at = "role"]
    /\ UNCHANGED <<users, accounts, tenants, work, queue, runs, faults>>

EnsureClientRole(t) ==
    /\ run[t].at = "role"
    /\ clients' = [clients EXCEPT ![t].role = TRUE]
    /\ run' = [run EXCEPT ![t].at = "owner"]
    /\ UNCHANGED <<users, accounts, tenants, work, queue, runs, faults>>

(* The user linked to the owner's account, else the only user with the     *)
(* address the tenant was created with, else nobody.                       *)
OwnerUser(t) ==
    LET linked == {u \in Users : \E a \in Accounts : tenants[t].owner = a /\ accounts[a].user = u}
        named  == {u \in users : tenants[t].admin # NoEmail /\ EmailOf[u] = tenants[t].admin}
    IN  IF linked # {} THEN CHOOSE u \in linked : TRUE
        ELSE IF \E u \in named : named = {u} THEN CHOOSE u \in named : TRUE
        ELSE NoUser

ResolveOwner(t) ==
    /\ run[t].at = "owner"
    /\ run' = [run EXCEPT ![t].at = "assign", ![t].user = OwnerUser(t)]
    /\ UNCHANGED <<users, accounts, tenants, clients, work, queue, runs, faults>>

(* Only the lock's holder touches the client: its three calls are one.     *)
AssignOwner(t) ==
    /\ run[t].at = "assign"
    /\ clients' = [clients EXCEPT ![t].ready = TRUE,
                                  ![t].holders = @ \cup ({run[t].user} \ {NoUser})]
    /\ Unlock(t)
    /\ Report(t, "settle")
    /\ UNCHANGED <<users, accounts, tenants, queue, runs, faults>>

RunFails(t) ==
    /\ run[t].at \in {"client", "role", "owner", "assign"}
    /\ Fault
    /\ Unlock(t)
    /\ Report(t, "undo")
    /\ UNCHANGED <<users, accounts, tenants, clients, queue, runs>>

(* A client that cannot be deleted is left behind, with a warning.         *)
DeleteClient(t) ==
    /\ run[t].at = "delete"
    /\ \/ clients' = [clients EXCEPT ![t] = NoClient] /\ UNCHANGED faults
       \/ Fault /\ UNCHANGED clients
    /\ Unlock(t)
    /\ Report(t, "remove")
    /\ UNCHANGED <<users, accounts, tenants, queue, runs>>

-----------------------------------------------------------------------------
(* Portal signup: a tenant for the account, or no trace of one.            *)

Answer(h) ==
    /\ work[h].at \in {"signed", "settle"}
    /\ Become(h, Idle)
    /\ UNCHANGED <<users, accounts, tenants, clients, run, queue, runs, faults>>

CreateTenant(h) ==
    LET a == work[h].acct IN
    /\ work[h].at = "signed"
    /\ \E t \in Tenants :
        /\ tenants[t].at = "free"
        /\ tenants' = [tenants EXCEPT ![t] = [at |-> "stored", owner |-> a,
                                              admin |-> accounts[a].email]]
        /\ work' = [work EXCEPT ![h].at = "provision", ![h].t = t]
    /\ UNCHANGED <<users, accounts, clients, run, queue, runs, faults>>

ProvisionTenant(h) ==
    /\ work[h].at = "provision"
    /\ Lock(work[h].t, "client", h)
    /\ Goto(h, "running")
    /\ UNCHANGED <<users, accounts, tenants, clients, queue, faults>>

(* The lock is held for too long, or a statement or a call fails.          *)
SignupFails(h) ==
    /\ work[h].at \in {"provision", "settle"}
    /\ \/ work[h].at = "provision" /\ run[work[h].t].at # "idle" /\ UNCHANGED faults
       \/ Fault
    /\ Goto(h, "undo")
    /\ UNCHANGED <<users, accounts, tenants, clients, run, queue, runs>>

Deprovision(h) ==
    /\ work[h].at = "undo"
    /\ Lock(work[h].t, "delete", h)
    /\ Goto(h, "undoing")
    /\ UNCHANGED <<users, accounts, tenants, clients, queue, faults>>

(* The row goes even when deprovisioning failed.                           *)
DeprovisionFails(h) ==
    /\ work[h].at = "undo"
    /\ \/ run[work[h].t].at # "idle" /\ UNCHANGED faults
       \/ Fault
    /\ Goto(h, "remove")
    /\ UNCHANGED <<users, accounts, tenants, clients, run, queue, runs>>

RemoveTenant(h) ==
    /\ work[h].at = "remove"
    /\ \/ tenants' = [tenants EXCEPT ![work[h].t].at = "deleted"] /\ UNCHANGED faults
       \/ Fault /\ UNCHANGED tenants
    /\ Become(h, Idle)
    /\ UNCHANGED <<users, accounts, clients, run, queue, runs>>

-----------------------------------------------------------------------------
(* The operator, who names any owner; and a restart of the control plane.  *)

OperatorCreates(t) ==
    /\ tenants[t].at = "free"
    /\ \E o \in {a \in Accounts : Known(a)} \cup users, e \in Addresses :
        tenants' = [tenants EXCEPT ![t] = [at |-> "stored", owner |-> o, admin |-> e]]
    /\ UNCHANGED <<users, accounts, clients, run, work, queue, runs, faults>>

OperatorRuns(t) ==
    /\ tenants[t].at = "stored"
    /\ Lock(t, "client", Operator) \/ Lock(t, "delete", Operator)
    /\ UNCHANGED <<users, accounts, tenants, clients, work, queue, faults>>

(* Nothing in flight survives; the timer is armed anew.                    *)
Restart ==
    /\ Fault
    /\ run' = [t \in Tenants |-> NoRun]
    /\ work' = [w \in Workers |-> Idle]
    /\ queue' = {}
    /\ UNCHANGED <<users, accounts, tenants, clients, runs>>

-----------------------------------------------------------------------------
Sweep(w) == \/ List(w) \/ ListFails(w) \/ NextTenant(w) \/ Look(w) \/ Role(w)
            \/ Post(w) \/ CallFails(w) \/ Mark(w)

Request(h) == \/ \E u \in Users : SignIn(h, u)
              \/ ByEmail(h) \/ Link(h) \/ Create(h) \/ Answer(h) \/ CreateTenant(h)
              \/ ProvisionTenant(h) \/ SignupFails(h) \/ Deprovision(h)
              \/ DeprovisionFails(h) \/ RemoveTenant(h)

Provision(t) == \/ EnsureClient(t) \/ EnsureClientRole(t) \/ ResolveOwner(t)
                \/ AssignOwner(t) \/ RunFails(t) \/ DeleteClient(t)

Retry == Tick \/ NextAccount \/ Sweep(Retrier)

Next ==
    \/ \E u \in Users : Register(u)
    \/ \E h \in Handlers : Request(h) \/ Sweep(h)
    \/ \E t \in Tenants : Provision(t) \/ OperatorCreates(t) \/ OperatorRuns(t)
    \/ Retry \/ TickFails \/ Restart

Spec == Init /\ [][Next]_vars

(* The loop's timer fires and its awaited calls come back.                 *)
FairSpec == Spec /\ WF_vars(Retry)

-----------------------------------------------------------------------------
(* Every variable keeps its type.                                          *)
TypeOK ==
    /\ users \in SUBSET Users
    /\ accounts \in [Accounts -> Account]
    /\ tenants \in [Tenants -> Tenant]
    /\ clients \in [Tenants -> Client]
    /\ run \in [Tenants -> Run]
    /\ work \in [Workers -> Work]
    /\ queue \in SUBSET Accounts
    /\ runs \in 0 .. MaxRuns
    /\ faults \in 0 .. MaxFaults

(* An account marked complete is not locked out: its user has the role on  *)
(* every tenant it owns that a provisioning run has seen through, although *)
(* that run may have looked for the user before the link and the sweep may *)
(* have found the client missing, half made, or about to be replaced.      *)
CompleteMeansAssigned ==
    \A a \in Accounts, u \in Users :
        accounts[a].user = u /\ accounts[a].sync = "complete" =>
            \A t \in Owned(a) : clients[t].ready => u \in clients[t].holders

(* A request or a tick that acts for an account does so as the Keycloak    *)
(* user the account is bound to, whoever else signed in with its address.  *)
SignedInAsThemselves ==
    \A w \in Workers :
        work[w].at \in Sweeping \cup SigningUp => accounts[work[w].acct].user = work[w].user

(* The retry loop ends what a sign-in left pending, also when a tenant's   *)
(* client is gone for good or was never made.                              *)
PendingDrains ==
    \A a \in Accounts :
        accounts[a].sync = "pending" ~> accounts[a].sync = "complete"

=============================================================================
