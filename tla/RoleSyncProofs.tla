---------------------------- MODULE RoleSyncProofs ----------------------------
(* Proofs about RoleSync, for any users, accounts, tenants, requests, runs *)
(* and faults: an account marked complete has the role on every tenant of  *)
(* its own that is ready, and whoever acts for an account is its user.     *)
EXTENDS RoleSync, TLAPS

-----------------------------------------------------------------------------
(* The inductive invariant.                                                *)

(* The user has the role if the tenant is ready, and will have it when a   *)
(* run that has already chosen its user is over.                           *)
Safe(t, u) ==
    /\ clients[t].ready => u \in clients[t].holders
    /\ run[t].at = "assign" => u \in clients[t].holders \/ run[t].user = u

(* A row that is not there is blank, and a tenant's account is there.      *)
RowsOK ==
    /\ \A a \in Accounts : ~Known(a) => accounts[a].user = NoUser
    /\ \A t \in Tenants : /\ tenants[t].at = "stored"
                          /\ tenants[t].owner \in Accounts
                          => Known(tenants[t].owner)

(* A run makes the client, then its role, then the mapping.                *)
ClientOK(t) ==
    /\ tenants[t].at = "free" => clients[t] = NoClient /\ run[t].at = "idle"
    /\ clients[t].id = 0 => clients[t] = NoClient
    /\ clients[t].ready => clients[t].role
    /\ run[t].at = "client" => run[t].id # 0
    /\ run[t].at \in {"role", "owner", "assign"} => clients[t].id # 0
    /\ run[t].at \in {"owner", "assign"} => clients[t].role

(* A request that waits for its run is the one the lock names.             *)
RunOK(t) ==
    run[t].at # "idle" /\ run[t].by \in Handlers =>
        work[run[t].by].at \in {"running", "undoing"} /\ work[run[t].by].t = t

CompleteOK ==
    \A a \in Accounts :
        accounts[a].user # NoUser /\ accounts[a].sync = "complete" =>
            \A t \in Owned(a) : Safe(t, accounts[a].user)

(* What a step of a worker relies on.                                      *)
ActsOK(w) ==
    LET me == work[w] IN
    /\ me.at \in SigningIn => me.user \in Users /\ EmailOf[me.user] # NoEmail
    /\ me.at = "link" => me.acct \in Accounts /\ Known(me.acct)
    /\ me.at \in Sweeping \cup SigningUp =>
           me.user \in Users /\ me.acct \in Accounts /\ accounts[me.acct].user = me.user
    /\ me.at \in SigningUp \ {"signed"} => me.t \in Tenants /\ tenants[me.t].at # "free"
    /\ me.at \in {"look", "role", "post"} => me.t \in Tenants
    /\ me.at \in {"role", "post"} => me.id # 0

(* While nothing has failed a sweep has left no tenant behind that is not  *)
(* safe, but those it has yet to do and the one it is at; that one only as *)
(* long as its client is the one the sweep found.                          *)
SweepOK(w) ==
    LET me == work[w] IN
    /\ me.at \in Sweeping \ {"list"} /\ me.ok =>
           \A t \in Owned(me.acct) \ me.todo :
               \/ me.at \in {"look", "role", "post"} /\ t = me.t
               \/ Safe(t, me.user)
    /\ me.at \in {"role", "post"} /\ me.t \in Owned(me.acct) =>
           clients[me.t].id = me.id \/ Safe(me.t, me.user)
    /\ me.at = "mark" => me.ok /\ me.todo = {}

QueueOK == \A a \in queue : accounts[a].user # NoUser

IInv ==
    /\ TypeOK /\ RowsOK /\ CompleteOK /\ QueueOK
    /\ \A t \in Tenants : ClientOK(t) /\ RunOK(t)
    /\ \A w \in Workers : ActsOK(w) /\ SweepOK(w)

-----------------------------------------------------------------------------
(* Types.                                                                  *)

LEMMA Names ==
  /\ Retrier \notin Handlers /\ Operator \notin Handlers
  /\ NoUser \notin Users /\ NoAccount \notin Accounts /\ NoTenant \notin Tenants
  /\ Accounts \cap Users = {} /\ NoEmail \notin Emails
  /\ EmailOf \in [Users -> Emails \cup {NoEmail}]
  /\ MaxRuns \in Nat /\ MaxFaults \in Nat
BY NamesAssumption, EmailAssumption, BoundsAssumption

LEMMA Blanks == Idle \in Work /\ NoClient \in Client /\ NoRow \in Account /\ NoRun \in Run
BY Names DEF Idle, Work, NoClient, Client, NoRow, Account, NoRun, Run, Addresses, Subjects

LEMMA FaultType ==
  ASSUME TypeOK, Fault
  PROVE  faults' \in 0 .. MaxFaults
BY Names DEF TypeOK, Fault

LEMMA GotoType ==
  ASSUME TypeOK, NEW w \in Workers, NEW to,
         to \in {"idle", "account"} \cup SigningIn \cup Sweeping \cup SigningUp,
         Goto(w, to)
  PROVE  work' \in [Workers -> Work]
BY DEF TypeOK, Goto, Work

LEMMA BecomeType ==
  ASSUME TypeOK, NEW w \in Workers, NEW x \in Work, Become(w, x)
  PROVE  work' \in [Workers -> Work]
BY DEF TypeOK, Become

LEMMA PassType ==
  ASSUME TypeOK, NEW w \in Workers, NEW ok \in BOOLEAN, Pass(w, ok)
  PROVE  work' \in [Workers -> Work]
<1>. DEFINE k == work[w].ok /\ ok
<1>1. k \in BOOLEAN
  OBVIOUS
<1>2. work' = [work EXCEPT ![w].at = "next", ![w].t = NoTenant, ![w].id = 0, ![w].ok = k]
  BY Zenon DEF Pass
<1>. HIDE DEF k
<1>3. [work[w] EXCEPT !.at = "next", !.t = NoTenant, !.id = 0, !.ok = k] \in Work
  <2>1. work[w] \in Work
    BY DEF TypeOK
  <2>2. NoTenant \in Tenants \cup {NoTenant} /\ 0 \in 0 .. MaxRuns
    BY Names
  <2>. QED
    BY <1>1, <2>1, <2>2 DEF Work, Sweeping
<1>. QED
  BY <1>2, <1>3 DEF TypeOK

LEMMA FinishType ==
  ASSUME TypeOK, NEW w \in Workers, Finish(w)
  PROVE  work' \in [Workers -> Work]
<1>1. [Idle EXCEPT !.at = "account"] \in Work
  BY Blanks DEF Work
<1>2. [Idle EXCEPT !.at = "signed", !.user = work[w].user, !.acct = work[w].acct] \in Work
  BY Blanks DEF Work, TypeOK, SigningUp
<1>. QED
  BY <1>1, <1>2, BecomeType DEF Finish

LEMMA LockType ==
  ASSUME TypeOK, NEW t \in Tenants, NEW at \in {"client", "delete"},
         NEW by \in Handlers \cup {Operator}, Lock(t, at, by)
  PROVE  run' \in [Tenants -> Run] /\ runs' \in 0 .. MaxRuns
<1>1. runs' \in 0 .. MaxRuns
  BY Names DEF TypeOK, Lock
<1>2. [NoRun EXCEPT !.at = at, !.by = by, !.id = runs'] \in Run
  BY <1>1, Blanks DEF Run
<1>. QED
  BY <1>1, <1>2 DEF Lock, TypeOK

LEMMA ReportType ==
  ASSUME TypeOK, NEW t \in Tenants, NEW to \in {"settle", "undo", "remove"}, Report(t, to)
  PROVE  work' \in [Workers -> Work]
<1>1. CASE run[t].by \in Handlers
  BY <1>1, GotoType DEF Report, SigningUp, Workers
<1>2. CASE run[t].by \notin Handlers
  BY <1>2 DEF Report, TypeOK
<1>. QED
  BY <1>1, <1>2

LEMMA UnlockType ==
  ASSUME TypeOK, NEW t \in Tenants, Unlock(t)
  PROVE  run' \in [Tenants -> Run]
BY Blanks DEF TypeOK, Unlock

LEMMA SweepType ==
  ASSUME TypeOK, NEW w \in Workers, ActsOK(w), Sweep(w)
  PROVE  TypeOK'
<1>1. CASE List(w)
  <2>1. [work[w] EXCEPT !.at = "next", !.todo = Owned(work[w].acct), !.ok = TRUE] \in Work
    BY DEF TypeOK, Work, Owned, Sweeping
  <2>. QED
    BY <1>1, <2>1 DEF List, TypeOK
<1>2. CASE ListFails(w)
  BY <1>2, FinishType, FaultType DEF ListFails, TypeOK
<1>3. CASE NextTenant(w)
  <2>1. CASE \E t \in work[w].todo :
               work' = [work EXCEPT ![w].at = "look", ![w].t = t, ![w].todo = @ \ {t}]
    <3>1. PICK t \in work[w].todo :
               work' = [work EXCEPT ![w].at = "look", ![w].t = t, ![w].todo = @ \ {t}]
      BY <2>1
    <3>2. t \in Tenants /\ work[w].todo \ {t} \in SUBSET Tenants
      BY DEF TypeOK, Work
    <3>3. [work[w] EXCEPT !.at = "look", !.t = t, !.todo = @ \ {t}] \in Work
      BY <3>2 DEF TypeOK, Work, Sweeping
    <3>. QED
      BY <1>3, <3>1, <3>3 DEF NextTenant, TypeOK
  <2>2. CASE Goto(w, "mark")
    BY <1>3, <2>2, GotoType DEF NextTenant, TypeOK, Sweeping
  <2>3. CASE Finish(w)
    BY <1>3, <2>3, FinishType DEF NextTenant, TypeOK
  <2>. QED
    BY <1>3, <2>1, <2>2, <2>3 DEF NextTenant
<1>4. CASE Look(w)
  <2>1. CASE clients[work[w].t].id # 0
    <3>1. work[w].t \in Tenants
      BY <1>4 DEF Look, Call, ActsOK
    <3>2. [work[w] EXCEPT !.at = "role", !.id = clients[work[w].t].id] \in Work
      BY <3>1 DEF TypeOK, Work, Sweeping, Client
    <3>. QED
      BY <1>4, <2>1, <3>2 DEF Look, Call, TypeOK
  <2>2. CASE clients[work[w].t].id = 0
    BY <1>4, <2>2, PassType DEF Look, Call, Missing, TypeOK
  <2>. QED
    BY <2>1, <2>2
<1>5. CASE Role(w)
  BY <1>5, GotoType, PassType DEF Role, Call, Missing, TypeOK, Sweeping
<1>6. CASE Post(w)
  <2>1. work[w].t \in Tenants /\ work[w].user \in Users
    BY <1>6 DEF Post, Call, ActsOK, Sweeping
  <2>2. CASE clients[work[w].t].id = work[w].id
    <3>1. clients' \in [Tenants -> Client]
      BY <1>6, <2>1, <2>2 DEF Post, Call, TypeOK, Client
    <3>. QED
      BY <1>6, <2>2, <3>1, PassType DEF Post, Call, TypeOK
  <2>3. CASE clients[work[w].t].id # work[w].id
    BY <1>6, <2>3, PassType DEF Post, Call, Missing, TypeOK
  <2>. QED
    BY <2>2, <2>3
<1>7. CASE CallFails(w)
  BY <1>7, PassType, FaultType DEF CallFails, TypeOK
<1>8. CASE Mark(w)
  <2>1. accounts' \in [Accounts -> Account]
    BY <1>8 DEF Mark, TypeOK, Account
  <2>. QED
    BY <1>8, <2>1, FinishType, FaultType DEF Mark, TypeOK
<1>. QED
  BY <1>1, <1>2, <1>3, <1>4, <1>5, <1>6, <1>7, <1>8 DEF Sweep

LEMMA RequestType ==
  ASSUME TypeOK, NEW h \in Handlers, ActsOK(h), Request(h)
  PROVE  TypeOK'
<1>. h \in Workers
  BY DEF Workers
<1>1. ASSUME NEW u \in Users, SignIn(h, u) PROVE TypeOK'
  <2>1. [Idle EXCEPT !.at = "byEmail", !.user = u] \in Work
    BY Blanks DEF Idle, Work, SigningIn, Subjects
  <2>2. \A a \in Accounts : [Idle EXCEPT !.at = "signed", !.user = u, !.acct = a] \in Work
    BY Blanks DEF Idle, Work, SigningUp, Subjects
  <2>. QED
    BY <1>1, <2>1, <2>2, BecomeType DEF SignIn, TypeOK
<1>2. CASE ByEmail(h)
  <2>1. CASE Goto(h, "create")
    BY <1>2, <2>1, GotoType DEF ByEmail, TypeOK, SigningIn
  <2>2. ASSUME NEW a \in Accounts, work' = [work EXCEPT ![h].at = "link", ![h].acct = a]
        PROVE  TypeOK'
    <3>1. [work[h] EXCEPT !.at = "link", !.acct = a] \in Work
      BY DEF TypeOK, Work, SigningIn
    <3>. QED
      BY <1>2, <2>2, <3>1 DEF ByEmail, TypeOK
  <2>. QED
    BY <1>2, <2>1, <2>2 DEF ByEmail
<1>3. CASE Link(h)
  <2>1. work[h].acct \in Accounts /\ work[h].user \in Users
    BY <1>3 DEF Link, ActsOK, SigningIn
  <2>2. work' \in [Workers -> Work]
    <3>1. Goto(h, "list") \/ Become(h, Idle)
      BY <1>3 DEF Link
    <3>. QED
      BY <3>1, GotoType, BecomeType, Blanks DEF Sweeping
  <2>3. accounts' \in [Accounts -> Account]
    BY <1>3, <2>1 DEF Link, TypeOK, Account, Subjects
  <2>. QED
    BY <1>3, <2>2, <2>3 DEF Link, TypeOK
<1>4. CASE Create(h)
  <2>1. work[h].user \in Users /\ EmailOf[work[h].user] \in Addresses
    BY <1>4, Names DEF Create, ActsOK, SigningIn, Addresses
  <2>2. accounts' \in [Accounts -> Account]
    <3>1. [NoRow EXCEPT !.email = EmailOf[work[h].user], !.user = work[h].user] \in Account
      BY <2>1 DEF NoRow, Account, Subjects
    <3>. QED
      BY <1>4, <3>1 DEF Create, TypeOK
  <2>3. work' \in [Workers -> Work]
    <3>1. \/ Become(h, Idle)
          \/ \E a \in Accounts : work' = [work EXCEPT ![h].at = "signed", ![h].acct = a]
      BY <1>4 DEF Create
    <3>2. ASSUME NEW a \in Accounts PROVE [work[h] EXCEPT !.at = "signed", !.acct = a] \in Work
      BY DEF TypeOK, Work, SigningUp
    <3>. QED
      BY <3>1, <3>2, BecomeType, Blanks DEF TypeOK
  <2>. QED
    BY <1>4, <2>2, <2>3 DEF Create, TypeOK
<1>5. CASE Answer(h)
  BY <1>5, BecomeType, Blanks DEF Answer, TypeOK
<1>6. CASE CreateTenant(h)
  <2>1. work[h].acct \in Accounts /\ accounts[work[h].acct].email \in Addresses
    BY <1>6 DEF CreateTenant, ActsOK, SigningUp, TypeOK, Account
  <2>2. PICK t \in Tenants :
           /\ tenants' = [tenants EXCEPT ![t] = [at |-> "stored", owner |-> work[h].acct,
                                                admin |-> accounts[work[h].acct].email]]
           /\ work' = [work EXCEPT ![h].at = "provision", ![h].t = t]
    BY <1>6 DEF CreateTenant
  <2>3. tenants' \in [Tenants -> Tenant]
    BY <2>1, <2>2 DEF TypeOK, Tenant, Owners
  <2>4. [work[h] EXCEPT !.at = "provision", !.t = t] \in Work
    BY DEF TypeOK, Work, SigningUp
  <2>. QED
    BY <1>6, <2>2, <2>3, <2>4 DEF CreateTenant, TypeOK
<1>7. CASE ProvisionTenant(h)
  <2>1. work[h].t \in Tenants
    BY <1>7 DEF ProvisionTenant, ActsOK, SigningUp
  <2>. QED
    BY <1>7, <2>1, LockType, GotoType DEF ProvisionTenant, TypeOK, SigningUp
<1>8. CASE SignupFails(h)
  BY <1>8, GotoType, FaultType DEF SignupFails, TypeOK, SigningUp
<1>9. CASE Deprovision(h)
  <2>1. work[h].t \in Tenants
    BY <1>9 DEF Deprovision, ActsOK, SigningUp
  <2>. QED
    BY <1>9, <2>1, LockType, GotoType DEF Deprovision, TypeOK, SigningUp
<1>10. CASE DeprovisionFails(h)
  BY <1>10, GotoType, FaultType DEF DeprovisionFails, TypeOK, SigningUp
<1>11. CASE RemoveTenant(h)
  <2>1. tenants' \in [Tenants -> Tenant]
    BY <1>11 DEF RemoveTenant, TypeOK, Tenant
  <2>. QED
    BY <1>11, <2>1, BecomeType, Blanks, FaultType DEF RemoveTenant, TypeOK
<1>. QED
  BY <1>1, <1>2, <1>3, <1>4, <1>5, <1>6, <1>7, <1>8, <1>9, <1>10, <1>11 DEF Request

LEMMA OwnerUserType ==
  ASSUME NEW t \in Tenants, users \in SUBSET Users
  PROVE  OwnerUser(t) \in Subjects
BY DEF OwnerUser, Subjects

LEMMA ProvisionType ==
  ASSUME TypeOK, NEW t \in Tenants, ClientOK(t), Provision(t)
  PROVE  TypeOK'
<1>1. CASE EnsureClient(t)
  <2>1. [NoClient EXCEPT !.id = run[t].id] \in Client
    BY Blanks DEF TypeOK, Run, Client, NoClient
  <2>. QED
    BY <1>1, <2>1 DEF EnsureClient, TypeOK, Run
<1>2. CASE EnsureClientRole(t)
  BY <1>2 DEF EnsureClientRole, TypeOK, Run, Client
<1>3. CASE ResolveOwner(t)
  BY <1>3, OwnerUserType DEF ResolveOwner, TypeOK, Run
<1>4. CASE AssignOwner(t)
  <2>1. {run[t].user} \ {NoUser} \subseteq Users
    BY DEF TypeOK, Run, Subjects
  <2>2. clients' \in [Tenants -> Client]
    BY <1>4, <2>1 DEF AssignOwner, TypeOK, Client
  <2>. QED
    BY <1>4, <2>2, UnlockType, ReportType DEF AssignOwner, TypeOK
<1>5. CASE RunFails(t)
  BY <1>5, UnlockType, ReportType, FaultType DEF RunFails, TypeOK
<1>6. CASE DeleteClient(t)
  BY <1>6, Blanks, UnlockType, ReportType, FaultType DEF DeleteClient, TypeOK
<1>. QED
  BY <1>1, <1>2, <1>3, <1>4, <1>5, <1>6 DEF Provision

LEMMA RetryType ==
  ASSUME TypeOK, ActsOK(Retrier), QueueOK, Retry
  PROVE  TypeOK'
<1>. Retrier \in Workers
  BY DEF Workers
<1>1. CASE Tick
  BY <1>1, GotoType DEF Tick, TypeOK
<1>2. CASE NextAccount
  <2>1. \A a \in queue : [Idle EXCEPT !.at = "list", !.acct = a, !.user = accounts[a].user] \in Work
    BY Blanks DEF Idle, Work, TypeOK, Account, Sweeping
  <2>. QED
    BY <1>2, <2>1, Blanks, BecomeType DEF NextAccount, TypeOK
<1>3. CASE Sweep(Retrier)
  BY <1>3, SweepType
<1>. QED
  BY <1>1, <1>2, <1>3 DEF Retry

LEMMA TypeStep ==
  ASSUME IInv, [Next]_vars
  PROVE  TypeOK'
<1>. /\ TypeOK /\ QueueOK /\ Retrier \in Workers /\ Handlers \subseteq Workers
     /\ \A w \in Workers : ActsOK(w)
     /\ \A t \in Tenants : ClientOK(t)
  BY DEF IInv, Workers
<1>1. ASSUME NEW u \in Users, Register(u) PROVE TypeOK'
  BY <1>1 DEF Register, TypeOK
<1>2. ASSUME NEW h \in Handlers, Request(h) \/ Sweep(h) PROVE TypeOK'
  BY <1>2, RequestType, SweepType
<1>3. ASSUME NEW t \in Tenants, Provision(t) PROVE TypeOK'
  BY <1>3, ProvisionType
<1>4. ASSUME NEW t \in Tenants, OperatorCreates(t) PROVE TypeOK'
  <2>1. PICK o \in Accounts \cup users, e \in Addresses :
           tenants' = [tenants EXCEPT ![t] = [at |-> "stored", owner |-> o, admin |-> e]]
    BY <1>4 DEF OperatorCreates
  <2>2. tenants' \in [Tenants -> Tenant]
    BY <2>1 DEF TypeOK, Tenant, Owners
  <2>. QED
    BY <1>4, <2>2 DEF OperatorCreates, TypeOK
<1>5. ASSUME NEW t \in Tenants, OperatorRuns(t) PROVE TypeOK'
  BY <1>5, LockType DEF OperatorRuns, TypeOK
<1>6. CASE Retry
  BY <1>6, RetryType
<1>7. CASE TickFails
  BY <1>7, FaultType DEF TickFails, TypeOK
<1>8. CASE Restart
  BY <1>8, FaultType, Blanks DEF Restart, TypeOK
<1>9. CASE UNCHANGED vars
  BY <1>9 DEF vars, TypeOK
<1>. QED
  BY <1>1, <1>2, <1>3, <1>4, <1>5, <1>6, <1>7, <1>8, <1>9 DEF Next

-----------------------------------------------------------------------------
(* What every step keeps.                                                  *)

Quiet == UNCHANGED <<accounts, tenants, clients, run>>

LEMMA NextShape ==
  ASSUME [Next]_vars
  PROVE  \/ Quiet
         \/ \E h \in Handlers : \/ Link(h) \/ Create(h) \/ CreateTenant(h)
                                \/ ProvisionTenant(h) \/ Deprovision(h) \/ RemoveTenant(h)
         \/ \E w \in Workers : Post(w) \/ Mark(w)
         \/ \E t \in Tenants : Provision(t) \/ OperatorCreates(t) \/ OperatorRuns(t)
         \/ Restart
<1>1. ASSUME NEW w \in Workers, Sweep(w) PROVE Quiet \/ Post(w) \/ Mark(w)
  BY <1>1 DEF Sweep, List, ListFails, NextTenant, Look, Role, Call, CallFails, Quiet
<1>2. ASSUME NEW h \in Handlers, Request(h)
      PROVE  \/ Quiet \/ Link(h) \/ Create(h) \/ CreateTenant(h)
             \/ ProvisionTenant(h) \/ Deprovision(h) \/ RemoveTenant(h)
  BY <1>2 DEF Request, SignIn, ByEmail, Answer, SignupFails, DeprovisionFails, Quiet
<1>3. Tick \/ TickFails \/ NextAccount \/ UNCHANGED vars \/ (\E u \in Users : Register(u)) => Quiet
  BY DEF Tick, TickFails, NextAccount, vars, Register, Quiet
<1>4. Handlers \subseteq Workers /\ Retrier \in Workers
  BY DEF Workers
<1>. QED
  BY <1>1, <1>2, <1>3, <1>4 DEF Next, Retry

(* Nobody takes a link, an address or an owner away, and a deleted tenant  *)
(* stays deleted.                                                          *)
RowsKept ==
    /\ \A a \in Accounts : /\ accounts[a].user # NoUser => accounts'[a].user = accounts[a].user
                           /\ Known(a) => accounts'[a].email # NoEmail
    /\ \A t \in Tenants : tenants[t].at # "free" =>
           /\ tenants'[t].at # "free"
           /\ tenants'[t].owner = tenants[t].owner
           /\ tenants'[t].at = "stored" => tenants[t].at = "stored"

(* A new tenant is safe for everybody, and a tenant safe for the user of   *)
(* its owner stays so; so is one whose client has been replaced.           *)
SafeKept ==
    \A t \in Tenants, u \in Users :
        /\ tenants[t].at = "free" => Safe(t, u)'
        /\ \A a \in Accounts : tenants[t].owner = a /\ accounts[a].user = u =>
               /\ Safe(t, u) => Safe(t, u)'
               /\ clients'[t].id = clients[t].id \/ Safe(t, u)'

LEMMA RowsStep ==
  ASSUME IInv, [Next]_vars
  PROVE  RowsKept /\ RowsOK'
<1>. /\ TypeOK /\ RowsOK /\ \A w \in Workers : ActsOK(w)
     /\ Handlers \subseteq Workers
  BY DEF IInv, Workers
<1>1. CASE UNCHANGED <<accounts, tenants>>
  BY <1>1 DEF RowsKept, RowsOK, Known
<1>2. ASSUME NEW h \in Handlers, Link(h) PROVE RowsKept /\ RowsOK'
  <2>1. /\ work[h].acct \in Accounts /\ Known(work[h].acct) /\ tenants' = tenants
        /\ \/ accounts' = accounts
           \/ /\ accounts[work[h].acct].user = NoUser
              /\ accounts' = [accounts EXCEPT ![work[h].acct].user = work[h].user,
                                              ![work[h].acct].sync = "pending"]
    BY <1>2 DEF Link, ActsOK
  <2>. QED
    BY <2>1 DEF RowsKept, RowsOK, Known, TypeOK, Account
<1>3. ASSUME NEW h \in Handlers, Create(h) PROVE RowsKept /\ RowsOK'
  <2>1. PICK a \in Accounts :
           /\ tenants' = tenants
           /\ \/ accounts' = accounts
              \/ /\ ~Known(a)
                 /\ accounts' = [accounts EXCEPT ![a] =
                       [NoRow EXCEPT !.email = EmailOf[work[h].user], !.user = work[h].user]]
    BY <1>3 DEF Create
  <2>2. EmailOf[work[h].user] # NoEmail
    BY <1>3 DEF Create, ActsOK, SigningIn
  <2>. QED
    BY <2>1, <2>2 DEF RowsKept, RowsOK, Known, TypeOK, Account, NoRow
<1>4. ASSUME NEW h \in Handlers, CreateTenant(h) PROVE RowsKept /\ RowsOK'
  <2>1. PICK t \in Tenants :
           /\ tenants[t].at = "free" /\ accounts' = accounts
           /\ tenants' = [tenants EXCEPT ![t] = [at |-> "stored", owner |-> work[h].acct,
                                                admin |-> accounts[work[h].acct].email]]
    BY <1>4 DEF CreateTenant
  <2>2. Known(work[h].acct)
    BY <1>4, Names DEF CreateTenant, ActsOK, SigningUp, RowsOK
  <2>. QED
    BY <2>1, <2>2 DEF RowsKept, RowsOK, Known, TypeOK
<1>5. ASSUME NEW h \in Handlers, RemoveTenant(h) PROVE RowsKept /\ RowsOK'
  <2>1. /\ accounts' = accounts
        /\ \/ tenants' = tenants
           \/ tenants' = [tenants EXCEPT ![work[h].t].at = "deleted"]
    BY <1>5 DEF RemoveTenant
  <2>2. \A t \in Tenants : /\ tenants'[t].owner = tenants[t].owner
                           /\ tenants'[t].at = tenants[t].at \/ tenants'[t].at = "deleted"
    BY <2>1 DEF TypeOK, Tenant
  <2>. QED
    BY <2>1, <2>2 DEF RowsKept, RowsOK, Known
<1>6. ASSUME NEW w \in Workers, Mark(w) PROVE RowsKept /\ RowsOK'
  <2>1. \A a \in Accounts : /\ accounts'[a].user = accounts[a].user
                            /\ accounts'[a].email = accounts[a].email
    BY <1>6 DEF Mark, TypeOK, Account
  <2>. QED
    BY <1>6, <2>1 DEF Mark, RowsKept, RowsOK, Known
<1>7. ASSUME NEW t \in Tenants, OperatorCreates(t) PROVE RowsKept /\ RowsOK'
  <2>1. PICK o \in {a \in Accounts : Known(a)} \cup users, e \in Addresses :
           tenants' = [tenants EXCEPT ![t] = [at |-> "stored", owner |-> o, admin |-> e]]
    BY <1>7 DEF OperatorCreates
  <2>2. o \in Accounts => Known(o)
    BY Names DEF TypeOK
  <2>. QED
    BY <1>7, <2>1, <2>2 DEF OperatorCreates, RowsKept, RowsOK, Known, TypeOK
<1>8. (\E h \in Handlers : ProvisionTenant(h) \/ Deprovision(h)) => UNCHANGED <<accounts, tenants>>
  BY DEF ProvisionTenant, Deprovision
<1>9. (\E t \in Tenants : Provision(t) \/ OperatorRuns(t)) => UNCHANGED <<accounts, tenants>>
  BY DEF Provision, EnsureClient, EnsureClientRole, ResolveOwner, AssignOwner, RunFails,
         DeleteClient, OperatorRuns
<1>10. Quiet \/ Restart \/ (\E w \in Workers : Post(w)) => UNCHANGED <<accounts, tenants>>
  BY DEF Quiet, Restart, Post, Call
<1>. QED
  BY <1>1, <1>2, <1>3, <1>4, <1>5, <1>6, <1>7, <1>8, <1>9, <1>10, NextShape

(* The lock is taken of an idle tenant that is not free.                   *)
LEMMA LocksStep ==
  ASSUME TypeOK, NEW t \in Tenants, NEW at \in {"client", "delete"}, NEW by, Lock(t, at, by)
  PROVE  /\ run[t].at = "idle" /\ run'[t].at = at /\ run'[t].by = by
         /\ at = "client" => run'[t].id # 0
         /\ \A s \in Tenants : s # t => run'[s] = run[s]
BY Names DEF TypeOK, Lock, NoRun

(* A run that looks for the user of a linked owner finds him.              *)
LEMMA OwnerUserIs ==
  ASSUME NEW t \in Tenants, NEW a \in Accounts, tenants[t].owner = a, accounts[a].user \in Users
  PROVE  OwnerUser(t) = accounts[a].user
<1>. DEFINE linked == {u \in Users : \E b \in Accounts : tenants[t].owner = b /\ accounts[b].user = u}
<1>1. linked = {accounts[a].user}
  OBVIOUS
<1>2. OwnerUser(t) = CHOOSE u \in linked : TRUE
  BY <1>1 DEF OwnerUser
<1>. QED
  BY <1>1, <1>2

LEMMA ClientsStep ==
  ASSUME IInv, [Next]_vars
  PROVE  (\A t \in Tenants : ClientOK(t)') /\ SafeKept
<1>. /\ TypeOK /\ RowsOK /\ \A w \in Workers : ActsOK(w)
     /\ \A t \in Tenants : ClientOK(t)
     /\ Handlers \subseteq Workers /\ RowsKept
  BY RowsStep DEF IInv, Workers
<1>. DEFINE P == (\A t \in Tenants : ClientOK(t)') /\ SafeKept
<1>1. ASSUME UNCHANGED <<clients, run>> PROVE P
  BY <1>1 DEF ClientOK, SafeKept, RowsKept, Safe, NoClient
<1>2. ASSUME NEW t \in Tenants, NEW at \in {"client", "delete"}, NEW by, Lock(t, at, by),
             tenants[t].at # "free", clients' = clients
      PROVE  P
  BY <1>2, LocksStep DEF ClientOK, SafeKept, RowsKept, Safe, NoClient
<1>3. ASSUME NEW h \in Handlers, ProvisionTenant(h) \/ Deprovision(h) PROVE P
  <2>1. work[h].t \in Tenants /\ tenants[work[h].t].at # "free"
    BY <1>3 DEF ProvisionTenant, Deprovision, ActsOK, SigningUp
  <2>. QED
    BY <1>2, <1>3, <2>1 DEF ProvisionTenant, Deprovision
<1>4. ASSUME NEW t \in Tenants, OperatorRuns(t) PROVE P
  BY <1>2, <1>4 DEF OperatorRuns
<1>5. ASSUME NEW w \in Workers, Post(w) PROVE P
  <2>1. work[w].t \in Tenants /\ work[w].id # 0 /\ run' = run /\ tenants' = tenants
    BY <1>5 DEF Post, Call, ActsOK
  <2>2. \A s \in Tenants : /\ clients'[s].id = clients[s].id
                           /\ clients'[s].role = clients[s].role
                           /\ clients'[s].ready = clients[s].ready
                           /\ clients[s].holders \subseteq clients'[s].holders
    <3>1. CASE clients[work[w].t].id = work[w].id
      BY <1>5, <2>1, <3>1 DEF Post, Call, TypeOK, Client
    <3>2. CASE clients[work[w].t].id # work[w].id
      BY <1>5, <2>1, <3>2 DEF Post, Call
    <3>. QED
      BY <3>1, <3>2
  <2>3. \A s \in Tenants : clients[s].id = 0 => clients'[s] = clients[s]
    BY <1>5, <2>1 DEF Post, Call, TypeOK, Client
  <2>4. \A s \in Tenants : ClientOK(s)'
    BY <2>1, <2>2, <2>3 DEF ClientOK, NoClient
  <2>5. SafeKept
    BY <2>1, <2>2, <2>3 DEF SafeKept, Safe, ClientOK, NoClient
  <2>. QED
    BY <2>4, <2>5
<1>6. ASSUME NEW t \in Tenants, Provision(t) PROVE P
  <2>1. tenants' = tenants /\ run[t].at # "idle" /\ tenants[t].at # "free"
    BY <1>6 DEF Provision, EnsureClient, EnsureClientRole, ResolveOwner, AssignOwner, RunFails,
                DeleteClient, ClientOK
  <2>2. CASE EnsureClient(t)
    <3>1. \A s \in Tenants : /\ s # t => clients'[s] = clients[s] /\ run'[s] = run[s]
                             /\ clients[s].id # 0 => clients'[s] = clients[s]
      BY <2>2 DEF EnsureClient, TypeOK
    <3>2. clients[t].id = 0 => clients'[t] = [NoClient EXCEPT !.id = run[t].id]
      BY <2>2 DEF EnsureClient, TypeOK
    <3>3. run'[t].at = "role" /\ run[t].at = "client"
      BY <2>2 DEF EnsureClient, TypeOK, Run
    <3>. QED
      BY <2>1, <3>1, <3>2, <3>3 DEF ClientOK, SafeKept, Safe, NoClient
  <2>3. CASE EnsureClientRole(t)
    <3>1. /\ \A s \in Tenants : s # t => clients'[s] = clients[s] /\ run'[s] = run[s]
          /\ run'[t].at = "owner" /\ run[t].at = "role"
          /\ clients'[t].id = clients[t].id /\ clients'[t].role
          /\ clients'[t].ready = clients[t].ready /\ clients'[t].holders = clients[t].holders
      BY <2>3 DEF EnsureClientRole, TypeOK, Run, Client
    <3>. QED
      BY <2>1, <3>1 DEF ClientOK, SafeKept, Safe, NoClient
  <2>4. CASE ResolveOwner(t)
    <3>1. /\ \A s \in Tenants : s # t => run'[s] = run[s]
          /\ clients' = clients /\ accounts' = accounts
          /\ run'[t].at = "assign" /\ run[t].at = "owner" /\ run'[t].user = OwnerUser(t)
      BY <2>4 DEF ResolveOwner, TypeOK, Run
    <3>2. clients[t].id # 0
      BY <3>1 DEF ClientOK
    <3>3. \A s \in Tenants : ClientOK(s)'
      <4>1. ClientOK(t)'
        BY <2>1, <3>1, <3>2 DEF ClientOK, NoClient
      <4>. QED
        BY <2>1, <3>1, <4>1 DEF ClientOK
    <3>4. SafeKept
      <4>1. \A u \in Users, a \in Accounts : tenants[t].owner = a /\ accounts[a].user = u =>
                run'[t].user = u
        BY <3>1, OwnerUserIs
      <4>. QED
        BY <2>1, <3>1, <4>1 DEF ClientOK, SafeKept, Safe, NoClient
    <3>. QED
      BY <3>3, <3>4
  <2>5. CASE AssignOwner(t)
    <3>1. /\ \A s \in Tenants : s # t => clients'[s] = clients[s] /\ run'[s] = run[s]
          /\ run'[t].at = "idle" /\ run[t].at = "assign"
          /\ clients'[t].id = clients[t].id /\ clients'[t].role = clients[t].role
          /\ clients'[t].ready
          /\ clients'[t].holders = clients[t].holders \cup ({run[t].user} \ {NoUser})
      BY <2>5 DEF AssignOwner, Unlock, NoRun, TypeOK, Run, Client
    <3>2. clients[t].id # 0 /\ clients[t].role
      BY <3>1 DEF ClientOK
    <3>3. \A s \in Tenants : ClientOK(s)'
      <4>1. ClientOK(t)'
        BY <2>1, <3>1, <3>2 DEF ClientOK, NoClient
      <4>. QED
        BY <2>1, <3>1, <4>1 DEF ClientOK
    <3>4. SafeKept
      <4>1. \A u \in Users : Safe(t, u) => Safe(t, u)'
        BY <3>1, Names DEF Safe
      <4>2. \A s \in Tenants : clients'[s].id = clients[s].id
        BY <3>1
      <4>3. \A s \in Tenants, u \in Users : Safe(s, u) => Safe(s, u)'
        BY <3>1, <4>1 DEF Safe
      <4>. QED
        BY <2>1, <4>2, <4>3 DEF ClientOK, SafeKept, Safe, NoClient
    <3>. QED
      BY <3>3, <3>4
  <2>6. CASE RunFails(t)
    <3>1. /\ \A s \in Tenants : s # t => run'[s] = run[s]
          /\ clients' = clients /\ run'[t].at = "idle"
      BY <2>6 DEF RunFails, Unlock, NoRun, TypeOK
    <3>. QED
      BY <2>1, <3>1 DEF ClientOK, SafeKept, Safe, NoClient
  <2>7. CASE DeleteClient(t)
    <3>1. /\ \A s \in Tenants : s # t => clients'[s] = clients[s] /\ run'[s] = run[s]
          /\ clients'[t] = clients[t] \/ clients'[t] = NoClient
          /\ run'[t].at = "idle"
      BY <2>7 DEF DeleteClient, Unlock, NoRun, TypeOK
    <3>. QED
      BY <2>1, <3>1 DEF ClientOK, SafeKept, Safe, NoClient
  <2>. QED
    BY <1>6, <2>2, <2>3, <2>4, <2>5, <2>6, <2>7 DEF Provision
<1>7. ASSUME Restart PROVE P
  <2>1. clients' = clients /\ tenants' = tenants /\ \A t \in Tenants : run'[t].at = "idle"
    BY <1>7 DEF Restart, NoRun
  <2>. QED
    BY <2>1 DEF ClientOK, SafeKept, Safe, NoClient
<1>8. /\ (\E h \in Handlers : Link(h) \/ Create(h) \/ CreateTenant(h) \/ RemoveTenant(h))
         => UNCHANGED <<clients, run>>
      /\ (\E w \in Workers : Mark(w)) => UNCHANGED <<clients, run>>
      /\ (\E t \in Tenants : OperatorCreates(t)) => UNCHANGED <<clients, run>>
      /\ Quiet => UNCHANGED <<clients, run>>
  BY DEF Link, Create, CreateTenant, RemoveTenant, Mark, OperatorCreates, Quiet
<1>. HIDE DEF P
<1>9. P
  BY <1>1, <1>3, <1>4, <1>5, <1>6, <1>7, <1>8, NextShape
<1>. QED
  BY <1>9 DEF P

-----------------------------------------------------------------------------
(* Accounts, the queue and the workers.                                    *)

(* What was safe of an account's tenants still is, and so are its new ones.*)
LEMMA OwnedSafe ==
  ASSUME IInv, [Next]_vars, NEW a \in Accounts, NEW u \in Users, accounts[a].user = u,
         NEW t \in Tenants, t \in Owned(a)', t \in Owned(a) => Safe(t, u)
  PROVE  Safe(t, u)'
<1>1. RowsKept /\ SafeKept
  BY RowsStep, ClientsStep
<1>2. CASE tenants[t].at = "free"
  BY <1>1, <1>2 DEF SafeKept
<1>3. CASE tenants[t].at # "free"
  <2>1. t \in Owned(a) /\ tenants[t].owner = a
    BY <1>1, <1>3 DEF RowsKept, Owned
  <2>. QED
    BY <1>1, <2>1 DEF SafeKept
<1>. QED
  BY <1>2, <1>3

LEMMA CompleteStep ==
  ASSUME IInv, [Next]_vars
  PROVE  CompleteOK'
<1>. /\ TypeOK /\ RowsOK /\ CompleteOK /\ TypeOK'
     /\ \A w \in Workers : ActsOK(w) /\ SweepOK(w)
  BY TypeStep DEF IInv
<1>. SUFFICES ASSUME NEW a \in Accounts, NEW t \in Tenants, t \in Owned(a)',
                     NEW u \in Users, accounts'[a].user = u, accounts'[a].sync = "complete"
              PROVE  Safe(t, u)'
  <2>1. \A a \in Accounts : accounts'[a].user \in Users \cup {NoUser}
    BY DEF TypeOK, Account, Subjects
  <2>. QED
    BY <2>1 DEF CompleteOK, Safe, Owned
<1>1. ASSUME accounts'[a] = accounts[a] PROVE Safe(t, u)'
  <2>1. accounts[a].user = u /\ u # NoUser /\ accounts[a].sync = "complete"
    BY <1>1, Names
  <2>2. t \in Owned(a) => Safe(t, u)
    BY <2>1 DEF CompleteOK
  <2>. QED
    BY <2>1, <2>2, OwnedSafe
<1>2. ASSUME NEW h \in Handlers, Link(h), accounts' # accounts PROVE Safe(t, u)'
  <2>1. work[h].acct # a
    BY <1>2 DEF Link, TypeOK, Account
  <2>2. accounts'[a] = accounts[a]
    BY <1>2, <2>1 DEF Link, TypeOK
  <2>. QED
    BY <2>2, <1>1
<1>3. ASSUME NEW h \in Handlers, Create(h), accounts' # accounts PROVE Safe(t, u)'
  <2>1. PICK b \in Accounts :
           /\ ~Known(b) /\ tenants' = tenants
           /\ accounts' = [accounts EXCEPT ![b] =
                 [NoRow EXCEPT !.email = EmailOf[work[h].user], !.user = work[h].user]]
    BY <1>3 DEF Create
  <2>2. a # b
    BY <2>1 DEF RowsOK, Owned
  <2>3. accounts'[a] = accounts[a]
    BY <2>1, <2>2 DEF TypeOK
  <2>. QED
    BY <2>3, <1>1
<1>4. ASSUME NEW w \in Workers, Mark(w), accounts' # accounts PROVE Safe(t, u)'
  <2>1. CASE work[w].acct = a
    <3>1. /\ work[w].at = "mark" /\ accounts'[a].user = accounts[a].user /\ tenants' = tenants
          /\ work[w].user = accounts[a].user
      BY <1>4, <2>1 DEF Mark, TypeOK, Account, ActsOK, Sweeping
    <3>2. t \in Owned(a) => Safe(t, u)
      BY <2>1, <3>1 DEF SweepOK, Sweeping
    <3>. QED
      BY <3>1, <3>2, OwnedSafe
  <2>2. CASE work[w].acct # a
    <3>1. accounts'[a] = accounts[a]
      BY <1>4, <2>2 DEF Mark, TypeOK
    <3>. QED
      BY <3>1, <1>1
  <2>. QED
    BY <2>1, <2>2
<1>5. \/ accounts' = accounts
      \/ \E h \in Handlers : Link(h) \/ Create(h)
      \/ \E w \in Workers : Mark(w)
  BY NextShape DEF Quiet, CreateTenant, ProvisionTenant, Deprovision, RemoveTenant, Post, Call,
                   Provision, EnsureClient, EnsureClientRole, ResolveOwner, AssignOwner,
                   RunFails, DeleteClient, OperatorCreates, OperatorRuns, Restart
<1>. QED
  BY <1>1, <1>2, <1>3, <1>4, <1>5

LEMMA QueueStep ==
  ASSUME IInv, [Next]_vars
  PROVE  QueueOK'
<1>. TypeOK /\ QueueOK /\ RowsKept
  BY RowsStep DEF IInv
<1>1. CASE queue' \subseteq queue
  BY <1>1 DEF QueueOK, RowsKept, TypeOK
<1>2. CASE Tick
  BY <1>2 DEF Tick, QueueOK
<1>3. Next => queue' \subseteq queue \/ Tick
  <2>1. ASSUME NEW h \in Handlers, Request(h) PROVE queue' = queue
    BY <2>1 DEF Request, SignIn, ByEmail, Link, Create, Answer, CreateTenant, ProvisionTenant,
                SignupFails, Deprovision, DeprovisionFails, RemoveTenant
  <2>2. ASSUME NEW w \in Workers, Sweep(w) PROVE queue' = queue
    BY <2>2 DEF Sweep, List, ListFails, NextTenant, Look, Role, Post, Call, CallFails, Mark
  <2>3. ASSUME NEW t \in Tenants, Provision(t) \/ OperatorCreates(t) \/ OperatorRuns(t)
        PROVE  queue' = queue
    BY <2>3 DEF Provision, EnsureClient, EnsureClientRole, ResolveOwner, AssignOwner,
                RunFails, DeleteClient, OperatorCreates, OperatorRuns
  <2>4. (\E u \in Users : Register(u)) \/ TickFails => queue' = queue
    BY DEF Register, TickFails
  <2>5. NextAccount \/ Restart => queue' \subseteq queue
    BY DEF NextAccount, Restart
  <2>6. Handlers \subseteq Workers /\ Retrier \in Workers
    BY DEF Workers
  <2>. QED
    BY <2>1, <2>2, <2>3, <2>4, <2>5, <2>6 DEF Next, Retry
<1>4. UNCHANGED vars => queue' = queue
  BY DEF vars
<1>. QED
  BY <1>1, <1>2, <1>3, <1>4

WorkerOK(w) == ActsOK(w) /\ SweepOK(w)

(* A worker that has not moved: the steps of the others leave what it has  *)
(* read as it was, or the tenant safe.                                     *)
LEMMA OthersKeep ==
  ASSUME IInv, [Next]_vars, NEW w \in Workers, work'[w] = work[w]
  PROVE  WorkerOK(w)'
<1>. TypeOK /\ TypeOK' /\ RowsKept /\ SafeKept /\ ActsOK(w) /\ SweepOK(w)
  BY TypeStep, RowsStep, ClientsStep DEF IInv
<1>1. ActsOK(w)'
  BY Names DEF ActsOK, RowsKept, Known
<1>2. SweepOK(w)'
  <2>1. CASE work[w].at \notin Sweeping
    BY <2>1 DEF SweepOK, Sweeping
  <2>2. CASE work[w].at \in Sweeping
    <3>1. PICK a \in Accounts, u \in Users :
             work[w].acct = a /\ work[w].user = u /\ accounts[a].user = u
      BY <2>2 DEF ActsOK
    <3>2. \A t \in Tenants : t \in Owned(a)' /\ (t \in Owned(a) => Safe(t, u)) => Safe(t, u)'
      BY <3>1, OwnedSafe
    <3>3. ASSUME work[w].at \in Sweeping \ {"list"}, work[w].ok,
                 NEW t \in Tenants, t \in Owned(a)', t \notin work[w].todo,
                 ~(work[w].at \in {"look", "role", "post"} /\ t = work[w].t)
          PROVE  Safe(t, u)'
      <4>1. t \in Owned(a) => Safe(t, u)
        BY <3>1, <3>3 DEF SweepOK
      <4>. QED
        BY <3>2, <3>3, <4>1
    <3>4. ASSUME work[w].at \in {"role", "post"}, NEW t \in Tenants, t = work[w].t, t \in Owned(a)'
          PROVE  clients'[t].id = work[w].id \/ Safe(t, u)'
      <4>1. t \in Owned(a) => clients[t].id = work[w].id \/ Safe(t, u)
        BY <3>1, <3>4 DEF SweepOK
      <4>2. t \in Owned(a) => clients'[t].id = clients[t].id \/ Safe(t, u)'
        BY <3>1 DEF SafeKept, Owned
      <4>. QED
        BY <3>2, <3>4, <4>1, <4>2
    <3>5. work[w].at = "mark" => work[w].ok /\ work[w].todo = {}
      BY DEF SweepOK
    <3>6. \A t : t \in Owned(a)' => t \in Tenants
      BY DEF Owned
    <3>. QED
      BY <3>1, <3>3, <3>4, <3>5, <3>6 DEF SweepOK, Safe, Owned
  <2>. QED
    BY <2>1, <2>2
<1>. QED
  BY <1>1, <1>2 DEF WorkerOK

LEMMA RestsOK ==
  ASSUME NEW w \in Workers, work'[w].at \in {"idle", "account"}
  PROVE  WorkerOK(w)'
BY DEF WorkerOK, ActsOK, SweepOK, Sweeping, SigningIn, SigningUp

(* A request that acts for an account, but sweeps nothing.                 *)
LEMMA ActorOK ==
  ASSUME NEW w \in Workers, work'[w].at \in SigningUp,
         work'[w].user \in Users, work'[w].acct \in Accounts,
         accounts'[work'[w].acct].user = work'[w].user,
         work'[w].at # "signed" => work'[w].t \in Tenants /\ tenants'[work'[w].t].at # "free"
  PROVE  WorkerOK(w)'
BY DEF WorkerOK, ActsOK, SweepOK, Sweeping, SigningIn, SigningUp

(* One that goes from a step of signup to the next.                        *)
LEMMA GoesOn ==
  ASSUME IInv, [Next]_vars, NEW w \in Workers, work[w].at \in SigningUp \ {"signed"},
         NEW to \in SigningUp, work'[w] = [work[w] EXCEPT !.at = to]
  PROVE  WorkerOK(w)'
<1>1. TypeOK /\ RowsKept /\ ActsOK(w)
  BY RowsStep DEF IInv
<1>2. /\ work'[w].at = to /\ work'[w].user = work[w].user /\ work'[w].acct = work[w].acct
      /\ work'[w].t = work[w].t
  BY <1>1 DEF TypeOK, Work
<1>. QED
  BY <1>1, <1>2, ActorOK, Names DEF ActsOK, RowsKept

LEMMA FinishOK ==
  ASSUME IInv, [Next]_vars, NEW w \in Workers, work[w].at \in Sweeping, Finish(w)
  PROVE  WorkerOK(w)'
<1>1. TypeOK /\ RowsKept /\ ActsOK(w)
  BY RowsStep DEF IInv
<1>2. CASE w = Retrier
  BY <1>1, <1>2, RestsOK DEF Finish, Become, Idle, TypeOK
<1>3. CASE w # Retrier
  <2>1. /\ work'[w].at = "signed" /\ work'[w].user = work[w].user /\ work'[w].acct = work[w].acct
    BY <1>1, <1>3 DEF Finish, Become, Idle, TypeOK
  <2>. QED
    BY <1>1, <2>1, ActorOK, Names DEF ActsOK, RowsKept, SigningUp
<1>. QED
  BY <1>2, <1>3

LEMMA PassFields ==
  ASSUME TypeOK, NEW w \in Workers, NEW k, Pass(w, k)
  PROVE  /\ work'[w].at = "next" /\ work'[w].user = work[w].user
         /\ work'[w].acct = work[w].acct /\ work'[w].todo = work[w].todo
         /\ work'[w].ok => work[w].ok /\ k
<1>. DEFINE ok == work[w].ok /\ k
<1>1. work' = [work EXCEPT ![w].at = "next", ![w].t = NoTenant, ![w].id = 0, ![w].ok = ok]
  BY Zenon DEF Pass
<1>. HIDE DEF ok
<1>2. /\ work'[w].at = "next" /\ work'[w].user = work[w].user
      /\ work'[w].acct = work[w].acct /\ work'[w].todo = work[w].todo /\ work'[w].ok = ok
  BY <1>1 DEF TypeOK, Work
<1>. QED
  BY <1>2 DEF ok

(* The sweep leaves a tenant behind: it is safe, or something has failed.  *)
LEMMA PassOK ==
  ASSUME IInv, [Next]_vars, NEW w \in Workers, work[w].at \in {"look", "role", "post"},
         NEW k, Pass(w, k), NEW s \in Tenants, s = work[w].t,
         NEW a \in Accounts, a = work[w].acct, NEW u \in Users, u = work[w].user,
         k /\ s \in Owned(a) => Safe(s, u)'
  PROVE  WorkerOK(w)'
<1>. /\ TypeOK /\ RowsKept /\ ActsOK(w) /\ SweepOK(w)
  BY RowsStep DEF IInv
<1>1. /\ work'[w].at = "next" /\ work'[w].user = u /\ work'[w].acct = a
      /\ work'[w].todo = work[w].todo
      /\ work'[w].ok => work[w].ok /\ k
  BY PassFields
<1>2. accounts[a].user = u /\ accounts'[a].user = u
  BY Names DEF ActsOK, Sweeping, RowsKept
<1>3. ASSUME work'[w].ok, NEW t \in Tenants, t \in Owned(a)', t \notin work[w].todo
      PROVE  Safe(t, u)'
  <2>1. t \in Owned(a) /\ t # s => Safe(t, u)
    BY <1>1, <1>3 DEF SweepOK, Sweeping
  <2>2. CASE t = s /\ t \in Owned(a)
    BY <1>1, <1>3, <2>2
  <2>3. CASE ~(t = s /\ t \in Owned(a))
    BY <1>2, <1>3, <2>1, <2>3, OwnedSafe
  <2>. QED
    BY <2>2, <2>3
<1>4. ActsOK(w)'
  BY <1>1, <1>2 DEF ActsOK, SigningIn, SigningUp, Sweeping
<1>5. SweepOK(w)'
  <2>1. \A t : t \in Owned(a)' => t \in Tenants
    BY DEF Owned
  <2>. QED
    BY <1>1, <1>3, <2>1 DEF SweepOK, Safe, Owned
<1>. QED
  BY <1>4, <1>5 DEF WorkerOK

LEMMA SweeperStep ==
  ASSUME IInv, [Next]_vars, NEW w \in Workers, Sweep(w)
  PROVE  WorkerOK(w)'
<1>. /\ TypeOK /\ TypeOK' /\ RowsKept /\ ActsOK(w) /\ SweepOK(w)
     /\ \A t \in Tenants : ClientOK(t)
  BY TypeStep, RowsStep DEF IInv
<1>1. PICK a \in Accounts, u \in Users :
         work[w].acct = a /\ work[w].user = u /\ accounts[a].user = u /\ work[w].at \in Sweeping
  BY DEF Sweep, List, ListFails, NextTenant, Look, Role, Post, Call, CallFails, Mark,
         ActsOK, Sweeping
<1>2. accounts'[a].user = u
  BY <1>1, Names DEF RowsKept
<1>3. CASE List(w)
  <2>1. /\ work'[w].at = "next" /\ work'[w].user = u /\ work'[w].acct = a
        /\ work'[w].todo = Owned(a) /\ tenants' = tenants
    BY <1>1, <1>3 DEF List, TypeOK, Work
  <2>. QED
    BY <1>1, <1>2, <2>1 DEF WorkerOK, ActsOK, SweepOK, Owned, Sweeping, SigningIn, SigningUp
<1>4. CASE ListFails(w)
  BY <1>1, <1>4, FinishOK DEF ListFails
<1>5. CASE NextTenant(w)
  <2>1. UNCHANGED <<accounts, tenants, clients, run>> /\ work[w].at = "next"
    BY <1>5 DEF NextTenant
  <2>2. ASSUME NEW t \in work[w].todo,
               work' = [work EXCEPT ![w].at = "look", ![w].t = t, ![w].todo = @ \ {t}]
        PROVE  WorkerOK(w)'
    <3>1. /\ work'[w].at = "look" /\ work'[w].user = u /\ work'[w].acct = a /\ work'[w].t = t
          /\ work'[w].todo = work[w].todo \ {t} /\ work'[w].ok = work[w].ok /\ t \in Tenants
      BY <1>1, <2>2 DEF TypeOK, Work
    <3>2. work[w].ok => \A x \in Owned(a) \ work[w].todo : Safe(x, u)
      BY <1>1, <2>1 DEF SweepOK, Sweeping
    <3>3. ActsOK(w)'
      BY <1>1, <1>2, <3>1 DEF ActsOK, SigningIn, SigningUp, Sweeping
    <3>4. SweepOK(w)'
      BY <1>1, <2>1, <3>1, <3>2 DEF SweepOK, Safe, Owned
    <3>. QED
      BY <3>3, <3>4 DEF WorkerOK
  <2>3. ASSUME work[w].todo = {}, work[w].ok, Goto(w, "mark")
        PROVE  WorkerOK(w)'
    <3>1. /\ work'[w].at = "mark" /\ work'[w].user = u /\ work'[w].acct = a
          /\ work'[w].todo = {} /\ work'[w].ok
      BY <1>1, <2>3 DEF Goto, TypeOK, Work
    <3>2. \A x \in Owned(a) : Safe(x, u)
      BY <1>1, <2>1, <2>3 DEF SweepOK, Sweeping
    <3>3. ActsOK(w)'
      BY <1>1, <1>2, <3>1 DEF ActsOK, SigningIn, SigningUp, Sweeping
    <3>4. SweepOK(w)'
      BY <1>1, <2>1, <3>1, <3>2 DEF SweepOK, Safe, Owned
    <3>. QED
      BY <3>3, <3>4 DEF WorkerOK
  <2>4. CASE Finish(w)
    BY <1>1, <2>4, FinishOK
  <2>. QED
    BY <1>5, <2>2, <2>3, <2>4 DEF NextTenant
<1>6. CASE Look(w) \/ Role(w) \/ Post(w) \/ CallFails(w)
  <2>1. work[w].at \in {"look", "role", "post"}
    BY <1>6 DEF Look, Role, Post, Call, CallFails
  <2>2. PICK t \in Tenants : t = work[w].t
    BY <2>1 DEF ActsOK
  <2>3. ASSUME Missing(w), clients' = clients, run' = run, t \in Owned(a) => Safe(t, u)
        PROVE  WorkerOK(w)'
    <3>1. t \in Owned(a) => Safe(t, u)'
      BY <2>3 DEF Safe
    <3>. QED
      BY <1>1, <2>1, <2>2, <2>3, <3>1, PassOK DEF Missing
  <2>4. CASE Look(w) /\ clients[t].id = 0
    <3>1. Safe(t, u)
      BY <2>4 DEF ClientOK, NoClient, Safe
    <3>. QED
      BY <2>2, <2>3, <2>4, <3>1 DEF Look, Call
  <2>5. CASE Look(w) /\ clients[t].id # 0
    <3>1. /\ work' = [work EXCEPT ![w].at = "role", ![w].id = clients[t].id]
          /\ UNCHANGED <<accounts, tenants, clients, run>> /\ work[w].at = "look"
      BY <2>2, <2>5 DEF Look, Call
    <3>2. /\ work'[w].at = "role" /\ work'[w].user = u /\ work'[w].acct = a /\ work'[w].t = t
          /\ work'[w].id = clients[t].id /\ work'[w].todo = work[w].todo
          /\ work'[w].ok = work[w].ok
      BY <1>1, <2>2, <3>1 DEF TypeOK, Work
    <3>3. work[w].ok => \A x \in Owned(a) \ work[w].todo : x = t \/ Safe(x, u)
      BY <1>1, <2>2, <3>1 DEF SweepOK, Sweeping
    <3>4. ActsOK(w)'
      BY <1>1, <1>2, <2>5, <3>2 DEF ActsOK, SigningIn, SigningUp, Sweeping
    <3>5. SweepOK(w)'
      BY <3>1, <3>2, <3>3 DEF SweepOK, Safe, Owned
    <3>. QED
      BY <3>4, <3>5 DEF WorkerOK
  <2>6. CASE Role(w) /\ ~(clients[t].id = work[w].id /\ clients[t].role)
    <3>1. t \in Owned(a) /\ clients[t].id # work[w].id => Safe(t, u)
      BY <1>1, <2>1, <2>2, <2>6 DEF SweepOK, Role, Call
    <3>2. ~clients[t].role => Safe(t, u)
      BY DEF ClientOK, Safe
    <3>. QED
      BY <2>2, <2>3, <2>6, <3>1, <3>2 DEF Role, Call
  <2>7. CASE Role(w) /\ clients[t].id = work[w].id /\ clients[t].role
    <3>1. /\ Goto(w, "post") /\ UNCHANGED <<accounts, tenants, clients, run>>
          /\ work[w].at = "role"
      BY <2>2, <2>7 DEF Role, Call
    <3>2. /\ work'[w].at = "post" /\ work'[w].user = u /\ work'[w].acct = a /\ work'[w].t = t
          /\ work'[w].id = clients[t].id /\ work'[w].todo = work[w].todo
          /\ work'[w].ok = work[w].ok
      BY <1>1, <2>2, <2>7, <3>1 DEF TypeOK, Work, Goto
    <3>3. work[w].ok => \A x \in Owned(a) \ work[w].todo : x = t \/ Safe(x, u)
      BY <1>1, <2>2, <3>1 DEF SweepOK, Sweeping
    <3>4. ActsOK(w)'
      BY <1>1, <1>2, <2>7, <3>1, <3>2 DEF ActsOK, SigningIn, SigningUp, Sweeping
    <3>5. SweepOK(w)'
      BY <3>1, <3>2, <3>3 DEF SweepOK, Safe, Owned
    <3>. QED
      BY <3>4, <3>5 DEF WorkerOK
  <2>8. CASE Post(w) /\ clients[t].id = work[w].id
    <3>1. /\ Pass(w, TRUE)
          /\ clients' = [clients EXCEPT ![t].holders = @ \cup {u}]
      BY <1>1, <2>2, <2>8 DEF Post, Call
    <3>2. clients'[t].holders = clients[t].holders \cup {u}
      BY <3>1 DEF TypeOK, Client
    <3>3. Safe(t, u)'
      BY <3>2 DEF Safe
    <3>. QED
      BY <1>1, <2>1, <2>2, <3>1, <3>3, PassOK
  <2>9. CASE Post(w) /\ clients[t].id # work[w].id
    <3>1. t \in Owned(a) => Safe(t, u)
      BY <1>1, <2>1, <2>2, <2>9 DEF SweepOK, Post, Call
    <3>. QED
      BY <2>2, <2>3, <2>9, <3>1 DEF Post, Call
  <2>10. CASE CallFails(w)
    BY <1>1, <2>1, <2>2, <2>10, PassOK DEF CallFails
  <2>. QED
    BY <1>6, <2>4, <2>5, <2>6, <2>7, <2>8, <2>9, <2>10
<1>7. CASE Mark(w)
  BY <1>1, <1>7, FinishOK DEF Mark
<1>. QED
  BY <1>3, <1>4, <1>5, <1>6, <1>7 DEF Sweep

LEMMA RequesterStep ==
  ASSUME IInv, [Next]_vars, NEW h \in Handlers, Request(h)
  PROVE  WorkerOK(h)'
<1>. /\ TypeOK /\ TypeOK' /\ RowsKept /\ ActsOK(h) /\ h \in Workers
  BY TypeStep, RowsStep DEF IInv, Workers
<1>1. ASSUME Become(h, Idle) PROVE WorkerOK(h)'
  BY <1>1, RestsOK DEF Become, Idle, TypeOK
<1>2. ASSUME NEW u \in Users, SignIn(h, u) PROVE WorkerOK(h)'
  <2>1. CASE EmailOf[u] # NoEmail /\ Become(h, [Idle EXCEPT !.at = "byEmail", !.user = u])
    <3>1. work'[h].at = "byEmail" /\ work'[h].user = u
      BY <2>1 DEF Become, Idle, TypeOK
    <3>. QED
      BY <2>1, <3>1 DEF WorkerOK, ActsOK, SweepOK, Sweeping, SigningIn, SigningUp
  <2>2. ASSUME NEW a \in Accounts, accounts[a].user = u,
               Become(h, [Idle EXCEPT !.at = "signed", !.user = u, !.acct = a])
        PROVE  WorkerOK(h)'
    <3>1. work'[h].at = "signed" /\ work'[h].user = u /\ work'[h].acct = a
      BY <2>2 DEF Become, Idle, TypeOK
    <3>. QED
      BY <2>2, <3>1, ActorOK, Names DEF RowsKept, SigningUp
  <2>. QED
    BY <1>2, <2>1, <2>2 DEF SignIn
<1>3. CASE ByEmail(h)
  <2>1. /\ work[h].user \in Users /\ EmailOf[work[h].user] # NoEmail
        /\ accounts' = accounts /\ work[h].at = "byEmail"
    BY <1>3 DEF ByEmail, ActsOK, SigningIn
  <2>2. CASE Goto(h, "create")
    <3>1. work'[h].at = "create" /\ work'[h].user = work[h].user
      BY <2>2 DEF Goto, TypeOK, Work
    <3>. QED
      BY <2>1, <3>1 DEF WorkerOK, ActsOK, SweepOK, Sweeping, SigningIn, SigningUp
  <2>3. ASSUME NEW a \in Accounts, accounts[a].email = EmailOf[work[h].user],
               work' = [work EXCEPT ![h].at = "link", ![h].acct = a]
        PROVE  WorkerOK(h)'
    <3>1. work'[h].at = "link" /\ work'[h].user = work[h].user /\ work'[h].acct = a
      BY <2>3 DEF TypeOK, Work
    <3>. QED
      BY <2>1, <2>3, <3>1 DEF WorkerOK, ActsOK, SweepOK, Sweeping, SigningIn, SigningUp, Known
  <2>. QED
    BY <1>3, <2>2, <2>3 DEF ByEmail
<1>4. CASE Link(h)
  <2>1. work[h].acct \in Accounts /\ work[h].user \in Users
    BY <1>4 DEF Link, ActsOK, SigningIn
  <2>2. \/ Become(h, Idle)
        \/ Goto(h, "list") /\ accounts'[work[h].acct].user = work[h].user
    BY <1>4, <2>1 DEF Link, TypeOK, Account
  <2>3. ASSUME Goto(h, "list"), accounts'[work[h].acct].user = work[h].user
        PROVE  WorkerOK(h)'
    <3>1. /\ work'[h].at = "list" /\ work'[h].user = work[h].user
          /\ work'[h].acct = work[h].acct
      BY <2>3 DEF Goto, TypeOK, Work
    <3>. QED
      BY <2>1, <2>3, <3>1 DEF WorkerOK, ActsOK, SweepOK, Sweeping, SigningIn, SigningUp
  <2>. QED
    BY <1>1, <2>2, <2>3
<1>5. CASE Create(h)
  <2>1. work[h].user \in Users
    BY <1>5 DEF Create, ActsOK, SigningIn
  <2>2. \/ Become(h, Idle)
        \/ \E a \in Accounts : /\ accounts'[a].user = work[h].user
                               /\ work' = [work EXCEPT ![h].at = "signed", ![h].acct = a]
    <3>1. ASSUME NEW a \in Accounts,
                 accounts' = [accounts EXCEPT ![a] =
                    [NoRow EXCEPT !.email = EmailOf[work[h].user], !.user = work[h].user]]
          PROVE  accounts'[a].user = work[h].user
      BY <3>1 DEF TypeOK, NoRow
    <3>. QED
      BY <1>5, <3>1 DEF Create
  <2>3. ASSUME NEW a \in Accounts, accounts'[a].user = work[h].user,
               work' = [work EXCEPT ![h].at = "signed", ![h].acct = a]
        PROVE  WorkerOK(h)'
    <3>1. work'[h].at = "signed" /\ work'[h].user = work[h].user /\ work'[h].acct = a
      BY <2>3 DEF TypeOK, Work
    <3>. QED
      BY <2>1, <2>3, <3>1, ActorOK DEF SigningUp
  <2>. QED
    BY <1>1, <2>2, <2>3
<1>6. CASE Answer(h)
  BY <1>1, <1>6 DEF Answer
<1>7. CASE CreateTenant(h)
  <2>1. PICK t \in Tenants : /\ tenants'[t].at = "stored" /\ accounts' = accounts
                             /\ work' = [work EXCEPT ![h].at = "provision", ![h].t = t]
    <3>1. PICK t \in Tenants :
             /\ tenants' = [tenants EXCEPT ![t] = [at |-> "stored", owner |-> work[h].acct,
                                                  admin |-> accounts[work[h].acct].email]]
             /\ work' = [work EXCEPT ![h].at = "provision", ![h].t = t]
      BY <1>7 DEF CreateTenant
    <3>2. tenants'[t].at = "stored"
      BY <3>1 DEF TypeOK
    <3>. QED
      BY <1>7, <3>1, <3>2 DEF CreateTenant
  <2>2. /\ work'[h].at = "provision" /\ work'[h].user = work[h].user
        /\ work'[h].acct = work[h].acct /\ work'[h].t = t
    BY <2>1 DEF TypeOK, Work
  <2>3. /\ work[h].user \in Users /\ work[h].acct \in Accounts
        /\ accounts[work[h].acct].user = work[h].user
    BY <1>7 DEF CreateTenant, ActsOK, SigningUp
  <2>. QED
    BY <2>1, <2>2, <2>3, ActorOK DEF SigningUp
<1>8. CASE \/ ProvisionTenant(h) \/ SignupFails(h) \/ Deprovision(h) \/ DeprovisionFails(h)
  <2>1. PICK to \in {"running", "undo", "undoing", "remove"} : Goto(h, to)
    BY <1>8 DEF ProvisionTenant, SignupFails, Deprovision, DeprovisionFails
  <2>2. work[h].at \in SigningUp \ {"signed"}
    BY <1>8 DEF ProvisionTenant, SignupFails, Deprovision, DeprovisionFails, SigningUp
  <2>3. work'[h] = [work[h] EXCEPT !.at = to] /\ to \in SigningUp
    BY <2>1 DEF Goto, TypeOK, SigningUp
  <2>. QED
    BY <2>2, <2>3, GoesOn
<1>9. CASE RemoveTenant(h)
  BY <1>1, <1>9 DEF RemoveTenant
<1>. QED
  BY <1>2, <1>3, <1>4, <1>5, <1>6, <1>7, <1>8, <1>9 DEF Request

(* A step of one worker moves no other.                                    *)
LEMMA OthersStay ==
  ASSUME TypeOK, NEW w \in Workers, Sweep(w) \/ Request(w), NEW v \in Workers, v # w
  PROVE  work'[v] = work[v]
<1>1. CASE Sweep(w)
  BY <1>1 DEF Sweep, List, ListFails, NextTenant, Look, Role, Post, Call, CallFails, Mark,
              Missing, Pass, Finish, Become, Goto, TypeOK
<1>2. CASE Request(w)
  BY <1>2 DEF Request, SignIn, ByEmail, Link, Create, Answer, CreateTenant, ProvisionTenant,
              SignupFails, Deprovision, DeprovisionFails, RemoveTenant, Become, Goto, TypeOK
<1>. QED
  BY <1>1, <1>2

(* The end of a run moves the request that waited for it, and nobody else. *)
LEMMA RunMoves ==
  ASSUME IInv, NEW t \in Tenants, Provision(t)
  PROVE  \A w \in Workers :
            \/ work'[w] = work[w] /\ (run'[t].at = "idle" => w \notin Handlers \/ run[t].by # w)
            \/ /\ w \in Handlers /\ w = run[t].by /\ run[t].at # "idle" /\ run'[t].at = "idle"
               /\ \E to \in {"settle", "undo", "remove"} : work'[w] = [work[w] EXCEPT !.at = to]
<1>. TypeOK
  BY DEF IInv
<1>1. CASE EnsureClient(t) \/ EnsureClientRole(t) \/ ResolveOwner(t)
  <2>1. work' = work /\ run'[t].at # "idle"
    BY <1>1 DEF EnsureClient, EnsureClientRole, ResolveOwner, TypeOK, Run
  <2>. QED
    BY <2>1
<1>2. CASE AssignOwner(t) \/ RunFails(t) \/ DeleteClient(t)
  <2>1. PICK to \in {"settle", "undo", "remove"} : Report(t, to)
    BY <1>2 DEF AssignOwner, RunFails, DeleteClient
  <2>2. run'[t].at = "idle" /\ run[t].at # "idle"
    BY <1>2 DEF AssignOwner, RunFails, DeleteClient, Unlock, NoRun, TypeOK
  <2>. QED
    BY <2>1, <2>2 DEF Report, Goto, TypeOK
<1>. QED
  BY <1>1, <1>2 DEF Provision

LEMMA WorkersStep ==
  ASSUME IInv, [Next]_vars, NEW w \in Workers
  PROVE  WorkerOK(w)'
<1>. TypeOK /\ Handlers \subseteq Workers /\ Retrier \in Workers /\ RowsKept
  BY RowsStep DEF IInv, Workers
<1>1. CASE work'[w] = work[w]
  BY <1>1, OthersKeep
<1>2. ASSUME NEW h \in Handlers, Request(h) \/ Sweep(h) PROVE WorkerOK(w)'
  BY <1>1, <1>2, RequesterStep, SweeperStep, OthersStay
<1>3. ASSUME NEW t \in Tenants, Provision(t) PROVE WorkerOK(w)'
  <2>1. CASE work'[w] # work[w]
    <3>1. /\ w \in Handlers /\ w = run[t].by /\ run[t].at # "idle"
          /\ \E to \in {"settle", "undo", "remove"} : work'[w] = [work[w] EXCEPT !.at = to]
      BY <1>3, <2>1, RunMoves
    <3>2. work[w].at \in SigningUp \ {"signed"}
      BY <3>1 DEF IInv, RunOK, SigningUp
    <3>. QED
      BY <3>1, <3>2, GoesOn DEF SigningUp
  <2>. QED
    BY <1>1, <2>1
<1>4. CASE Retry
  <2>1. CASE Tick
    <3>1. work'[Retrier].at = "account" /\ (w # Retrier => work'[w] = work[w])
      BY <2>1 DEF Tick, Goto, TypeOK, Work
    <3>. QED
      BY <1>1, <3>1, RestsOK
  <2>2. CASE NextAccount
    <3>1. w # Retrier => work'[w] = work[w]
      BY <2>2 DEF NextAccount, Become, TypeOK
    <3>2. ASSUME NEW a \in queue, w = Retrier,
                 Become(Retrier, [Idle EXCEPT !.at = "list", !.acct = a, !.user = accounts[a].user])
          PROVE  WorkerOK(w)'
      <4>1. work'[w].at = "list" /\ work'[w].acct = a /\ work'[w].user = accounts[a].user
        BY <3>2 DEF Become, Idle, TypeOK
      <4>2. a \in Accounts /\ accounts[a].user \in Users /\ accounts' = accounts
        BY <2>2 DEF NextAccount, IInv, QueueOK, TypeOK, Account, Subjects
      <4>. QED
        BY <4>1, <4>2 DEF WorkerOK, ActsOK, SweepOK, Sweeping, SigningIn, SigningUp
    <3>3. CASE w = Retrier /\ Become(Retrier, Idle)
      BY <3>3, RestsOK DEF Become, Idle, TypeOK
    <3>. QED
      BY <1>1, <2>2, <3>1, <3>2, <3>3 DEF NextAccount
  <2>3. CASE Sweep(Retrier)
    BY <1>1, <2>3, SweeperStep, OthersStay
  <2>. QED
    BY <1>4, <2>1, <2>2, <2>3 DEF Retry
<1>5. CASE Restart
  BY <1>5, RestsOK DEF Restart, Idle
<1>6. \/ \E u \in Users : Register(u)
      \/ \E t \in Tenants : OperatorCreates(t) \/ OperatorRuns(t)
      \/ TickFails
      \/ UNCHANGED vars
      => work' = work
  BY DEF Register, OperatorCreates, OperatorRuns, TickFails, vars
<1>. QED
  BY <1>1, <1>2, <1>3, <1>4, <1>5, <1>6 DEF Next

(* A lock is held for a request that waits, whatever the others do.        *)
LEMMA WaitsFor ==
  ASSUME TypeOK, \A t \in Tenants : RunOK(t), run' = run, NEW w \in Workers,
         work[w].at \notin {"running", "undoing"} \/ w \notin Handlers,
         \A v \in Workers : v # w => work'[v] = work[v]
  PROVE  \A t \in Tenants : RunOK(t)'
BY DEF RunOK, Workers

LEMMA RunsStep ==
  ASSUME IInv, [Next]_vars
  PROVE  \A t \in Tenants : RunOK(t)'
<1>. DEFINE P == \A t \in Tenants : RunOK(t)'
<1>. /\ TypeOK /\ \A t \in Tenants : RunOK(t)
     /\ Handlers \subseteq Workers /\ Retrier \in Workers /\ Retrier \notin Handlers
     /\ Operator \notin Handlers
  BY Names DEF IInv, Workers
<1>1. ASSUME NEW w \in Workers, Sweep(w) PROVE P
  <2>1. run' = run /\ work[w].at \notin {"running", "undoing"}
    BY <1>1 DEF Sweep, List, ListFails, NextTenant, Look, Role, Post, Call, CallFails, Mark
  <2>. QED
    BY <1>1, <2>1, OthersStay, WaitsFor
<1>2. ASSUME NEW h \in Handlers, NEW at \in {"client", "delete"}, NEW t \in Tenants,
             Lock(t, at, h), work[h].t = t, NEW to \in {"running", "undoing"}, Goto(h, to),
             work[h].at \notin {"running", "undoing"}
      PROVE  P
  <2>1. /\ run'[t].by = h /\ \A s \in Tenants : s # t => run'[s] = run[s]
    BY <1>2, LocksStep
  <2>2. /\ work'[h].at = to /\ work'[h].t = t
        /\ \A v \in Workers : v # h => work'[v] = work[v]
    BY <1>2 DEF Goto, TypeOK, Work
  <2>. QED
    BY <1>2, <2>1, <2>2 DEF RunOK
<1>3. ASSUME NEW h \in Handlers, Request(h) PROVE P
  <2>1. CASE ProvisionTenant(h) \/ Deprovision(h)
    <3>1. work[h].t \in Tenants
      BY <2>1 DEF ProvisionTenant, Deprovision, IInv, ActsOK, SigningUp
    <3>. QED
      BY <1>2, <2>1, <3>1 DEF ProvisionTenant, Deprovision
  <2>2. CASE ~(ProvisionTenant(h) \/ Deprovision(h))
    <3>1. run' = run /\ work[h].at \notin {"running", "undoing"}
      BY <1>3, <2>2 DEF Request, SignIn, ByEmail, Link, Create, Answer, CreateTenant,
                        SignupFails, DeprovisionFails, RemoveTenant
    <3>. QED
      BY <1>3, <3>1, OthersStay, WaitsFor
  <2>. QED
    BY <2>1, <2>2
<1>4. ASSUME NEW t \in Tenants, Provision(t) PROVE P
  <2>1. \A s \in Tenants : s # t => run'[s] = run[s]
    BY <1>4 DEF Provision, EnsureClient, EnsureClientRole, ResolveOwner, AssignOwner, RunFails,
                DeleteClient, Unlock, TypeOK
  <2>2. run[t].at # "idle" /\ (run'[t].at # "idle" => run'[t].by = run[t].by)
    BY <1>4 DEF Provision, EnsureClient, EnsureClientRole, ResolveOwner, AssignOwner, RunFails,
                DeleteClient, Unlock, NoRun, TypeOK, Run
  <2>. SUFFICES ASSUME NEW s \in Tenants, NEW h \in Handlers,
                       run'[s].at # "idle", run'[s].by = h
                PROVE  work'[h].at \in {"running", "undoing"} /\ work'[h].t = s
    BY DEF RunOK
  <2>3. /\ run[s].at # "idle" /\ run[s].by = h
        /\ work[h].at \in {"running", "undoing"} /\ work[h].t = s
    BY <2>1, <2>2 DEF RunOK
  <2>4. ~(h = run[t].by /\ run[t].at # "idle" /\ run'[t].at = "idle")
    BY <2>3 DEF RunOK
  <2>5. work'[h] = work[h]
    BY <1>4, <2>4, RunMoves
  <2>. QED
    BY <2>3, <2>5
<1>5. ASSUME NEW t \in Tenants, OperatorRuns(t) PROVE P
  <2>1. PICK at \in {"client", "delete"} : Lock(t, at, Operator) /\ work' = work
    BY <1>5 DEF OperatorRuns
  <2>2. run'[t].by = Operator /\ \A s \in Tenants : s # t => run'[s] = run[s]
    BY <2>1, LocksStep
  <2>. QED
    BY <2>1, <2>2 DEF RunOK
<1>6. ASSUME Tick \/ NextAccount PROVE P
  <2>1. run' = run /\ \A v \in Workers : v # Retrier => work'[v] = work[v]
    BY <1>6 DEF Tick, NextAccount, Become, Goto, TypeOK
  <2>. QED
    BY <2>1, WaitsFor
<1>7. ASSUME Restart PROVE P
  BY <1>7 DEF Restart, RunOK, NoRun
<1>8. ASSUME UNCHANGED <<run, work>> PROVE P
  BY <1>8 DEF RunOK
<1>9. \/ \E u \in Users : Register(u)
      \/ \E t \in Tenants : OperatorCreates(t)
      \/ TickFails
      \/ UNCHANGED vars
      => UNCHANGED <<run, work>>
  BY DEF Register, OperatorCreates, TickFails, vars
<1>. HIDE DEF P
<1>10. P
  BY <1>1, <1>3, <1>4, <1>5, <1>6, <1>7, <1>8, <1>9 DEF Next, Retry
<1>. QED
  BY <1>10 DEF P

-----------------------------------------------------------------------------
(* The theorems.                                                           *)

LEMMA InitHolds == Init => IInv
<1>. SUFFICES ASSUME Init PROVE IInv
  OBVIOUS
<1>1. /\ accounts \in [Accounts -> Account]
      /\ \A a \in Accounts : accounts[a].user = NoUser
  <2>0. PICK S \in SUBSET Accounts : \E address \in [S -> Emails] :
           accounts = [a \in Accounts |->
                         IF a \in S THEN [NoRow EXCEPT !.email = address[a]] ELSE NoRow]
    BY DEF Init
  <2>1. PICK address \in [S -> Emails] :
           accounts = [a \in Accounts |->
                         IF a \in S THEN [NoRow EXCEPT !.email = address[a]] ELSE NoRow]
    BY <2>0
  <2>2. ASSUME NEW a \in S
        PROVE  /\ [NoRow EXCEPT !.email = address[a]] \in Account
               /\ [NoRow EXCEPT !.email = address[a]].user = NoUser
    BY DEF NoRow, Account, Addresses, Subjects
  <2>3. NoRow.user = NoUser
    BY DEF NoRow
  <2>. QED
    BY <2>1, <2>2, <2>3, Blanks
<1>2. /\ users = {} /\ tenants = [t \in Tenants |-> NoTenantRow]
      /\ clients = [t \in Tenants |-> NoClient] /\ run = [t \in Tenants |-> NoRun]
      /\ work = [w \in Workers |-> Idle] /\ queue = {} /\ runs = 0 /\ faults = 0
  BY DEF Init
<1>3. TypeOK
  <2>1. NoTenantRow \in Tenant
    BY DEF NoTenantRow, Tenant, Addresses
  <2>. QED
    BY <1>1, <1>2, <2>1, Blanks, Names DEF TypeOK
<1>4. \A t \in Tenants : /\ tenants[t].at = "free" /\ clients[t] = NoClient
                         /\ run[t].at = "idle"
  BY <1>2 DEF NoTenantRow, NoRun
<1>5. RowsOK /\ CompleteOK /\ QueueOK
  BY <1>1, <1>2, <1>4 DEF RowsOK, CompleteOK, QueueOK
<1>6. \A t \in Tenants : ClientOK(t) /\ RunOK(t)
  BY <1>4 DEF ClientOK, RunOK, NoClient
<1>7. \A w \in Workers : ActsOK(w) /\ SweepOK(w)
  BY <1>2 DEF ActsOK, SweepOK, Idle, SigningIn, Sweeping, SigningUp
<1>. QED
  BY <1>3, <1>5, <1>6, <1>7 DEF IInv

LEMMA NextKeeps == IInv /\ [Next]_vars => IInv'
<1>. SUFFICES ASSUME IInv, [Next]_vars PROVE IInv'
  OBVIOUS
<1>1. \A w \in Workers : ActsOK(w)' /\ SweepOK(w)'
  BY WorkersStep DEF WorkerOK
<1>2. \A t \in Tenants : ClientOK(t)' /\ RunOK(t)'
  BY ClientsStep, RunsStep
<1>. QED
  BY <1>1, <1>2, TypeStep, RowsStep, CompleteStep, QueueStep DEF IInv

(* The inductive invariant holds throughout, whatever the users sign in,   *)
(* the operator runs, and calls fail.                                      *)
THEOREM Invariance == Spec => []IInv
<1>. QED
  BY InitHolds, NextKeeps, PTL DEF Spec

(* Every variable keeps its type.                                          *)
THEOREM TypeCorrect == Spec => []TypeOK
<1>1. IInv => TypeOK
  BY DEF IInv
<1>. QED
  BY <1>1, Invariance, PTL

(* markRoleSyncComplete tells the truth: an account it has marked has the  *)
(* role on every tenant of its own that a run has seen through, however    *)
(* runs, replaced clients, sign-ins and the retry loop fall between the    *)
(* sweep's calls.                                                          *)
THEOREM CompleteIsAssigned == Spec => []CompleteMeansAssigned
<1>1. IInv => CompleteMeansAssigned
  BY Names DEF IInv, CompleteOK, CompleteMeansAssigned, Safe, Owned
<1>. QED
  BY <1>1, Invariance, PTL

(* A request, or a tick, acts for an account as the user it is linked to,  *)
(* although the account was looked up by address some steps before.        *)
THEOREM ActsAsThemselves == Spec => []SignedInAsThemselves
<1>1. IInv => SignedInAsThemselves
  BY DEF IInv, ActsOK, SignedInAsThemselves
<1>. QED
  BY <1>1, Invariance, PTL

=============================================================================
