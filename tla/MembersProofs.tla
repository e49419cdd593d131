---------------------------- MODULE MembersProofs ----------------------------
(* Proofs about Members, for any identities, campaigns, links, notes, pods *)
(* and requests: a campaign has one owner, an account one membership in a  *)
(* campaign, identities and memberships change hands only in a race, and   *)
(* notes name members of their campaign.                                   *)
EXTENDS Members, FiniteSetTheorems, TLAPS

-----------------------------------------------------------------------------
(* The inductive invariant.                                                *)

(* The foreign keys and the unique email; a row that is not there is blank.*)
RowsOK ==
    /\ \A m \in Members : member[m].at = "none" => member[m].user = NoAccount
    /\ \A m \in StoredMembers : /\ member[m].campaign \in campaigns
                                /\ member[m].user \in StoredAccounts \cup {NoAccount}
    /\ \A l \in Links : link[l].at # "none" => /\ link[l].campaign \in campaigns
                                               /\ link[l].by # NoAccount
    /\ \A a \in Accounts : account[a].at = "none" => account[a].sub = NoSub
    /\ \A a, b \in StoredAccounts : account[a].email = account[b].email => a = b

(* Until a pod has committed the default campaign, nobody is a member and  *)
(* nothing is served.                                                      *)
NothingYet ==
    Default \notin campaigns =>
        /\ StoredMembers = {}
        /\ \A p \in Pods : boot[p] # "up"
        /\ \A r \in Requests : At(r, "idle")

(* What a request has found stays so: accounts, memberships and links are  *)
(* not taken away.                                                         *)
RequestOK(r) ==
    LET me == request[r] IN
    /\ \/ me.pc \in {"update", "adopt", "signedIn", "claim", "claimWrite"}
       \/ me.pc = "guest" /\ me.op = "claim"
       => me.account \in StoredAccounts
    /\ me.op # "account" => link[me.link].at # "none"
    /\ me.op \in {"claim", "edit"} => /\ me.member \in StoredMembers
                                      /\ member[me.member].role = "guest"
    /\ me.pc = "join" => me.op = "join"
    /\ me.pc = "guest" => me.op \in {"claim", "edit"}
    /\ me.pc \in {"claim", "claimWrite"} => me.op = "claim"
    /\ me.pc = "edit" => /\ me.op = "edit"
                         /\ member[me.member].campaign = link[me.link].campaign

(* An account found to be linked still is, to the same identity, but for a *)
(* race.                                                                   *)
LinkedOK(r) ==
    LET me == request[r] IN
    me.pc \in {"update", "adopt"} /\ ~me.unlinked =>
        account[me.account].sub = me.sub \/ <<"account", me.account>> \in raced

(* What a claim has read, that the membership is free and the account not  *)
(* in the campaign, still holds, but for a race.                           *)
ClaimOK(r) ==
    LET me == request[r]
        m  == me.member
    IN  At(r, "claimWrite") =>
          /\ member[m].user # NoAccount => <<"member", m>> \in raced
          /\ \A k \in MembershipsOf(me.account, member[m].campaign) :
                 {<<"member", k>>, <<"member", m>>} \subseteq raced

RequestsOK == \A r \in Requests : RequestOK(r) /\ LinkedOK(r) /\ ClaimOK(r)

(* OneOwner without Cardinality.                                           *)
OwnerInv ==
    /\ \A c \in campaigns : \E m \in Members : OwnerSeats(c) = {m}
    /\ \A l \in Links : link[l].at # "none" => OwnsCampaign(link[l].by, link[l].campaign)

IInv == /\ TypeOK /\ RowsOK /\ NothingYet /\ RequestsOK
        /\ OwnerInv /\ OneSeat /\ AuthorsBelong

Data == RowsOK /\ OwnerInv /\ OneSeat /\ AuthorsBelong

-----------------------------------------------------------------------------
(* The operators.                                                          *)

LEMMA Constants ==
  /\ Accounts \subseteq Nat \ {0} /\ NoAccount \notin Accounts /\ 1 \in Accounts
  /\ Members \subseteq Nat \ {0} /\ NoMember \notin Members /\ 1 \in Members
  /\ AnySub \in Subs /\ AnyEmail \in Emails /\ AnyLink \in Links
  /\ Default \in Campaigns /\ NoSub \notin Subs
  /\ IsFiniteSet(Emails)
<1>1. Cardinality(Emails) \in Nat /\ Cardinality(Emails) # 0
  BY EmailsAssumption, FS_CardinalityType, FS_EmptySet
<1>. QED
  BY <1>1, EmailsAssumption, SubsAssumption, DefaultAssumption, BoundsAssumption, LinksAssumption
     DEF Accounts, NoAccount, Members, NoMember, AnySub, AnyEmail, AnyLink

LEMMA IdleType == Idle \in Request /\ Idle.pc = "idle" /\ Idle.op = "account"
  BY Constants DEF Idle, Request, Ops

(* The emails are unique, so while one is free there is room for a row.    *)
LEMMA NewAccountIsFree ==
  ASSUME TypeOK, RowsOK, NEW e \in Emails, WithEmail(e) = {}
  PROVE  NewAccount \in Accounts \ StoredAccounts
<1>1. SUFFICES ASSUME Accounts \subseteq StoredAccounts PROVE FALSE
  BY DEF NewAccount
<1>. DEFINE f == [a \in Accounts |-> account[a].email]
<1>2. f \in [Accounts -> Emails \ {e}]
  BY <1>1 DEF TypeOK, Account, WithEmail
<1>3. /\ IsFiniteSet(Emails) /\ Cardinality(Emails) \in Nat
      /\ IsFiniteSet(Emails \ {e}) /\ Cardinality(Emails \ {e}) = Cardinality(Emails) - 1
  BY Constants, FS_RemoveElement, FS_CardinalityType
<1>4. IsFiniteSet(Accounts) /\ Cardinality(Accounts) = Cardinality(Emails)
  BY <1>3, FS_Interval DEF Accounts
<1>5. PICK a \in Accounts, b \in Accounts : a # b /\ f[a] = f[b]
  <2>. HIDE DEF f
  <2>1. Cardinality(Emails \ {e}) < Cardinality(Accounts)
    BY <1>3, <1>4
  <2>. QED
    BY <1>2, <1>3, <1>4, <2>1, FS_PigeonHole
<1>. QED
  BY <1>1, <1>5 DEF RowsOK

LEMMA NewMemberIsFree ==
  ASSUME Room
  PROVE  NewMember \in Members \ StoredMembers
BY DEF Room, NewMember, StoredMembers

-----------------------------------------------------------------------------
(* What every step keeps, and what that says of the other requests.        *)

RowsKept ==
    /\ \A m \in StoredMembers : /\ m \in StoredMembers'
                                /\ member'[m].campaign = member[m].campaign
                                /\ member'[m].role = member[m].role
    /\ \A l \in Links : link[l].at # "none" =>
           link'[l].at # "none" /\ link'[l].campaign = link[l].campaign
    /\ StoredAccounts \subseteq StoredAccounts'
    /\ raced \subseteq raced'

(* An identity is kept or the account is marked.                           *)
SubsKept ==
    \A a \in Accounts : \/ account[a].sub = NoSub
                        \/ account'[a].sub = account[a].sub
                        \/ <<"account", a>> \in raced'

(* What is still free for the claim of q, which wrote nothing: nobody's    *)
(* place in the campaign, nor the membership, is taken.                    *)
ClaimKept(q) ==
    LET m == request[q].member
        a == request[q].account
        c == member[m].campaign
    IN  /\ member'[m].user # NoAccount => member'[m].user = member[m].user
        /\ \A k \in Members :
               member'[k].at = "stored" /\ member'[k].user = a /\ member'[k].campaign = c
               => k \in MembershipsOf(a, c)

LEMMA OtherRequests ==
  ASSUME TypeOK, NEW q \in Requests, RequestOK(q), LinkedOK(q), ClaimOK(q),
         request'[q] = request[q], RowsKept, SubsKept, At(q, "claimWrite") => ClaimKept(q)
  PROVE  (RequestOK(q) /\ LinkedOK(q) /\ ClaimOK(q))'
<1>1. request[q] \in Request
  BY DEF TypeOK
<1>2. RequestOK(q)'
  BY <1>1 DEF RequestOK, RowsKept, Request
<1>3. LinkedOK(q)'
  <2>1. SUFFICES ASSUME request[q].pc \in {"update", "adopt"}, ~request[q].unlinked
                 PROVE  \/ account'[request[q].account].sub = request[q].sub
                        \/ <<"account", request[q].account>> \in raced'
    BY DEF LinkedOK
  <2>2. request[q].account \in Accounts
    BY <2>1 DEF RequestOK, StoredAccounts
  <2>3. request[q].sub # NoSub
    BY <1>1, Constants DEF Request
  <2>. QED
    BY <2>1, <2>2, <2>3 DEF LinkedOK, RowsKept, SubsKept
<1>4. ClaimOK(q)'
  <2>1. SUFFICES ASSUME At(q, "claimWrite") PROVE ClaimOK(q)'
    BY DEF ClaimOK, At
  <2>2. request[q].member \in StoredMembers
    BY <2>1 DEF RequestOK, At
  <2>3. member'[request[q].member].campaign = member[request[q].member].campaign
    BY <2>2 DEF RowsKept
  <2>. QED
    BY <2>1, <2>3 DEF ClaimOK, ClaimKept, RowsKept, At, MembershipsOf, StoredMembers
<1>. QED
  BY <1>2, <1>3, <1>4

(* A step of request r.                                                    *)
LEMMA RequestStep ==
  ASSUME TypeOK, RequestsOK, NEW r \in Requests, request' = [request EXCEPT ![r] = request'[r]],
         RowsKept, SubsKept,
         \A q \in Requests \ {r} : At(q, "claimWrite") => ClaimKept(q),
         (RequestOK(r) /\ LinkedOK(r) /\ ClaimOK(r))'
  PROVE  RequestsOK'
<1>1. \A q \in Requests \ {r} : request'[q] = request[q]
  BY DEF TypeOK
<1>2. \A q \in Requests \ {r} : (RequestOK(q) /\ LinkedOK(q) /\ ClaimOK(q))'
  BY <1>1, OtherRequests DEF RequestsOK
<1>. QED
  BY <1>2 DEF RequestsOK

LEMMA IdleOK ==
  ASSUME NEW r \in Requests, request'[r] = Idle
  PROVE  (RequestOK(r) /\ LinkedOK(r) /\ ClaimOK(r))'
BY IdleType DEF RequestOK, LinkedOK, ClaimOK, At

(* A request that has begun is served on a database with a campaign.       *)
LEMMA Serving ==
  ASSUME NothingYet, NEW r \in Requests, ~At(r, "idle")
  PROVE  Default \in campaigns
BY DEF NothingYet

LEMMA StillServing ==
  ASSUME Default \in campaigns, campaigns \subseteq campaigns'
  PROVE  NothingYet'
BY DEF NothingYet
-----------------------------------------------------------------------------
(* Steps that read only.                                                   *)

LEMMA DataSame ==
  ASSUME Data, UNCHANGED <<database, raced>>
  PROVE  Data' /\ RowsKept /\ SubsKept /\ \A q \in Requests : ClaimKept(q)
<1>1. UNCHANGED <<account, campaigns, member, link, note, raced>>
  BY DEF database
<1>2. Data'
  BY <1>1 DEF Data, RowsOK, OwnerInv, OneSeat, AuthorsBelong, StoredMembers, StoredAccounts,
              OwnerSeats, OwnsCampaign, MembershipsOf
<1>3. RowsKept /\ SubsKept
  BY <1>1 DEF RowsKept, SubsKept, StoredMembers, StoredAccounts
<1>4. ASSUME NEW q \in Requests PROVE ClaimKept(q)
  BY <1>1 DEF ClaimKept, StoredMembers, MembershipsOf
<1>. QED
  BY <1>2, <1>3, <1>4

LEMMA ReadStep ==
  ASSUME IInv, NEW r \in Requests, ~At(r, "idle") \/ Default \in campaigns,
         UNCHANGED <<database, boot, raced>>, begun' \in 0 .. MaxRequests,
         request' = [request EXCEPT ![r] = request'[r]], request'[r] \in Request,
         (RequestOK(r) /\ LinkedOK(r) /\ ClaimOK(r))'
  PROVE  IInv'
<1>1. Data' /\ RowsKept /\ SubsKept /\ \A q \in Requests : ClaimKept(q)
  BY DataSame DEF IInv, Data
<1>2. RequestsOK'
  BY <1>1, RequestStep DEF IInv
<1>3. NothingYet'
  BY Serving, StillServing DEF IInv, database
<1>4. TypeOK'
  BY DEF IInv, TypeOK, database
<1>. QED
  BY <1>1, <1>2, <1>3, <1>4 DEF IInv, Data

LEMMA RequestEnds ==
  ASSUME IInv, NEW r \in Requests, ~At(r, "idle"), Ended(r),
         UNCHANGED <<database, boot, begun, raced>>
  PROVE  IInv'
<1>1. request' = [request EXCEPT ![r] = Idle] /\ request'[r] = Idle
  BY DEF Ended, Goto, IInv, TypeOK
<1>2. Idle \in Request /\ begun' \in 0 .. MaxRequests
  BY IdleType DEF IInv, TypeOK
<1>. QED
  BY <1>1, <1>2, IdleOK, ReadStep

LEMMA EndingSteps ==
  ASSUME IInv, NEW r \in Requests,
         ConnectTimesOut(r) \/ ReadsOnly(r) \/ SharedReads(r) \/ RequestFails(r)
  PROVE  IInv'
BY RequestEnds DEF ConnectTimesOut, ReadsOnly, SharedReads, RequestFails, Answers, At

LEMMA LooksUpKeeps ==
  ASSUME IInv, NEW r \in Requests, LooksUp(r)
  PROVE  IInv'
<1>. DEFINE me == request[r]
<1>1. /\ me \in Request /\ request \in [Requests -> Request] /\ me.pc = "signIn"
      /\ UNCHANGED <<database, boot, begun, raced>> /\ begun' \in 0 .. MaxRequests
      /\ account \in [Accounts -> Account] /\ RequestOK(r) /\ ~At(r, "idle")
  BY DEF IInv, TypeOK, RequestsOK, LooksUp, At
<1>2. CASE Ended(r)
  BY <1>1, <1>2, RequestEnds
<1>3. ASSUME NEW a \in Accounts, NEW e \in Emails, NEW u \in BOOLEAN, a \in StoredAccounts,
             ~u => account[a].sub = me.sub,
             Goto(r, [me EXCEPT !.pc = "update", !.account = a, !.email = e, !.unlinked = u])
      PROVE  IInv'
  <2>. DEFINE s == [me EXCEPT !.pc = "update", !.account = a, !.email = e, !.unlinked = u]
  <2>1. /\ s \in Request /\ s.pc = "update" /\ s.account = a /\ s.unlinked = u
        /\ s.op = me.op /\ s.sub = me.sub /\ s.link = me.link /\ s.member = me.member
    BY <1>1 DEF Request
  <2>2. request' = [request EXCEPT ![r] = s]
    BY <1>3 DEF Goto
  <2>. HIDE DEF s
  <2>3. request'[r] = s /\ request' = [request EXCEPT ![r] = request'[r]]
    BY <1>1, <2>2
  <2>4. UNCHANGED <<account, member, link, raced>>
    BY <1>1 DEF database
  <2>5. RequestOK(r)'
    BY <1>1, <1>3, <2>1, <2>3, <2>4 DEF RequestOK, StoredAccounts, StoredMembers
  <2>6. LinkedOK(r)' /\ ClaimOK(r)'
    BY <1>3, <2>1, <2>3, <2>4 DEF LinkedOK, ClaimOK, At
  <2>. QED
    BY <1>1, <2>1, <2>3, <2>5, <2>6, ReadStep
<1>4. CASE \E a \in Linked(me.sub) :
             Goto(r, [me EXCEPT !.pc = "update", !.account = a,
                                !.email = PersistedEmail(a, me.email)])
  <2>1. PICK a \in Linked(me.sub) : Goto(r, [me EXCEPT !.pc = "update", !.account = a,
                                       !.email = PersistedEmail(a, me.email)])
    BY <1>4
  <2>2. a \in Accounts /\ a \in StoredAccounts /\ account[a].sub = me.sub
    BY DEF Linked, StoredAccounts
  <2>3. PersistedEmail(a, me.email) \in Emails /\ me.unlinked \in BOOLEAN
    BY <1>1, <2>2 DEF PersistedEmail, Account, Request
  <2>4. [me EXCEPT !.pc = "update", !.account = a, !.email = PersistedEmail(a, me.email)] =
        [me EXCEPT !.pc = "update", !.account = a, !.email = PersistedEmail(a, me.email),
                   !.unlinked = me.unlinked]
    BY <1>1 DEF Request
  <2>. QED
    BY <1>3, <2>1, <2>2, <2>3, <2>4
<1>5. CASE \E a \in WithEmail(me.email) :
             /\ ~Conflict(a, me.sub) /\ Linked(me.sub) = {}
             /\ Goto(r, [me EXCEPT !.pc = "update", !.account = a,
                                   !.unlinked = account[a].sub = NoSub])
  <2>1. PICK a \in WithEmail(me.email) :
             /\ ~Conflict(a, me.sub) /\ Linked(me.sub) = {}
             /\ Goto(r, [me EXCEPT !.pc = "update", !.account = a,
                                   !.unlinked = account[a].sub = NoSub])
    BY <1>5
  <2>2. a \in Accounts /\ a \in StoredAccounts
    BY DEF WithEmail, StoredAccounts
  <2>. DEFINE u == account[a].sub = NoSub
  <2>3. u \in BOOLEAN /\ (~u => account[a].sub = me.sub) /\ me.email \in Emails
    BY <1>1, <2>1 DEF Conflict, Request
  <2>4. [me EXCEPT !.pc = "update", !.account = a, !.unlinked = u] =
        [me EXCEPT !.pc = "update", !.account = a, !.email = me.email, !.unlinked = u]
    BY <1>1 DEF Request
  <2>. QED
    BY <1>3, <2>1, <2>2, <2>3, <2>4
<1>6. CASE Goto(r, [me EXCEPT !.pc = "create"])
  <2>. DEFINE s == [me EXCEPT !.pc = "create"]
  <2>1. /\ s \in Request /\ s.pc = "create"
        /\ s.op = me.op /\ s.link = me.link /\ s.member = me.member
    BY <1>1 DEF Request
  <2>2. request' = [request EXCEPT ![r] = s]
    BY <1>6 DEF Goto
  <2>. HIDE DEF s
  <2>3. request'[r] = s /\ request' = [request EXCEPT ![r] = request'[r]]
    BY <1>1, <2>2
  <2>4. UNCHANGED <<account, member, link, raced>>
    BY <1>1 DEF database
  <2>5. (RequestOK(r) /\ LinkedOK(r) /\ ClaimOK(r))'
    BY <1>1, <2>1, <2>3, <2>4 DEF RequestOK, LinkedOK, ClaimOK, At, StoredMembers
  <2>. QED
    BY <1>1, <2>1, <2>3, <2>5, ReadStep
<1>. QED
  BY <1>2, <1>4, <1>5, <1>6 DEF LooksUp
LEMMA FindsGuestKeeps ==
  ASSUME IInv, NEW r \in Requests, FindsGuest(r)
  PROVE  IInv'
<1>. DEFINE me == request[r]
            pc == IF me.op = "claim" THEN "claim" ELSE "edit"
            s  == [me EXCEPT !.pc = pc]
<1>1. /\ me \in Request /\ request \in [Requests -> Request] /\ me.pc = "guest"
      /\ UNCHANGED <<database, boot, begun, raced>> /\ begun' \in 0 .. MaxRequests
      /\ RequestOK(r) /\ ~At(r, "idle")
  BY DEF IInv, TypeOK, RequestsOK, FindsGuest, At
<1>2. CASE Ended(r)
  BY <1>1, <1>2, RequestEnds
<1>3. CASE SharedMembership(me) /\ Goto(r, s)
  <2>1. /\ s \in Request /\ s.pc = pc /\ s.account = me.account
        /\ s.op = me.op /\ s.link = me.link /\ s.member = me.member
    BY <1>1 DEF Request
  <2>2. request' = [request EXCEPT ![r] = s]
    BY <1>3 DEF Goto
  <2>. HIDE DEF s
  <2>3. request'[r] = s /\ request' = [request EXCEPT ![r] = request'[r]]
    BY <1>1, <2>2
  <2>4. UNCHANGED <<account, member, link, raced>>
    BY <1>1 DEF database
  <2>5. (RequestOK(r) /\ LinkedOK(r) /\ ClaimOK(r))'
    BY <1>1, <1>3, <2>1, <2>3, <2>4
       DEF RequestOK, LinkedOK, ClaimOK, At, StoredMembers, StoredAccounts, SharedMembership
  <2>. QED
    BY <1>1, <2>1, <2>3, <2>5, ReadStep
<1>. QED
  BY <1>2, <1>3 DEF FindsGuest

LEMMA ReadsClaimKeeps ==
  ASSUME IInv, NEW r \in Requests, ReadsClaim(r)
  PROVE  IInv'
<1>. DEFINE me == request[r]
            s  == [me EXCEPT !.pc = "claimWrite"]
<1>1. /\ me \in Request /\ request \in [Requests -> Request] /\ me.pc = "claim"
      /\ UNCHANGED <<database, boot, begun, raced>> /\ begun' \in 0 .. MaxRequests
      /\ RequestOK(r) /\ ~At(r, "idle")
  BY DEF IInv, TypeOK, RequestsOK, ReadsClaim, At
<1>2. CASE Ended(r)
  BY <1>1, <1>2, RequestEnds
<1>3. CASE Claimable(me.member, me.account) /\ Goto(r, s)
  <2>1. /\ s \in Request /\ s.pc = "claimWrite" /\ s.account = me.account
        /\ s.op = me.op /\ s.link = me.link /\ s.member = me.member
    BY <1>1 DEF Request
  <2>2. request' = [request EXCEPT ![r] = s]
    BY <1>3 DEF Goto
  <2>. HIDE DEF s
  <2>3. request'[r] = s /\ request' = [request EXCEPT ![r] = request'[r]]
    BY <1>1, <2>2
  <2>4. UNCHANGED <<account, member, link, raced>>
    BY <1>1 DEF database
  <2>5. RequestOK(r)' /\ LinkedOK(r)'
    BY <1>1, <2>1, <2>3, <2>4 DEF RequestOK, LinkedOK, StoredMembers, StoredAccounts
  <2>6. ClaimOK(r)'
    BY <1>3, <2>1, <2>3, <2>4 DEF ClaimOK, Claimable, MembershipsOf, StoredMembers
  <2>. QED
    BY <1>1, <2>1, <2>3, <2>5, <2>6, ReadStep
<1>. QED
  BY <1>2, <1>3 DEF ReadsClaim

-----------------------------------------------------------------------------
(* Requests that arrive: a pod is up, so the default campaign is there.    *)

LEMMA Arrival ==
  ASSUME IInv, NEW r \in Requests, NEW s \in Request, Begins(r, s),
         s.pc \in {"signIn", "join", "guest"},
         s.op # "account" => link[s.link].at # "none",
         s.op \in {"claim", "edit"} => s.member \in StoredMembers /\ member[s.member].role = "guest",
         s.pc = "join" => s.op = "join",
         s.pc = "guest" => s.op = "edit"
  PROVE  IInv'
<1>1. /\ request' = [request EXCEPT ![r] = s] /\ request'[r] = s
      /\ UNCHANGED <<database, boot, raced>>
  BY DEF Begins, Goto, IInv, TypeOK
<1>2. begun' \in 0 .. MaxRequests
  BY BoundsAssumption DEF Begins, IInv, TypeOK
<1>3. Default \in campaigns
  BY DEF Begins, IInv, NothingYet
<1>4. UNCHANGED <<account, member, link, raced>>
  BY <1>1 DEF database
<1>5. (RequestOK(r) /\ LinkedOK(r) /\ ClaimOK(r))'
  BY <1>1, <1>4 DEF RequestOK, LinkedOK, ClaimOK, At, StoredMembers
<1>. QED
  BY <1>1, <1>2, <1>3, <1>5, ReadStep

LEMMA Arriving ==
  ASSUME IInv, NEW r \in Requests, Arrives(r)
  PROVE  IInv'
<1>1. ASSUME NEW u \in Subs, NEW e \in Emails, AccountBegins(r, u, e) PROVE IInv'
  <2>. DEFINE s == [Idle EXCEPT !.pc = "signIn", !.sub = u, !.email = e]
  <2>1. s \in Request /\ s.pc = "signIn" /\ s.op = "account"
    BY IdleType DEF Request
  <2>2. Begins(r, s)
    BY <1>1 DEF AccountBegins
  <2>. HIDE DEF s
  <2>. QED
    BY <2>1, <2>2, Arrival
<1>2. ASSUME NEW op \in {"claim", "join", "edit"}, NEW l \in Links, NEW u \in Subs, NEW e \in Emails,
             NEW m \in Members \cup {NoMember}, SharedBegins(r, op, l, u, e, m)
      PROVE  IInv'
  <2>. DEFINE pc == CASE op = "join" -> "join" [] op = "claim" -> "signIn" [] OTHER -> "guest"
              k  == IF m = NoMember THEN 0 ELSE member[m].token
              s  == [Idle EXCEPT !.pc = pc, !.op = op, !.link = l, !.sub = u, !.email = e,
                                 !.member = m, !.token = k]
  <2>1. k \in Nat
    BY DEF IInv, TypeOK, Member
  <2>2. /\ op = "join" => pc = "join"
        /\ op = "claim" => pc = "signIn"
        /\ op = "edit" => pc = "guest"
    OBVIOUS
  <2>3. /\ Begins(r, s) /\ link[l].at # "none"
        /\ op # "join" => m \in StoredMembers /\ member[m].role = "guest"
    BY <1>2 DEF SharedBegins
  <2>. HIDE DEF k, pc
  <2>4. s \in Request /\ s.pc = pc /\ s.op = op /\ s.link = l /\ s.member = m
    BY <2>1, <2>2, IdleType DEF Request, Ops
  <2>. HIDE DEF s
  <2>5. /\ s.pc \in {"signIn", "join", "guest"} /\ link[s.link].at # "none"
        /\ s.op \in {"claim", "edit"} =>
               s.member \in StoredMembers /\ member[s.member].role = "guest"
        /\ s.pc = "join" => s.op = "join"
        /\ s.pc = "guest" => s.op = "edit"
    BY <2>2, <2>3, <2>4
  <2>. QED
    BY <2>3, <2>4, <2>5, Arrival
<1>. QED
  BY <1>1, <1>2, Constants DEF Arrives
-----------------------------------------------------------------------------
(* A membership is added: a guest's to a campaign, or with the campaign    *)
(* its owner's.                                                            *)

LEMMA MemberAdded ==
  ASSUME IInv, NEW n \in Members \ StoredMembers, NEW v \in Member, v.at = "stored",
         v.user \in StoredAccounts \cup {NoAccount},
         v.user = NoAccount \/ v.campaign \notin campaigns,
         v.role = "owner" <=> v.campaign \notin campaigns,
         campaigns' = campaigns \cup {v.campaign},
         member' = [member EXCEPT ![n] = v],
         UNCHANGED <<account, link, note, raced>>
  PROVE  /\ Data' /\ RowsKept /\ SubsKept /\ member' \in [Members -> Member]
         /\ \A q \in Requests : At(q, "claimWrite") => ClaimKept(q)
<1>1. /\ member \in [Members -> Member] /\ RowsOK /\ OwnerInv
      /\ \A m \in Members \ {n} : member'[m] = member[m]
      /\ member'[n] = v
  BY DEF IInv, TypeOK
<1>2. StoredMembers' = StoredMembers \cup {n} /\ n \in Members /\ n \notin StoredMembers
  BY <1>1 DEF StoredMembers
<1>3. StoredAccounts' = StoredAccounts
  BY DEF StoredAccounts
<1>4. \A m \in StoredMembers : m \in Members \ {n} /\ member[m].campaign \in campaigns
  BY <1>1 DEF StoredMembers, RowsOK
<1>5. RowsOK'
  BY <1>1, <1>2, <1>3, <1>4 DEF RowsOK
<1>6. OwnerInv'
  <2>1. ASSUME NEW c \in campaigns, c # v.campaign \/ v.role # "owner"
        PROVE  OwnerSeats(c)' = OwnerSeats(c)
    BY <1>1, <1>2, <1>4, <2>1 DEF OwnerSeats
  <2>2. v.campaign \notin campaigns => OwnerSeats(v.campaign)' = {n}
    BY <1>1, <1>2, <1>4 DEF OwnerSeats
  <2>3. \A c \in campaigns' : \E m \in Members : OwnerSeats(c)' = {m}
    BY <1>1, <2>1, <2>2 DEF OwnerInv
  <2>4. ASSUME NEW l \in Links, link'[l].at # "none"
        PROVE  OwnsCampaign(link[l].by, link[l].campaign)'
    BY <1>1, <1>2, <1>4, <2>4 DEF OwnerInv, OwnsCampaign, MembershipsOf
  <2>. QED
    BY <2>3, <2>4 DEF OwnerInv
<1>7. OneSeat'
  BY <1>1, <1>2, <1>4 DEF IInv, OneSeat
<1>8. AuthorsBelong'
  BY <1>1, <1>2, <1>4 DEF IInv, AuthorsBelong
<1>9. RowsKept /\ SubsKept
  BY <1>1, <1>2, <1>3, <1>4 DEF RowsKept, SubsKept
<1>10. ASSUME NEW q \in Requests, At(q, "claimWrite") PROVE ClaimKept(q)
  <2>1. request[q].member \in StoredMembers /\ request[q].account \in StoredAccounts
    BY <1>10 DEF IInv, RequestsOK, RequestOK, At
  <2>2. request[q].account # NoAccount
    BY <2>1, Constants DEF StoredAccounts
  <2>. QED
    BY <1>1, <1>2, <1>4, <2>1, <2>2 DEF ClaimKept, MembershipsOf, StoredMembers
<1>11. member' \in [Members -> Member]
  BY <1>1
<1>. QED
  BY <1>5, <1>6, <1>7, <1>8, <1>9, <1>10, <1>11 DEF Data

(* The request ends with it.                                               *)
LEMMA MemberRequest ==
  ASSUME IInv, NEW r \in Requests, ~At(r, "idle"), Ended(r), UNCHANGED <<boot, begun>>,
         campaigns \subseteq campaigns', campaigns' \subseteq Campaigns,
         UNCHANGED <<account, link, note, raced>>, member' \in [Members -> Member],
         Data', RowsKept, SubsKept,
         \A q \in Requests : At(q, "claimWrite") => ClaimKept(q)
  PROVE  IInv'
<1>1. request' = [request EXCEPT ![r] = request'[r]] /\ request'[r] = Idle
  BY DEF Ended, Goto, IInv, TypeOK
<1>2. RequestsOK'
  BY <1>1, IdleOK, RequestStep DEF IInv
<1>3. NothingYet'
  BY Serving, StillServing DEF IInv
<1>4. TypeOK'
  BY <1>1, IdleType DEF IInv, TypeOK
<1>. QED
  BY <1>2, <1>3, <1>4 DEF IInv, Data

LEMMA JoinsKeeps ==
  ASSUME IInv, NEW r \in Requests, Joins(r)
  PROVE  IInv'
<1>. DEFINE c == link[request[r].link].campaign
            v == GuestOf(c)
<1>1. /\ ~At(r, "idle") /\ At(r, "join") /\ Room /\ Ended(r)
      /\ member' = [member EXCEPT ![NewMember] = v]
      /\ UNCHANGED <<account, campaigns, link, note, boot, begun, raced>>
  BY DEF Joins, At
<1>2. request[r].link \in Links /\ link[request[r].link].at # "none"
  BY <1>1 DEF IInv, TypeOK, Request, RequestsOK, RequestOK, At
<1>3. c \in campaigns /\ campaigns \subseteq Campaigns
  BY <1>2 DEF IInv, RowsOK, TypeOK
<1>. HIDE DEF c
<1>4. /\ v \in Member /\ v.at = "stored" /\ v.user = NoAccount /\ v.role = "guest"
      /\ v.campaign = c
  BY <1>3 DEF GuestOf, Member
<1>5. NewMember \in Members \ StoredMembers /\ campaigns' = campaigns \cup {v.campaign}
  BY <1>1, <1>3, <1>4, NewMemberIsFree
<1>. HIDE DEF v
<1>6. v.user \in StoredAccounts \cup {NoAccount} /\ v.role # "owner" /\ v.campaign \in campaigns
  BY <1>3, <1>4
<1>7. /\ Data' /\ RowsKept /\ SubsKept /\ member' \in [Members -> Member]
      /\ \A q \in Requests : At(q, "claimWrite") => ClaimKept(q)
  BY <1>1, <1>4, <1>5, <1>6, MemberAdded
<1>. QED
  BY <1>1, <1>3, <1>7, MemberRequest

LEMMA CreatesCampaignKeeps ==
  ASSUME IInv, NEW r \in Requests, NEW c \in Campaigns, CreatesCampaign(r, c)
  PROVE  IInv'
<1>. DEFINE a == request[r].account
            v == OwnerOf(c, a)
<1>1. /\ ~At(r, "idle") /\ At(r, "signedIn") /\ Room /\ Ended(r) /\ c \notin campaigns
      /\ campaigns' = campaigns \cup {c}
      /\ member' = [member EXCEPT ![NewMember] = v]
      /\ UNCHANGED <<account, link, note, boot, begun, raced>>
  BY DEF CreatesCampaign, Answers, At
<1>2. a \in StoredAccounts /\ a \in Accounts
  BY <1>1 DEF IInv, RequestsOK, RequestOK, At, StoredAccounts
<1>. HIDE DEF a
<1>3. /\ v \in Member /\ v.at = "stored" /\ v.user = a /\ v.role = "owner" /\ v.campaign = c
  BY <1>2 DEF OwnerOf, Member
<1>4. NewMember \in Members \ StoredMembers /\ campaigns' = campaigns \cup {v.campaign}
  BY <1>1, <1>3, NewMemberIsFree
<1>. HIDE DEF v
<1>5. v.user \in StoredAccounts \cup {NoAccount} /\ v.campaign \notin campaigns
  BY <1>1, <1>2, <1>3
<1>6. /\ Data' /\ RowsKept /\ SubsKept /\ member' \in [Members -> Member]
      /\ \A q \in Requests : At(q, "claimWrite") => ClaimKept(q)
  BY <1>1, <1>3, <1>4, <1>5, MemberAdded
<1>7. campaigns \subseteq campaigns' /\ campaigns' \subseteq Campaigns
  BY <1>1 DEF IInv, TypeOK
<1>. QED
  BY <1>1, <1>6, <1>7, MemberRequest

-----------------------------------------------------------------------------
(* A pod boots.                                                            *)

LEMMA BootOnly ==
  ASSUME IInv, NEW p \in Pods, BootInserts(p) \/ BootDies(p)
  PROVE  IInv'
<1>1. /\ UNCHANGED <<database, request, begun, raced>>
      /\ \E at \in {"inserted", "down"} : boot' = [boot EXCEPT ![p] = at]
  BY DEF BootInserts, BootDies
<1>2. UNCHANGED <<account, campaigns, member, link, note>>
  BY <1>1 DEF database
<1>3. Data' /\ RowsKept /\ SubsKept /\ \A q \in Requests : ClaimKept(q)
  BY <1>1, DataSame DEF IInv, Data
<1>4. TypeOK'
  BY <1>1, <1>2 DEF IInv, TypeOK
<1>5. RequestsOK'
  BY <1>1, <1>3, OtherRequests DEF IInv, RequestsOK
<1>6. NothingYet'
  BY <1>1, <1>2 DEF IInv, TypeOK, NothingYet, StoredMembers, At
<1>. QED
  BY <1>3, <1>4, <1>5, <1>6 DEF IInv, Data

LEMMA BootCommitsKeeps ==
  ASSUME IInv, NEW p \in Pods, BootCommits(p)
  PROVE  IInv'
<1>1. /\ campaigns' = campaigns \cup {Default}
      /\ boot' = [boot EXCEPT ![p] = "up"]
      /\ UNCHANGED <<account, link, note, request, begun, raced>>
  BY DEF BootCommits
<1>2. NothingYet'
  BY <1>1, StillServing DEF NothingYet
<1>3. SUFFICES /\ Data' /\ RowsKept /\ SubsKept /\ member' \in [Members -> Member]
               /\ \A q \in Requests : At(q, "claimWrite") => ClaimKept(q)
  <2>1. RequestsOK'
    BY <1>1, <1>3, OtherRequests DEF IInv, RequestsOK
  <2>2. TypeOK'
    BY <1>1, <1>3, Constants DEF IInv, TypeOK
  <2>. QED
    BY <1>2, <1>3, <2>1, <2>2 DEF IInv, Data
<1>4. CASE Default \in campaigns
  <2>1. OwnerSeats(Default) # {}
    BY <1>4 DEF IInv, OwnerInv
  <2>2. UNCHANGED <<database, raced>>
    BY <1>1, <1>4, <2>1 DEF BootCommits, database
  <2>. QED
    BY <2>2, DataSame DEF IInv, Data, TypeOK, database
<1>5. CASE Default \notin campaigns
  <2>. DEFINE v == OwnerOf(Default, NoAccount)
  <2>1. StoredMembers = {} /\ Room /\ OwnerSeats(Default) = {}
    BY <1>5, Constants DEF IInv, NothingYet, Room, OwnerSeats
  <2>2. member' = [member EXCEPT ![NewMember] = v]
    BY <2>1 DEF BootCommits
  <2>3. /\ v \in Member /\ v.at = "stored" /\ v.user = NoAccount /\ v.role = "owner"
        /\ v.campaign = Default
    BY Constants DEF OwnerOf, Member
  <2>4. NewMember \in Members \ StoredMembers /\ campaigns' = campaigns \cup {v.campaign}
    BY <1>1, <2>1, <2>3, NewMemberIsFree
  <2>. HIDE DEF v
  <2>5. v.user \in StoredAccounts \cup {NoAccount} /\ v.campaign \notin campaigns
    BY <1>5, <2>3
  <2>. QED
    BY <1>1, <2>2, <2>3, <2>4, <2>5, MemberAdded
<1>. QED
  BY <1>4, <1>5
-----------------------------------------------------------------------------
(* Signing in.                                                             *)

LEMMA IdentityUpdated ==
  ASSUME IInv, NEW r \in Requests, At(r, "update") \/ At(r, "adopt"), UpdatesIdentity(r),
         UNCHANGED <<campaigns, member, link, note, boot, begun>>
  PROVE  IInv' /\ SubsKept
<1>. DEFINE me == request[r]
            a  == me.account
            s  == SignedIn(me, a)
<1>1. /\ me \in Request /\ request \in [Requests -> Request] /\ account \in [Accounts -> Account]
      /\ RequestOK(r) /\ LinkedOK(r) /\ ~At(r, "idle") /\ me.pc \in {"update", "adopt"}
      /\ RowsOK /\ raced \subseteq ({"account"} \X Accounts) \cup ({"member"} \X Members)
  BY DEF IInv, TypeOK, RequestsOK, At
<1>2. a \in Accounts /\ a \in StoredAccounts /\ me.sub \in Subs /\ me.email \in Emails
  BY <1>1 DEF RequestOK, StoredAccounts, Request
<1>3. CASE Unique(a, me.sub, me.email)
  <2>1. /\ account' = [account EXCEPT ![a].sub = me.sub, ![a].email = me.email]
        /\ request' = [request EXCEPT ![r] = s]
        /\ raced' = IF me.unlinked /\ Conflict(a, me.sub)
                      THEN raced \cup {<<"account", a>>} ELSE raced
    BY <1>3 DEF UpdatesIdentity, Goto
  <2>2. /\ s \in Request /\ s.pc \in {"guest", "signedIn"} /\ s.account = a
        /\ s.op = me.op /\ s.link = me.link /\ s.member = me.member
        /\ s.pc = "guest" => s.op = "claim"
    BY <1>1, <1>2, IdleType DEF SignedIn, Request
  <2>. HIDE DEF s
  <2>3. request'[r] = s /\ request' = [request EXCEPT ![r] = request'[r]]
    BY <1>1, <2>1
  <2>4. /\ \A b \in Accounts \ {a} : account'[b] = account[b]
        /\ account' \in [Accounts -> Account]
        /\ account'[a].sub = me.sub /\ account'[a].email = me.email
        /\ account'[a].at = account[a].at
    BY <1>1, <1>2, <2>1 DEF Account
  <2>5. StoredAccounts' = StoredAccounts
    BY <1>2, <2>4 DEF StoredAccounts
  <2>6. raced \subseteq raced'
    BY <2>1
  <2>7. RowsOK'
    <3>1. \A b \in StoredAccounts : account[b].email = me.email => b = a
      BY <1>3 DEF Unique, WithEmail
    <3>2. \A b \in Accounts : account'[b].at = "none" => account'[b].sub = NoSub
      BY <1>1, <1>2, <2>4 DEF RowsOK, StoredAccounts
    <3>3. \A b, d \in StoredAccounts : account'[b].email = account'[d].email => b = d
      BY <1>1, <2>4, <3>1 DEF RowsOK, StoredAccounts
    <3>4. StoredMembers' = StoredMembers
      BY DEF StoredMembers
    <3>. QED
      BY <1>1, <2>5, <3>2, <3>3, <3>4 DEF RowsOK
  <2>8. RowsKept /\ \A q \in Requests : ClaimKept(q)
    BY <2>5, <2>6 DEF RowsKept, ClaimKept, StoredMembers, MembershipsOf
  <2>9. SubsKept
    <3>1. SUFFICES ASSUME account[a].sub # NoSub, account[a].sub # me.sub
                   PROVE  <<"account", a>> \in raced'
      BY <2>4 DEF SubsKept
    <3>2. Conflict(a, me.sub)
      BY <3>1 DEF Conflict
    <3>. QED
      BY <1>1, <2>1, <3>1, <3>2 DEF LinkedOK
  <2>10. (RequestOK(r) /\ LinkedOK(r) /\ ClaimOK(r))'
    BY <1>1, <1>2, <2>2, <2>3, <2>5 DEF RequestOK, LinkedOK, ClaimOK, At, StoredMembers
  <2>11. RequestsOK'
    BY <2>3, <2>8, <2>9, <2>10, RequestStep DEF IInv
  <2>12. NothingYet'
    BY <1>1, Serving, StillServing DEF IInv
  <2>13. raced' \subseteq ({"account"} \X Accounts) \cup ({"member"} \X Members)
    BY <1>1, <1>2, <2>1
  <2>14. TypeOK'
    BY <2>2, <2>3, <2>4, <2>13 DEF IInv, TypeOK
  <2>15. OwnerInv' /\ OneSeat' /\ AuthorsBelong'
    BY <2>6 DEF IInv, OwnerInv, OneSeat, AuthorsBelong, StoredMembers, OwnerSeats, OwnsCampaign,
                MembershipsOf
  <2>. QED
    BY <2>7, <2>9, <2>11, <2>12, <2>14, <2>15 DEF IInv
<1>4. CASE ~Unique(a, me.sub, me.email)
  <2>1. Ended(r) /\ UNCHANGED <<account, raced>>
    BY <1>4 DEF UpdatesIdentity
  <2>. QED
    BY <1>1, <2>1, RequestEnds DEF database, SubsKept
<1>. QED
  BY <1>3, <1>4

(* The new account takes the default campaign's seat if nobody has it.     *)
LEMMA CreatesKeeps ==
  ASSUME IInv, NEW r \in Requests, Creates(r)
  PROVE  IInv'
<1>. DEFINE me == request[r]
            a  == NewAccount
            s  == [me EXCEPT !.pc = "adopt", !.account = a, !.unlinked = TRUE]
<1>1. /\ me \in Request /\ request \in [Requests -> Request] /\ account \in [Accounts -> Account]
      /\ member \in [Members -> Member]
      /\ RequestOK(r) /\ ~At(r, "idle") /\ me.pc = "create" /\ RowsOK /\ OwnerInv
      /\ UNCHANGED <<campaigns, link, note, boot, begun, raced>>
  BY DEF IInv, TypeOK, RequestsOK, At, Creates
<1>2. CASE WithEmail(me.email) # {}
  <2>1. Ended(r) /\ UNCHANGED <<account, member>>
    BY <1>2 DEF Creates
  <2>. QED
    BY <1>1, <2>1, RequestEnds DEF database
<1>3. CASE WithEmail(me.email) = {}
  <2>1. /\ account' = [account EXCEPT ![a] = [at |-> "stored", sub |-> NoSub, email |-> me.email]]
        /\ member' = Claims(a)
        /\ request' = [request EXCEPT ![r] = s]
    BY <1>3 DEF Creates, Goto
  <2>2. me.email \in Emails /\ a \in Accounts \ StoredAccounts /\ account[a].at = "none"
    BY <1>1, <1>3, NewAccountIsFree DEF IInv, Request, StoredAccounts, Account
  <2>. HIDE DEF a
  <2>3. /\ s \in Request /\ s.pc = "adopt" /\ s.account = a /\ s.unlinked
        /\ s.op = me.op /\ s.link = me.link /\ s.member = me.member
    BY <1>1, <2>2 DEF Request
  <2>. HIDE DEF s
  <2>4. request'[r] = s /\ request' = [request EXCEPT ![r] = request'[r]]
    BY <1>1, <2>1
  <2>5. /\ \A b \in Accounts \ {a} : account'[b] = account[b]
        /\ account' \in [Accounts -> Account]
        /\ account'[a].at = "stored" /\ account'[a].email = me.email
    BY <1>1, <2>1, <2>2 DEF Account
  <2>6. StoredAccounts' = StoredAccounts \cup {a}
    BY <2>2, <2>5 DEF StoredAccounts
  <2>7. PICK n \in Members : OwnerSeats(Default) = {n}
    BY <1>1, Serving DEF IInv, OwnerInv
  <2>8. n \in StoredMembers /\ member[n].campaign = Default /\ member[n].role = "owner"
    BY <2>7 DEF OwnerSeats
  <2>9. /\ \A m \in Members \ {n} : member'[m] = member[m]
        /\ member' \in [Members -> Member]
        /\ member'[n].at = "stored" /\ member'[n].campaign = Default /\ member'[n].role = "owner"
        /\ member[n].user # NoAccount => member'[n].user = member[n].user
        /\ member[n].user = NoAccount => member'[n].user = a
    <3>1. member' = [m \in Members |-> IF m \in {n} /\ member[m].user = NoAccount
                                         THEN [member[m] EXCEPT !.user = a] ELSE member[m]]
      BY <2>1, <2>7 DEF Claims
    <3>2. \/ member'[n] = member[n]
          \/ member'[n] = [member[n] EXCEPT !.user = a]
      BY <3>1
    <3>3. /\ member[n].user # NoAccount => member'[n] = member[n]
          /\ member[n].user = NoAccount => member'[n] = [member[n] EXCEPT !.user = a]
      BY <3>1
    <3>4. member[n] \in Member /\ member[n].at = "stored"
      BY <1>1, <2>8 DEF StoredMembers
    <3>5. [member[n] EXCEPT !.user = a] \in Member /\ [member[n] EXCEPT !.user = a].user = a
      BY <2>2, <3>4 DEF Member
    <3>6. \A m \in Members \ {n} : member'[m] = member[m]
      BY <3>1
    <3>7. member'[n] \in Member /\ member'[n].at = "stored" /\ member'[n].campaign = Default
          /\ member'[n].role = "owner"
      BY <2>8, <3>2, <3>4, <3>5 DEF Member
    <3>8. member' \in [Members -> Member]
      BY <1>1, <3>1, <3>6, <3>7
    <3>. QED
      BY <3>3, <3>5, <3>6, <3>7, <3>8
  <2>10. StoredMembers' = StoredMembers
    BY <2>8, <2>9 DEF StoredMembers
  <2>11. \A m \in StoredMembers : member[m].user # a
    BY <1>1, <2>2, Constants DEF RowsOK, StoredAccounts
  <2>12. RowsOK'
    <3>1. \A b \in StoredAccounts : account[b].email # me.email /\ account'[b] = account[b]
      BY <1>3, <2>2, <2>5 DEF WithEmail, StoredAccounts
    <3>2. \A b, d \in StoredAccounts' : account'[b].email = account'[d].email => b = d
      BY <1>1, <2>5, <2>6, <3>1 DEF RowsOK
    <3>3. \A b \in Accounts : account'[b].at = "none" => account'[b].sub = NoSub
      BY <1>1, <2>5 DEF RowsOK
    <3>4. \A m \in Members : member'[m].at = "none" => member'[m].user = NoAccount
      BY <1>1, <2>9 DEF RowsOK
    <3>5. \A m \in StoredMembers' : /\ member'[m].campaign \in campaigns'
                                    /\ member'[m].user \in StoredAccounts' \cup {NoAccount}
      <4>1. \A m \in StoredMembers : m \in Members
        BY DEF StoredMembers
      <4>. QED
        BY <1>1, <2>6, <2>8, <2>9, <2>10, <4>1 DEF RowsOK
    <3>. QED
      BY <1>1, <3>2, <3>3, <3>4, <3>5 DEF RowsOK
  <2>13. OwnerInv'
    <3>1. \A c \in campaigns : OwnerSeats(c)' = OwnerSeats(c)
      BY <2>8, <2>9, <2>10 DEF OwnerSeats, StoredMembers
    <3>2. ASSUME NEW l \in Links, link[l].at # "none"
          PROVE  OwnsCampaign(link[l].by, link[l].campaign)'
      <4>1. link[l].by # NoAccount /\ OwnsCampaign(link[l].by, link[l].campaign)
        BY <1>1, <3>2 DEF OwnerInv, RowsOK
      <4>. QED
        BY <1>1, <2>8, <2>9, <2>10, <4>1 DEF OwnsCampaign, MembershipsOf, StoredMembers
    <3>. QED
      BY <1>1, <3>1, <3>2 DEF OwnerInv
  <2>14. OneSeat'
    BY <1>1, <2>8, <2>9, <2>10, <2>11 DEF IInv, OneSeat, StoredMembers
  <2>15. AuthorsBelong'
    BY <1>1, <2>8, <2>9, <2>10 DEF IInv, AuthorsBelong, StoredMembers
  <2>16. RowsKept
    BY <1>1, <2>6, <2>8, <2>9, <2>10 DEF RowsKept, StoredMembers
  <2>17. SubsKept
    BY <1>1, <2>2, <2>5 DEF SubsKept, RowsOK
  <2>18. ASSUME NEW q \in Requests, At(q, "claimWrite") PROVE ClaimKept(q)
    <3>1. /\ request[q].member \in StoredMembers /\ member[request[q].member].role = "guest"
          /\ request[q].account \in StoredAccounts
      BY <2>18 DEF IInv, RequestsOK, RequestOK, At
    <3>2. request[q].account # a /\ request[q].member # n /\ request[q].member \in Members
      BY <2>2, <2>8, <3>1 DEF StoredMembers
    <3>. QED
      BY <2>8, <2>9, <3>2, <3>1 DEF ClaimKept, MembershipsOf, StoredMembers
  <2>19. (RequestOK(r) /\ LinkedOK(r) /\ ClaimOK(r))'
    BY <1>1, <2>3, <2>4, <2>6, <2>10, <2>16 DEF RequestOK, LinkedOK, ClaimOK, At, RowsKept
  <2>20. RequestsOK'
    BY <2>4, <2>16, <2>17, <2>18, <2>19, RequestStep DEF IInv
  <2>21. NothingYet'
    BY <1>1, Serving, StillServing DEF IInv
  <2>22. TypeOK'
    BY <1>1, <2>3, <2>4, <2>5, <2>9 DEF IInv, TypeOK
  <2>. QED
    BY <2>12, <2>13, <2>14, <2>15, <2>20, <2>21, <2>22 DEF IInv
<1>. QED
  BY <1>2, <1>3
-----------------------------------------------------------------------------
(* Share links and notes.                                                  *)

LEMMA LinkStep ==
  ASSUME IInv, UNCHANGED <<account, campaigns, member, note, boot, begun, raced>>,
         NEW l \in Links, NEW v \in Link, link' = [link EXCEPT ![l] = v],
         v.at # "none" /\ OwnsCampaign(v.by, v.campaign) /\ v.campaign \in campaigns,
         v.by # NoAccount,
         link[l].at # "none" => v.campaign = link[l].campaign,
         \/ request' = request
         \/ \E r \in Requests : ~At(r, "idle") /\ Ended(r)
  PROVE  IInv'
<1>1. /\ link \in [Links -> Link] /\ link' \in [Links -> Link] /\ link'[l] = v
      /\ \A k \in Links \ {l} : link'[k] = link[k]
  BY DEF IInv, TypeOK
<1>2. StoredMembers' = StoredMembers /\ StoredAccounts' = StoredAccounts
  BY DEF StoredMembers, StoredAccounts
<1>3. RowsOK'
  BY <1>1, <1>2 DEF IInv, RowsOK
<1>4. OwnerInv'
  <2>1. \A c \in campaigns : OwnerSeats(c)' = OwnerSeats(c)
    BY <1>2 DEF OwnerSeats
  <2>2. ASSUME NEW k \in Links, link'[k].at # "none"
        PROVE  OwnsCampaign(link'[k].by, link'[k].campaign)
    BY <1>1, <2>2 DEF IInv, OwnerInv
  <2>3. \A k \in Links : link'[k].at # "none" => OwnsCampaign(link[k].by, link[k].campaign)'
    BY <2>2 DEF OwnsCampaign, MembershipsOf, StoredMembers
  <2>. QED
    BY <2>1, <2>3 DEF IInv, OwnerInv
<1>5. OneSeat' /\ AuthorsBelong'
  BY <1>2 DEF IInv, OneSeat, AuthorsBelong
<1>6. RowsKept /\ SubsKept /\ \A q \in Requests : ClaimKept(q)
  BY <1>1, <1>2 DEF RowsKept, SubsKept, ClaimKept, StoredMembers, MembershipsOf
<1>7. CASE request' = request
  <2>1. RequestsOK'
    BY <1>6, <1>7, OtherRequests DEF IInv, RequestsOK
  <2>2. NothingYet'
    BY <1>2, <1>7 DEF IInv, NothingYet, At
  <2>3. TypeOK'
    BY <1>1, <1>7 DEF IInv, TypeOK
  <2>. QED
    BY <1>3, <1>4, <1>5, <2>1, <2>2, <2>3 DEF IInv
<1>8. ASSUME NEW r \in Requests, ~At(r, "idle"), Ended(r) PROVE IInv'
  <2>1. request' = [request EXCEPT ![r] = request'[r]] /\ request'[r] = Idle
    BY <1>8 DEF Ended, Goto, IInv, TypeOK
  <2>2. RequestsOK'
    BY <1>6, <2>1, IdleOK, RequestStep DEF IInv
  <2>3. NothingYet'
    BY <1>8, Serving, StillServing DEF IInv
  <2>4. TypeOK'
    BY <1>1, <2>1, IdleType DEF IInv, TypeOK
  <2>. QED
    BY <1>3, <1>4, <1>5, <2>2, <2>3, <2>4 DEF IInv
<1>. QED
  BY <1>7, <1>8

LEMMA CreatesLinkKeeps ==
  ASSUME IInv, NEW r \in Requests, NEW c \in Campaigns, NEW l \in Links,
         NEW level \in {"viewer", "editor"}, CreatesLink(r, c, l, level)
  PROVE  IInv'
<1>. DEFINE a == request[r].account
            v == LinkAt("active", c, level, a)
<1>1. /\ ~At(r, "idle") /\ At(r, "signedIn") /\ Ended(r)
      /\ link[l].at = "none" /\ c \in campaigns /\ OwnsCampaign(a, c)
      /\ link' = [link EXCEPT ![l] = v]
      /\ UNCHANGED <<account, campaigns, member, note, boot, begun, raced>>
  BY DEF CreatesLink, Answers, Owned, At
<1>2. a \in Accounts
  BY <1>1 DEF IInv, RequestsOK, RequestOK, At, StoredAccounts
<1>3. a # NoAccount
  BY <1>2, Constants
<1>. HIDE DEF a
<1>4. v \in Link /\ v.at = "active" /\ v.by = a /\ v.campaign = c
  BY <1>2 DEF LinkAt, Link
<1>. HIDE DEF v
<1>. QED
  BY <1>1, <1>3, <1>4, LinkStep

LEMMA LinkEnds ==
  ASSUME IInv, NEW l \in Links, LinkExpires(l) \/ \E r \in Requests : RevokesLink(r, l)
  PROVE  IInv'
<1>. DEFINE v == [link[l] EXCEPT !.at = "ended"]
<1>1. /\ link[l].at # "none" /\ link' = [link EXCEPT ![l] = v]
      /\ UNCHANGED <<account, campaigns, member, note, boot, begun, raced>>
      /\ \/ request' = request
         \/ \E r \in Requests : ~At(r, "idle") /\ Ended(r)
  BY DEF LinkExpires, RevokesLink, Answers, At
<1>2. /\ link[l] \in Link /\ link[l].campaign \in campaigns /\ link[l].by # NoAccount
      /\ OwnsCampaign(link[l].by, link[l].campaign)
  BY <1>1 DEF IInv, TypeOK, RowsOK, OwnerInv
<1>3. v \in Link /\ v.at = "ended" /\ v.by = link[l].by /\ v.campaign = link[l].campaign
  BY <1>2 DEF Link
<1>. HIDE DEF v
<1>4. OwnsCampaign(v.by, v.campaign) /\ v.campaign \in campaigns /\ v.by # NoAccount
  BY <1>2, <1>3
<1>. QED
  BY <1>1, <1>3, <1>4, LinkStep

LEMMA NoteStep ==
  ASSUME IInv, UNCHANGED <<account, campaigns, member, link, boot, begun, raced>>,
         NEW r \in Requests, ~At(r, "idle"), Ended(r),
         note' \in [Notes -> Note], AuthorsBelong'
  PROVE  IInv'
<1>1. StoredMembers' = StoredMembers /\ StoredAccounts' = StoredAccounts
  BY DEF StoredMembers, StoredAccounts
<1>2. RowsOK' /\ OwnerInv' /\ OneSeat'
  BY <1>1 DEF IInv, RowsOK, OwnerInv, OneSeat, OwnerSeats, OwnsCampaign, MembershipsOf
<1>3. RowsKept /\ SubsKept /\ \A q \in Requests : ClaimKept(q)
  BY <1>1 DEF RowsKept, SubsKept, ClaimKept, StoredMembers, MembershipsOf
<1>4. request' = [request EXCEPT ![r] = request'[r]] /\ request'[r] = Idle
  BY DEF Ended, Goto, IInv, TypeOK
<1>5. RequestsOK'
  BY <1>3, <1>4, IdleOK, RequestStep DEF IInv
<1>6. NothingYet'
  BY Serving, StillServing DEF IInv
<1>7. TypeOK'
  BY <1>4, IdleType DEF IInv, TypeOK
<1>. QED
  BY <1>2, <1>5, <1>6, <1>7 DEF IInv

(* Written in campaign c by a member of it.                                *)
LEMMA EditKeepsAuthors ==
  ASSUME IInv, UNCHANGED <<campaigns, member>>, NEW n \in Notes, NEW c \in campaigns,
         NEW m \in StoredMembers, member[m].campaign = c, Edited(n, c, m)
  PROVE  note' \in [Notes -> Note] /\ AuthorsBelong'
<1>1. /\ note \in [Notes -> Note] /\ note[n] \in Note /\ c \in Campaigns /\ m \in Members
      /\ StoredMembers' = StoredMembers /\ AuthorsBelong
  BY DEF IInv, TypeOK, StoredMembers
<1>2. \E v \in Note :
        /\ note' = [note EXCEPT ![n] = v]
        /\ v.at = "stored" =>
             /\ v.campaign = c
             /\ v.createdBy = m \/ (note[n].at = "stored" /\ v.createdBy = note[n].createdBy
                                                          /\ note[n].campaign = c)
             /\ v.lastEditedBy = m
  <2>1. CASE NoteCreated(n, c, m)
    <3>1. /\ NoteAt("stored", c, m) \in Note
          /\ NoteAt("stored", c, m).campaign = c
          /\ NoteAt("stored", c, m).createdBy = m
          /\ NoteAt("stored", c, m).lastEditedBy = m
      BY <1>1 DEF NoteAt, Note
    <3>. QED
      BY <2>1, <3>1 DEF NoteCreated
  <2>2. CASE NoteUpdated(n, c, m)
    <3>. DEFINE v == [note[n] EXCEPT !.lastEditedBy = m]
    <3>1. /\ v \in Note /\ v.campaign = note[n].campaign /\ v.createdBy = note[n].createdBy
          /\ v.lastEditedBy = m
      BY <1>1 DEF Note
    <3>2. note' = [note EXCEPT ![n] = v] /\ note[n].at = "stored" /\ note[n].campaign = c
      BY <2>2 DEF NoteUpdated, Found
    <3>. HIDE DEF v
    <3>. QED
      BY <3>1, <3>2
  <2>3. CASE NoteDeleted(n, c)
    <3>. DEFINE v == [note[n] EXCEPT !.at = "deleted"]
    <3>1. v \in Note /\ v.at = "deleted" /\ note' = [note EXCEPT ![n] = v]
      BY <1>1, <2>3 DEF Note, NoteDeleted
    <3>. HIDE DEF v
    <3>. QED
      BY <3>1
  <2>. QED
    BY <2>1, <2>2, <2>3 DEF Edited
<1>. QED
  BY <1>1, <1>2 DEF AuthorsBelong

LEMMA EditsNoteKeeps ==
  ASSUME IInv, NEW r \in Requests, NEW n \in Notes, NEW c \in Campaigns, EditsNote(r, n, c)
  PROVE  IInv'
<1>1. /\ ~At(r, "idle") /\ Ended(r) /\ c \in campaigns
      /\ UNCHANGED <<account, campaigns, member, link, boot, begun, raced>>
  BY DEF EditsNote, Answers, Accessible, At
<1>2. PICK m \in MembershipsOf(request[r].account, c) : Edited(n, c, m)
  BY DEF EditsNote
<1>3. m \in StoredMembers /\ member[m].campaign = c
  BY DEF MembershipsOf
<1>. QED
  BY <1>1, <1>2, <1>3, EditKeepsAuthors, NoteStep

LEMMA SharedEditsKeeps ==
  ASSUME IInv, NEW r \in Requests, NEW n \in Notes, SharedEdits(r, n)
  PROVE  IInv'
<1>. DEFINE me == request[r]
            c  == link[me.link].campaign
<1>1. /\ At(r, "edit") /\ ~At(r, "idle") /\ Ended(r) /\ Edited(n, c, me.member)
      /\ UNCHANGED <<account, campaigns, member, link, boot, begun, raced>>
  BY DEF SharedEdits, At
<1>2. /\ me.member \in StoredMembers /\ member[me.member].campaign = c
      /\ link[me.link].at # "none" /\ me.link \in Links
  BY <1>1 DEF IInv, TypeOK, Request, RequestsOK, RequestOK, At
<1>3. c \in campaigns
  BY <1>2 DEF IInv, RowsOK
<1>. QED
  BY <1>1, <1>2, <1>3, EditKeepsAuthors, NoteStep

LEMMA MovesNotesKeeps ==
  ASSUME IInv, NEW r \in Requests, NEW c \in Campaigns, NEW source \in Members,
         NEW target \in Members, MovesNotes(r, c, source, target)
  PROVE  IInv'
<1>. DEFINE moved(m) == IF m = source THEN target ELSE m
            v(n)     == [note[n] EXCEPT !.createdBy = moved(@), !.lastEditedBy = moved(@)]
<1>1. /\ ~At(r, "idle") /\ Ended(r)
      /\ target \in StoredMembers /\ member[target].campaign = c
      /\ UNCHANGED <<account, campaigns, member, link, boot, begun, raced>>
      /\ note' = [n \in Notes |-> IF note[n].campaign # c THEN note[n] ELSE v(n)]
  BY DEF MovesNotes, Answers, At
<1>2. note \in [Notes -> Note] /\ AuthorsBelong /\ StoredMembers' = StoredMembers
  BY <1>1 DEF IInv, TypeOK, StoredMembers
<1>3. \A m \in Members : moved(m) \in {m, target}
  OBVIOUS
<1>4. ASSUME NEW n \in Notes
      PROVE  /\ v(n) \in Note /\ v(n).at = note[n].at /\ v(n).campaign = note[n].campaign
             /\ v(n).createdBy \in {note[n].createdBy, target}
             /\ v(n).lastEditedBy \in {note[n].lastEditedBy, target}
  <2>1. note[n] \in Note /\ note[n].createdBy \in Members /\ note[n].lastEditedBy \in Members
    BY <1>2 DEF Note
  <2>2. /\ v(n).createdBy = moved(note[n].createdBy)
        /\ v(n).lastEditedBy = moved(note[n].lastEditedBy)
        /\ v(n).at = note[n].at /\ v(n).campaign = note[n].campaign
    BY <2>1 DEF Note
  <2>3. v(n) \in [at: {"none", "stored", "deleted"}, campaign: Campaigns,
                  createdBy: Members, lastEditedBy: Members]
    BY <2>1 DEF Note
  <2>. QED
    BY <1>3, <2>1, <2>2, <2>3 DEF Note
<1>. HIDE DEF v
<1>5. note' \in [Notes -> Note]
  BY <1>1, <1>2, <1>4
<1>6. ASSUME NEW n \in Notes, note'[n].at = "stored"
      PROVE  /\ note'[n].campaign \in campaigns
             /\ \A m \in {note'[n].createdBy, note'[n].lastEditedBy} :
                  m \in StoredMembers /\ member[m].campaign = note'[n].campaign
  <2>1. CASE note[n].campaign # c
    BY <1>1, <1>2, <1>6, <2>1 DEF AuthorsBelong
  <2>2. CASE note[n].campaign = c
    <3>1. note'[n] = v(n)
      BY <1>1, <2>2
    <3>. QED
      BY <1>1, <1>2, <1>4, <1>6, <2>2, <3>1 DEF AuthorsBelong
  <2>. QED
    BY <2>1, <2>2
<1>7. AuthorsBelong'
  <2>1. StoredMembers' = StoredMembers /\ campaigns' = campaigns /\ member' = member
    BY <1>1, <1>2
  <2>. QED
    BY <1>6, <2>1 DEF AuthorsBelong
<1>. QED
  BY <1>1, <1>5, <1>7, NoteStep
-----------------------------------------------------------------------------
(* A claim is written.                                                     *)

(* Whoever of q and r was there first, the other's row is marked.          *)
LEMMA RivalsAreMarked ==
  ASSUME NEW r \in Requests, WritesClaim(r), NEW q \in Requests \ {r}, q \in Rivals(r)
  PROVE  {<<"member", request[q].member>>, <<"member", request[r].member>>} \subseteq raced'
<1>1. raced' = raced \cup {<<"member", request[p].member>> : p \in Rivals(r) \cup {r}}
  BY DEF WritesClaim
<1>. QED
  BY <1>1

LEMMA ClaimedRow ==
  ASSUME NEW row \in Member, NEW a \in Accounts
  PROVE  LET v == [row EXCEPT !.user = a, !.token = @ + 1]
         IN  /\ v \in Member /\ v.at = row.at /\ v.role = row.role
             /\ v.campaign = row.campaign /\ v.user = a
<1>1. row.token + 1 \in Nat
  BY DEF Member
<1>2. ASSUME NEW n \in Nat
      PROVE  LET v == [row EXCEPT !.user = a, !.token = n]
             IN  /\ v \in Member /\ v.at = row.at /\ v.role = row.role
                 /\ v.campaign = row.campaign /\ v.user = a
  BY DEF Member
<1>. QED
  BY <1>1, <1>2

LEMMA WritesClaimKeeps ==
  ASSUME IInv, NEW r \in Requests, WritesClaim(r)
  PROVE  IInv'
<1>. DEFINE me == request[r]
            m  == me.member
            a  == me.account
            c  == member[m].campaign
            v  == [member[m] EXCEPT !.user = a, !.token = @ + 1]
<1>1. /\ me \in Request /\ request \in [Requests -> Request] /\ member \in [Members -> Member]
      /\ RequestOK(r) /\ ClaimOK(r) /\ At(r, "claimWrite") /\ ~At(r, "idle")
      /\ RowsOK /\ OwnerInv /\ OneSeat /\ AuthorsBelong
      /\ UNCHANGED <<account, campaigns, link, note, boot, begun>>
      /\ request' = [request EXCEPT ![r] = request'[r]] /\ request'[r] = Idle
  BY DEF IInv, TypeOK, RequestsOK, At, WritesClaim, Ended, Goto
<1>2. /\ m \in Members /\ m \in StoredMembers /\ member[m].at = "stored"
      /\ member[m].role = "guest" /\ member[m] \in Member
      /\ a \in Accounts /\ a \in StoredAccounts /\ c \in campaigns
  BY <1>1 DEF RequestOK, At, StoredMembers, StoredAccounts, RowsOK
<1>3. member' = [member EXCEPT ![m] = v]
  BY <1>1, <1>2 DEF WritesClaim, Member
<1>4. /\ v \in Member /\ v.at = "stored" /\ v.role = "guest" /\ v.campaign = c /\ v.user = a
  BY <1>2, ClaimedRow
<1>. HIDE DEF v
<1>5. /\ \A k \in Members \ {m} : member'[k] = member[k]
      /\ member'[m] = v /\ member' \in [Members -> Member]
  BY <1>1, <1>2, <1>3, <1>4
<1>6. StoredMembers' = StoredMembers /\ StoredAccounts' = StoredAccounts
  BY <1>1, <1>2, <1>4, <1>5 DEF StoredMembers, StoredAccounts
<1>7. raced \subseteq raced'
  BY DEF WritesClaim
<1>8. raced' \subseteq ({"account"} \X Accounts) \cup ({"member"} \X Members)
  <2>1. \A q \in Rivals(r) \cup {r} : request[q].member \in Members
    BY <1>1, <1>2 DEF Rivals, IInv, RequestsOK, RequestOK, At, StoredMembers
  <2>. QED
    BY <2>1 DEF WritesClaim, IInv, TypeOK
<1>9. \A k \in StoredMembers : k \in Members
  BY DEF StoredMembers
<1>10. RowsOK'
  BY <1>1, <1>2, <1>4, <1>5, <1>6, <1>9 DEF RowsOK
<1>11. OwnerInv'
  <2>1. \A d \in campaigns : OwnerSeats(d)' = OwnerSeats(d)
    BY <1>2, <1>4, <1>5, <1>6 DEF OwnerSeats, StoredMembers
  <2>2. ASSUME NEW l \in Links, link[l].at # "none"
        PROVE  OwnsCampaign(link[l].by, link[l].campaign)'
    <3>1. OwnsCampaign(link[l].by, link[l].campaign)
      BY <1>1, <2>2 DEF OwnerInv
    <3>. QED
      BY <1>1, <1>2, <1>5, <1>6, <1>9, <3>1 DEF OwnsCampaign, MembershipsOf
  <2>. QED
    BY <1>1, <2>1, <2>2 DEF OwnerInv
<1>12. OneSeat'
  <2>1. SUFFICES ASSUME NEW i \in StoredMembers, NEW k \in StoredMembers, i # k,
                        member'[i].user = member'[k].user, member'[i].user # NoAccount,
                        member'[i].campaign = member'[k].campaign
                 PROVE  {<<"member", i>>, <<"member", k>>} \subseteq raced'
    BY <1>6 DEF OneSeat
  <2>2. ASSUME NEW j \in StoredMembers, j # m, member[j].user = a, member[j].campaign = c
        PROVE  {<<"member", j>>, <<"member", m>>} \subseteq raced'
    BY <1>1, <1>7, <2>2 DEF ClaimOK, MembershipsOf
  <2>3. CASE i # m /\ k # m
    BY <1>1, <1>5, <1>7, <1>9, <2>1, <2>3 DEF OneSeat
  <2>4. CASE i = m
    BY <1>4, <1>5, <1>9, <2>1, <2>2, <2>4
  <2>5. CASE k = m
    BY <1>4, <1>5, <1>9, <2>1, <2>2, <2>5
  <2>. QED
    BY <2>3, <2>4, <2>5
<1>13. AuthorsBelong'
  BY <1>1, <1>2, <1>4, <1>5, <1>6, <1>9 DEF AuthorsBelong
<1>14. RowsKept /\ SubsKept
  BY <1>1, <1>2, <1>4, <1>5, <1>6, <1>7, <1>9 DEF RowsKept, SubsKept
<1>15. ASSUME NEW q \in Requests \ {r}
       PROVE  (RequestOK(q) /\ LinkedOK(q) /\ ClaimOK(q))'
  <2>1. request'[q] = request[q] /\ RequestOK(q) /\ LinkedOK(q) /\ ClaimOK(q)
    BY <1>1 DEF IInv, RequestsOK
  <2>2. CASE At(q, "claimWrite") => ClaimKept(q)
    BY <1>14, <2>1, <2>2, OtherRequests DEF IInv
  <2>3. CASE At(q, "claimWrite") /\ ~ClaimKept(q)
    <3>. DEFINE n == request[q].member
                b == request[q].account
    <3>1. n \in StoredMembers /\ n \in Members /\ b \in StoredAccounts
      BY <2>1, <2>3 DEF RequestOK, At, StoredMembers
    <3>2. member'[n].campaign = member[n].campaign
      BY <1>4, <1>5, <3>1
    <3>3. n = m \/ (b = a /\ member[n].campaign = c)
      <4>1. SUFFICES ASSUME n # m, ~(b = a /\ member[n].campaign = c) PROVE ClaimKept(q)
        BY <2>3
      <4>. QED
        BY <1>4, <1>5, <1>6, <3>1, <4>1 DEF ClaimKept, MembershipsOf, StoredMembers
    <3>4. q \in Rivals(r)
      BY <2>3, <3>3 DEF Rivals
    <3>5. {<<"member", n>>, <<"member", m>>} \subseteq raced'
      BY <3>4, RivalsAreMarked
    <3>6. \A k \in Members \ {m} :
             member[k].at = "stored" /\ member[k].user = b /\ member[k].campaign = member[n].campaign
             => <<"member", k>> \in raced
      BY <2>1, <2>3 DEF ClaimOK, MembershipsOf, StoredMembers
    <3>7. ClaimOK(q)'
      BY <1>5, <1>7, <2>1, <3>2, <3>5, <3>6 DEF ClaimOK, MembershipsOf, StoredMembers
    <3>8. (RequestOK(q) /\ LinkedOK(q))'
      <4>1. ASSUME At(q, "claimWrite") PROVE request[q].pc = "claimWrite"
        BY <4>1 DEF At
      <4>2. RequestOK(q)'
        BY <1>14, <2>1, <2>3, <3>1, <4>1, <1>1 DEF RequestOK, RowsKept, IInv, TypeOK, Request
      <4>3. LinkedOK(q)'
        BY <2>1, <2>3, <4>1 DEF LinkedOK
      <4>. QED
        BY <4>2, <4>3
    <3>. QED
      BY <3>7, <3>8
  <2>. QED
    BY <2>2, <2>3
<1>16. RequestsOK'
  BY <1>1, <1>15, IdleOK DEF RequestsOK
<1>17. NothingYet'
  BY <1>1, Serving, StillServing DEF IInv
<1>18. TypeOK'
  BY <1>1, <1>5, <1>8, IdleType DEF IInv, TypeOK
<1>. QED
  BY <1>10, <1>11, <1>12, <1>13, <1>16, <1>17, <1>18 DEF IInv

-----------------------------------------------------------------------------
LEMMA InitHolds ==
  ASSUME Init
  PROVE  IInv
<1>. USE Constants
<1>1. \A r \in Requests : request[r] = Idle
  BY DEF Init
<1>2. RequestsOK
  BY <1>1, IdleType DEF RequestsOK, RequestOK, LinkedOK, ClaimOK, At
<1>3. request \in [Requests -> Request] /\ begun \in 0 .. MaxRequests /\ raced = {}
  BY IdleType, BoundsAssumption DEF Init
<1>4. CASE Empty
  <2>1. account \in [Accounts -> Account] /\ \A b \in Accounts : account[b] = NoAccountRow
    BY <1>4 DEF Empty, NoAccountRow, Account
  <2>2. member \in [Members -> Member] /\ \A m \in Members : member[m] = NoMemberRow
    BY <1>4 DEF Empty, NoMemberRow, Member
  <2>3. link \in [Links -> Link] /\ \A l \in Links : link[l].at = "none"
    BY <1>4 DEF Empty, LinkAt, Link
  <2>4. note \in [Notes -> Note] /\ \A n \in Notes : note[n].at = "none"
    BY <1>4 DEF Empty, NoteAt, Note
  <2>5. StoredMembers = {} /\ StoredAccounts = {} /\ campaigns = {}
    BY <1>4, <2>1, <2>2 DEF Empty, StoredMembers, StoredAccounts, NoMemberRow, NoAccountRow
  <2>6. TypeOK
    BY <1>3, <1>4, <2>1, <2>2, <2>3, <2>4, <2>5 DEF TypeOK, Empty
  <2>7. RowsOK
    BY <2>1, <2>2, <2>3, <2>5 DEF RowsOK, NoMemberRow, NoAccountRow
  <2>8. NothingYet
    BY <1>1, <1>4, <2>5, IdleType DEF NothingYet, Empty, At
  <2>9. OwnerInv /\ OneSeat /\ AuthorsBelong
    BY <2>3, <2>4, <2>5 DEF OwnerInv, OneSeat, AuthorsBelong
  <2>. QED
    BY <1>2, <2>6, <2>7, <2>8, <2>9 DEF IInv
<1>5. CASE InUse
  <2>1. /\ account \in [Accounts -> Account]
        /\ account[1].at = "stored"
        /\ \A b \in Accounts \ {1} : account[b].at = "none" /\ account[b].sub = NoSub
    BY <1>5 DEF InUse, NoAccountRow, Account
  <2>2. \A m \in Members : member[m] = IF m = 1 THEN OwnerOf(Default, 1)
                                       ELSE IF m = 2 THEN GuestOf(Default) ELSE NoMemberRow
    BY <1>5 DEF InUse
  <2>3. member \in [Members -> Member]
    <3>1. OwnerOf(Default, 1) \in Member /\ GuestOf(Default) \in Member /\ NoMemberRow \in Member
      BY DEF OwnerOf, GuestOf, NoMemberRow, Member
    <3>2. member = [m \in Members |-> member[m]]
      BY <1>5 DEF InUse
    <3>. QED
      BY <2>2, <3>1, <3>2
  <2>4. /\ \A m \in Members : member[m].at = "stored" => member[m].campaign = Default
        /\ \A m \in Members \ {1} : member[m].user = NoAccount /\ member[m].role = "guest"
        /\ member[1].at = "stored" /\ member[1].campaign = Default
        /\ member[1].user = 1 /\ member[1].role = "owner"
    BY <2>2 DEF OwnerOf, GuestOf, NoMemberRow
  <2>5. /\ link \in [Links -> Link]
        /\ \A l \in Links : link[l].at # "none" => link[l].campaign = Default /\ link[l].by = 1
    <3>1. /\ LinkAt("active", Default, "editor", 1) \in Link
          /\ LinkAt("none", Default, "viewer", NoAccount) \in Link
      BY DEF LinkAt, Link
    <3>2. \A l \in Links : \/ link[l] = LinkAt("active", Default, "editor", 1)
                           \/ link[l] = LinkAt("none", Default, "viewer", NoAccount)
      BY <1>5 DEF InUse
    <3>3. link = [l \in Links |-> link[l]]
      BY <1>5 DEF InUse
    <3>. QED
      BY <3>1, <3>2, <3>3 DEF LinkAt
  <2>6. /\ note \in [Notes -> Note]
        /\ \A n \in Notes : /\ note[n].campaign = Default
                            /\ note[n].createdBy = 1 /\ note[n].lastEditedBy = 1
    BY <1>5 DEF InUse, NoteAt, Note
  <2>7. campaigns = {Default} /\ 1 \in StoredMembers /\ StoredAccounts = {1}
    BY <1>5, <2>1, <2>4 DEF InUse, StoredMembers, StoredAccounts
  <2>8. TypeOK
    BY <1>3, <1>5, <2>1, <2>3, <2>5, <2>6, <2>7 DEF TypeOK, InUse
  <2>9. RowsOK
    BY <2>1, <2>4, <2>5, <2>7 DEF RowsOK, StoredMembers
  <2>10. NothingYet
    BY <2>7 DEF NothingYet
  <2>11. OwnerInv
    <3>1. OwnerSeats(Default) = {1}
      BY <2>4, <2>7 DEF OwnerSeats, StoredMembers
    <3>2. OwnsCampaign(1, Default)
      BY <2>4, <2>7 DEF OwnsCampaign, MembershipsOf
    <3>. QED
      BY <2>5, <2>7, <3>1, <3>2 DEF OwnerInv
  <2>12. OneSeat
    BY <2>4 DEF OneSeat, StoredMembers
  <2>13. AuthorsBelong
    BY <2>4, <2>6, <2>7 DEF AuthorsBelong
  <2>. QED
    BY <1>2, <2>8, <2>9, <2>10, <2>11, <2>12, <2>13 DEF IInv
<1>. QED
  BY <1>4, <1>5 DEF Init

LEMMA NextKeeps ==
  ASSUME IInv, [Next]_vars
  PROVE  IInv'
<1>1. ASSUME NEW p \in Pods, BootInserts(p) \/ BootCommits(p) \/ BootDies(p) PROVE IInv'
  BY <1>1, BootOnly, BootCommitsKeeps
<1>2. ASSUME NEW r \in Requests, Arrives(r) \/ Step(r) \/ RequestFails(r) PROVE IInv'
  <2>1. CASE Updates(r) \/ Adopts(r)
    BY <2>1, IdentityUpdated DEF Updates, Adopts
  <2>2. CASE Arrives(r) \/ RequestFails(r)
    BY <2>2, Arriving, EndingSteps
  <2>3. CASE Step(r) /\ ~Updates(r) /\ ~Adopts(r)
    BY <2>3, LooksUpKeeps, CreatesKeeps, EndingSteps, FindsGuestKeeps, JoinsKeeps,
       ReadsClaimKeeps, WritesClaimKeeps, CreatesCampaignKeeps, CreatesLinkKeeps, LinkEnds,
       EditsNoteKeeps, MovesNotesKeeps, SharedEditsKeeps DEF Step
  <2>. QED
    BY <1>2, <2>1, <2>2, <2>3
<1>3. ASSUME NEW l \in Links, LinkExpires(l) PROVE IInv'
  BY <1>3, LinkEnds
<1>4. CASE UNCHANGED vars
  <2>1. UNCHANGED <<account, campaigns, member, link, note, boot, request, begun, raced>>
    BY <1>4 DEF vars
  <2>2. Data' /\ RowsKept /\ SubsKept /\ \A q \in Requests : ClaimKept(q)
    BY <2>1, DataSame DEF IInv, Data, database
  <2>3. RequestsOK'
    BY <2>1, <2>2, OtherRequests DEF IInv, RequestsOK
  <2>4. NothingYet' /\ TypeOK'
    BY <2>1 DEF IInv, NothingYet, TypeOK, StoredMembers, At
  <2>. QED
    BY <2>2, <2>3, <2>4 DEF IInv, Data
<1>. QED
  BY <1>1, <1>2, <1>3, <1>4 DEF Next

(* A membership changes hands only if its claim was raced.                 *)
LEMMA UsersKept ==
  ASSUME IInv, [Next]_vars, NEW m \in Members, member[m].user # NoAccount,
         member'[m].user # member[m].user
  PROVE  <<"member", m>> \in raced
<1>1. member \in [Members -> Member] /\ m \in StoredMembers
  BY DEF IInv, TypeOK, RowsOK, StoredMembers, Member
<1>2. CASE member' = member
  BY <1>2
<1>3. ASSUME NEW v, Room, member' = [member EXCEPT ![NewMember] = v] PROVE FALSE
  BY <1>1, <1>3, NewMemberIsFree
<1>4. ASSUME NEW r \in Requests, Creates(r) PROVE FALSE
  <2>1. member' = Claims(NewAccount)
    BY <1>4 DEF Creates
  <2>. QED
    BY <1>1, <2>1 DEF Claims
<1>5. ASSUME NEW r \in Requests, WritesClaim(r) PROVE <<"member", m>> \in raced
  <2>1. request[r].member = m
    BY <1>1, <1>5 DEF WritesClaim
  <2>. QED
    BY <1>5, <2>1 DEF IInv, RequestsOK, ClaimOK, WritesClaim
<1>6. ASSUME NEW p \in Pods, BootCommits(p) PROVE FALSE
  BY <1>2, <1>3, <1>6 DEF BootCommits
<1>7. ASSUME NEW r \in Requests, Joins(r) \/ \E c \in Campaigns : CreatesCampaign(r, c) PROVE FALSE
  BY <1>3, <1>7 DEF Joins, CreatesCampaign
<1>8. ASSUME NEW r \in Requests, Arrives(r) PROVE member' = member
  BY <1>8 DEF Arrives, AccountBegins, SharedBegins, Begins, database
<1>9. ASSUME NEW r \in Requests, RequestFails(r) \/ LooksUp(r) \/ Updates(r) \/ Adopts(r)
                 \/ ConnectTimesOut(r) \/ ReadsOnly(r) \/ FindsGuest(r) \/ SharedReads(r)
                 \/ ReadsClaim(r)
      PROVE  member' = member
  BY <1>9 DEF RequestFails, LooksUp, Updates, Adopts, ConnectTimesOut, ReadsOnly, FindsGuest,
              SharedReads, ReadsClaim, database
<1>10. ASSUME NEW r \in Requests, Step(r) PROVE <<"member", m>> \in raced
  <2>1. ASSUME \/ \E c \in Campaigns, l \in Links, level \in {"viewer", "editor"} :
                     CreatesLink(r, c, l, level)
               \/ \E l \in Links : RevokesLink(r, l)
               \/ \E n \in Notes, c \in Campaigns : EditsNote(r, n, c)
               \/ \E c \in Campaigns, i, j \in Members : MovesNotes(r, c, i, j)
               \/ \E n \in Notes : SharedEdits(r, n)
        PROVE  member' = member
    BY <2>1 DEF CreatesLink, RevokesLink, EditsNote, MovesNotes, SharedEdits
  <2>. QED
    BY <1>2, <1>4, <1>5, <1>7, <1>9, <1>10, <2>1 DEF Step
<1>. QED
  BY <1>2, <1>6, <1>8, <1>9, <1>10 DEF Next, BootInserts, BootDies, LinkExpires, database, vars

(* An account changes its identity only in a race.                         *)
LEMMA AccountsKept ==
  ASSUME IInv, [Next]_vars
  PROVE  SubsKept
<1>1. ASSUME account' = account PROVE SubsKept
  BY <1>1 DEF SubsKept
<1>2. ASSUME NEW r \in Requests, Updates(r) \/ Adopts(r) PROVE SubsKept
  BY <1>2, IdentityUpdated DEF Updates, Adopts
<1>3. ASSUME NEW r \in Requests, Creates(r) PROVE SubsKept
  <2>1. CASE WithEmail(request[r].email) # {}
    BY <1>1, <1>3, <2>1 DEF Creates
  <2>2. CASE WithEmail(request[r].email) = {}
    <3>1. request[r].email \in Emails
      BY DEF IInv, TypeOK, Request
    <3>2. NewAccount \in Accounts \ StoredAccounts /\ account[NewAccount].sub = NoSub
      BY <2>2, <3>1, NewAccountIsFree DEF IInv, TypeOK, RowsOK, StoredAccounts, Account
    <3>3. \A a \in Accounts \ {NewAccount} : account'[a] = account[a]
      BY <1>3, <2>2 DEF Creates, IInv, TypeOK
    <3>. QED
      BY <3>2, <3>3 DEF SubsKept
  <2>. QED
    BY <2>1, <2>2
<1>4. ASSUME NEW r \in Requests, Arrives(r) PROVE account' = account
  BY <1>4 DEF Arrives, AccountBegins, SharedBegins, Begins, database
<1>5. ASSUME NEW r \in Requests, Step(r), ~Updates(r), ~Adopts(r), ~Creates(r)
      PROVE  account' = account
  <2>1. ASSUME \/ \E c \in Campaigns, l \in Links, level \in {"viewer", "editor"} :
                     CreatesLink(r, c, l, level)
               \/ \E l \in Links : RevokesLink(r, l)
               \/ \E n \in Notes, c \in Campaigns : EditsNote(r, n, c)
               \/ \E c \in Campaigns, i, j \in Members : MovesNotes(r, c, i, j)
               \/ \E n \in Notes : SharedEdits(r, n)
               \/ \E c \in Campaigns : CreatesCampaign(r, c)
        PROVE  account' = account
    BY <2>1 DEF CreatesLink, RevokesLink, EditsNote, MovesNotes, SharedEdits, CreatesCampaign
  <2>2. ASSUME \/ LooksUp(r) \/ ConnectTimesOut(r) \/ ReadsOnly(r) \/ FindsGuest(r)
               \/ SharedReads(r) \/ ReadsClaim(r) \/ Joins(r) \/ WritesClaim(r)
        PROVE  account' = account
    BY <2>2 DEF LooksUp, ConnectTimesOut, ReadsOnly, FindsGuest, SharedReads, ReadsClaim,
                Joins, WritesClaim, database
  <2>. QED
    BY <1>5, <2>1, <2>2 DEF Step
<1>. QED
  BY <1>1, <1>2, <1>3, <1>4, <1>5 DEF Next, BootInserts, BootCommits, BootDies, LinkExpires,
     RequestFails, database, vars

(* The invariant the theorems below rest on.                               *)
THEOREM Invariance == Spec => []IInv
<1>1. Init => IInv
  BY InitHolds
<1>2. IInv /\ [Next]_vars => IInv'
  BY NextKeeps
<1>. QED
  BY <1>1, <1>2, PTL DEF Spec

(* Every variable has its type.                                            *)
THEOREM TypeCorrect == Spec => []TypeOK
<1>1. IInv => TypeOK
  BY DEF IInv
<1>. QED
  BY <1>1, Invariance, PTL

(* ensureDefaultCampaign, createCampaign and the sign-in's claim: however  *)
(* many pods boot together and accounts sign in first, a campaign has one  *)
(* owner's membership, and links are their campaign's owner's.             *)
THEOREM CampaignsHaveOneOwner == Spec => []OneOwner
<1>1. ASSUME IInv PROVE OneOwner
  <2>1. \A c \in campaigns : Cardinality(OwnerSeats(c)) = 1
    BY <1>1, FS_Singleton DEF IInv, OwnerInv
  <2>. QED
    BY <1>1, <2>1 DEF IInv, OwnerInv, OneOwner
<1>. QED
  BY <1>1, Invariance, PTL

(* claimGuestMembershipTransaction: an account has one membership in a     *)
(* campaign, except where two requests raced on both rows: the check and   *)
(* the write of a claim are apart, and nothing else leads to two seats.    *)
THEOREM OneSeatEach == Spec => []OneSeat
<1>1. IInv => OneSeat
  BY DEF IInv
<1>. QED
  BY <1>1, Invariance, PTL

(* requireSharedMembership, requireEditorAccess and consolidation: a note  *)
(* names members of its campaign.                                          *)
THEOREM NotesNameMembers == Spec => []AuthorsBelong
<1>1. IInv => AuthorsBelong
  BY DEF IInv
<1>. QED
  BY <1>1, Invariance, PTL

(* updateOwnerKeycloakIdentity and the claims: only two requests that had  *)
(* both read a row before either wrote it give it from one to the other.   *)
THEOREM IdentitiesStay == Spec => IdentitiesKept
<1>1. IInv /\ [Next]_vars =>
        [/\ \A m \in Members :
              member[m].user # NoAccount /\ member'[m].user # member[m].user
              => <<"member", m>> \in raced
         /\ \A a \in Accounts :
              account[a].sub # NoSub /\ account'[a].sub # account[a].sub
              => <<"account", a>> \in raced']_vars
  BY UsersKept, AccountsKept DEF SubsKept
<1>. QED
  BY <1>1, Invariance, PTL DEF Spec, IdentitiesKept
=============================================================================
