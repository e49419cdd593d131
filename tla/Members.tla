------------------------------- MODULE Members -------------------------------
(***************************************************************************)
(* Who may act in which campaign of a tenant: the sign-in that finds or    *)
(* makes the account of a Keycloak identity, the memberships a share link  *)
(* lets guests join with and accounts claim, and the requests that these   *)
(* checks admit (route-support.ts, the owner and shared routes, and the    *)
(* transactions of note-store-owner-accounts.ts, note-store-memberships.ts,*)
(* note-store-campaigns.ts and note-store-share-links.ts).                 *)
(*                                                                         *)
(* The database runs at READ COMMITTED: what a transaction reads is a step *)
(* of its own where a later write depends on it and the write does not     *)
(* repeat the test.  Everything a request re-reads of a row that is never  *)
(* deleted nor taken away (a campaign, its owner) is read once, with the   *)
(* write.  A transaction holds a connection of the pool; the one that      *)
(* creates an account needs a second.                                      *)
(***************************************************************************)
EXTENDS Naturals, FiniteSets

CONSTANTS
    Subs, NoSub,    \* the subjects of Keycloak identities; keycloak_sub NULL
    Emails,
    Campaigns, Default,
    Links, Notes,
    Slots,          \* how many requests the API serves at one time
    Pods,           \* pods that boot
    PoolSize,       \* NOTES_DB_POOL_MAX
    MaxMembers,     \* bound: memberships
    MaxRequests     \* bound: requests that begin

ASSUME SubsAssumption    == NoSub \notin Subs /\ Subs # {}
ASSUME DefaultAssumption == Default \in Campaigns
ASSUME BoundsAssumption  == /\ {Slots, PoolSize, MaxMembers, MaxRequests} \subseteq Nat
                            /\ MaxMembers > 0
ASSUME EmailsAssumption  == IsFiniteSet(Emails) /\ Emails # {}
ASSUME LinksAssumption   == Links # {}

Requests == 1..Slots

VARIABLES
    account,    \* account[a]: the row of owner_accounts
    campaigns,  \* the campaigns that exist
    member,     \* member[m]: the row of campaign_memberships
    link,       \* link[l]: the row of campaign_share_links
    note,       \* note[n]: whose the note is
    boot,       \* boot[p]: where the pod's ensureDefaultCampaign is
    request,    \* request[r]: the locals of a request
    begun,
    raced       \* history: rows that two requests had read before either wrote

vars == <<account, campaigns, member, link, note, boot, request, begun, raced>>

(* The email is unique: no more rows than emails.                          *)
Accounts  == 1..Cardinality(Emails)
NoAccount == 0
Members   == 1..MaxMembers
NoMember  == 0

Account == [at: {"none", "stored"}, sub: Subs \cup {NoSub}, email: Emails]

(* token: which of the tokens minted for the membership is the valid one.  *)
Member == [at: {"none", "stored"}, campaign: Campaigns, role: {"owner", "guest"},
           user: Accounts \cup {NoAccount}, token: Nat]

(* ended: revoked or expired.  by: history, the account that created it.   *)
Link == [at: {"none", "active", "ended"}, campaign: Campaigns,
         level: {"viewer", "editor"}, by: Accounts \cup {NoAccount}]

Note == [at: {"none", "stored", "deleted"}, campaign: Campaigns,
         createdBy: Members, lastEditedBy: Members]

(* account: any route of an account's; which one is settled once the sign- *)
(* in, the same for all, is done.                                          *)
Ops == {"account", "join", "claim", "edit"}

(* sub, email: of the bearer token; member, token: what the guest token    *)
(* names; unlinked: the account was read with no keycloak_sub.             *)
Request == [pc: {"idle", "signIn", "update", "create", "adopt", "signedIn", "guest",
                 "join", "claim", "claimWrite", "edit"},
            op: Ops, sub: Subs, email: Emails,
            account: Accounts \cup {NoAccount}, unlinked: BOOLEAN,
            link: Links, member: Members \cup {NoMember}, token: Nat]

AnySub   == CHOOSE s \in Subs : TRUE
AnyEmail == CHOOSE e \in Emails : TRUE
AnyLink  == CHOOSE l \in Links : TRUE

Idle == [pc |-> "idle", op |-> "account", sub |-> AnySub, email |-> AnyEmail,
         account |-> NoAccount, unlinked |-> FALSE, link |-> AnyLink,
         member |-> NoMember, token |-> 0]

StoredAccounts == {a \in Accounts : account[a].at = "stored"}
StoredMembers  == {m \in Members : member[m].at = "stored"}

NewAccount == CHOOSE a \in Accounts : a \notin StoredAccounts
NewMember  == CHOOSE m \in Members : m \notin StoredMembers
Room       == StoredMembers # Members

NoAccountRow == [at |-> "none", sub |-> NoSub, email |-> AnyEmail]
NoMemberRow  == [at |-> "none", campaign |-> Default, role |-> "guest",
                 user |-> NoAccount, token |-> 0]
OwnerOf(c, a) == [at |-> "stored", campaign |-> c, role |-> "owner", user |-> a, token |-> 0]
GuestOf(c)    == [at |-> "stored", campaign |-> c, role |-> "guest", user |-> NoAccount, token |-> 1]
LinkAt(at, c, level, a) == [at |-> at, campaign |-> c, level |-> level, by |-> a]
NoteAt(at, c, m) == [at |-> at, campaign |-> c, createdBy |-> m, lastEditedBy |-> m]

(* selectOwnerMembershipByCampaignAndUser and its sibling of any role.     *)
MembershipsOf(a, c) == {m \in StoredMembers : member[m].user = a /\ member[m].campaign = c}
OwnsCampaign(a, c)  == \E m \in MembershipsOf(a, c) : member[m].role = "owner"
OwnerSeats(c) == {m \in StoredMembers : member[m].campaign = c /\ member[m].role = "owner"}

(* An empty database, or one in use: its owner signed in, shared the       *)
(* default campaign and perhaps wrote a note, and a guest joined.          *)
Empty ==
    /\ campaigns = {}
    /\ account = [a \in Accounts |-> NoAccountRow]
    /\ member = [m \in Members |-> NoMemberRow]
    /\ link = [l \in Links |-> LinkAt("none", Default, "viewer", NoAccount)]
    /\ note = [n \in Notes |-> NoteAt("none", Default, 1)]
    /\ boot = [p \in Pods |-> "down"]

InUse ==
    /\ campaigns = {Default}
    /\ account = [a \in Accounts |->
          IF a = 1 THEN [at |-> "stored", sub |-> AnySub, email |-> AnyEmail] ELSE NoAccountRow]
    /\ member = [m \in Members |-> CASE m = 1 -> OwnerOf(Default, 1)
                                     [] m = 2 -> GuestOf(Default)
                                     [] OTHER -> NoMemberRow]
    /\ link = [l \in Links |-> IF l = AnyLink THEN LinkAt("active", Default, "editor", 1)
                               ELSE LinkAt("none", Default, "viewer", NoAccount)]
    /\ \E at \in {"none", "stored"} : note = [n \in Notes |-> NoteAt(at, Default, 1)]
    /\ boot = [p \in Pods |-> "up"]

Init ==
    /\ Empty \/ InUse
    /\ request = [r \in Requests |-> Idle]
    /\ begun = 0
    /\ raced = {}

database == <<account, campaigns, member, link, note>>

(* The connections of the pool in use, and whether one is free.            *)
Held == Cardinality({r \in Requests : request[r].pc \in {"update", "create", "adopt", "claimWrite"}})
Free == Held < PoolSize

Goto(r, locals) == request' = [request EXCEPT ![r] = locals]
Ended(r)  == Goto(r, Idle)
At(r, pc) == request[r].pc = pc

-----------------------------------------------------------------------------
(* A pod boots: ensureDefaultCampaign, one transaction.  Its INSERT ... ON *)
(* CONFLICT waits while another pod's insert of the campaign is open.      *)

BootInserts(p) ==
    /\ boot[p] = "down"
    /\ Default \notin campaigns => \A q \in Pods : boot[q] # "inserted"
    /\ boot' = [boot EXCEPT ![p] = "inserted"]
    /\ UNCHANGED <<database, request, begun, raced>>

(* Variant: the owner's seat goes in with the campaign, uncounted.         *)
BootCommitsAlways(p) ==
    /\ boot[p] = "inserted"
    /\ campaigns' = campaigns \cup {Default}
    /\ IF Room THEN member' = [member EXCEPT ![NewMember] = OwnerOf(Default, NoAccount)]
               ELSE UNCHANGED member
    /\ boot' = [boot EXCEPT ![p] = "up"]
    /\ UNCHANGED <<account, link, note, request, begun, raced>>

(* countOwnerMemberships = 0, with a snapshot of its own, then the COMMIT. *)
BootCommits(p) ==
    /\ boot[p] = "inserted"
    /\ campaigns' = campaigns \cup {Default}
    /\ IF OwnerSeats(Default) = {} /\ Room
         THEN member' = [member EXCEPT ![NewMember] = OwnerOf(Default, NoAccount)]
         ELSE UNCHANGED member
    /\ boot' = [boot EXCEPT ![p] = "up"]
    /\ UNCHANGED <<account, link, note, request, begun, raced>>

(* A pod that dies once it is up boots again as one that boots late.       *)
BootDies(p) ==
    /\ boot[p] = "inserted"
    /\ boot' = [boot EXCEPT ![p] = "down"]
    /\ UNCHANGED <<database, request, begun, raced>>

-----------------------------------------------------------------------------
(* A request arrives, and takes the first free slot.                       *)

Begins(r, locals) ==
    /\ At(r, "idle") /\ \A q \in 1..(r - 1) : ~At(q, "idle")
    /\ begun < MaxRequests
    /\ \E p \in Pods : boot[p] = "up"
    /\ begun' = begun + 1
    /\ Goto(r, locals)
    /\ UNCHANGED <<database, boot, raced>>

(* An account's route: requireAuthenticatedAccount comes first.            *)
AccountBegins(r, s, e) ==
    Begins(r, [Idle EXCEPT !.pc = "signIn", !.sub = s, !.email = e])

(* A shared route: resolveSharedLink comes first, and a link revoked or    *)
(* expired is a 404.  m: the membership the guest token in the header was  *)
(* minted for; a join carries none.                                        *)
SharedBegins(r, op, l, s, e, m) ==
    /\ Free
    /\ link[l].at = "active"
    /\ IF op = "join" THEN m = NoMember
       ELSE m \in StoredMembers /\ member[m].role = "guest"
    /\ Begins(r, [Idle EXCEPT
         !.pc = CASE op = "join" -> "join" [] op = "claim" -> "signIn" [] OTHER -> "guest",
         !.op = op, !.link = l, !.sub = s, !.email = e, !.member = m,
         !.token = IF m = NoMember THEN 0 ELSE member[m].token])

-----------------------------------------------------------------------------
(* requireAuthenticatedAccount: findOrCreateOwnerByKeycloakIdentity, the   *)
(* transaction every authenticated request runs.                           *)

Linked(s)    == {a \in StoredAccounts : account[a].sub = s}
WithEmail(e) == {a \in StoredAccounts : account[a].email = e}

(* resolveOwnerEmailForKeycloakIdentity: an email another account has is   *)
(* not taken over.                                                         *)
PersistedEmail(a, e) == IF WithEmail(e) \ {a} = {} THEN e ELSE account[a].email

(* An account linked to another identity is a 409.                         *)
Conflict(a, s) == account[a].sub \notin {NoSub, s}

(* BEGIN, then by keycloak_sub, then by email.                             *)
LooksUp(r) ==
    LET me == request[r] IN
    /\ At(r, "signIn")
    /\ Free
    /\ \/ \E a \in Linked(me.sub) :
            Goto(r, [me EXCEPT !.pc = "update", !.account = a,
                               !.email = PersistedEmail(a, me.email)])
       \/ /\ Linked(me.sub) = {}
          /\ \E a \in WithEmail(me.email) :
               IF Conflict(a, me.sub)
                 THEN Ended(r)
                 ELSE Goto(r, [me EXCEPT !.pc = "update", !.account = a,
                                         !.unlinked = account[a].sub = NoSub])
       \/ /\ Linked(me.sub) \cup WithEmail(me.email) = {}
          /\ Goto(r, [me EXCEPT !.pc = "create"])
    /\ UNCHANGED <<database, boot, begun, raced>>

(* What updateOwnerKeycloakIdentity may not break: the unique indexes.     *)
Unique(a, s, e) == Linked(s) \subseteq {a} /\ WithEmail(e) \subseteq {a}

SignedIn(me, a) ==
    [Idle EXCEPT !.pc = IF me.op = "claim" THEN "guest" ELSE "signedIn", !.op = me.op,
                 !.account = a, !.link = me.link, !.member = me.member, !.token = me.token]

(* The UPDATE and the COMMIT; a row linked since it was read is overwritten*)
(* with what was read.                                                     *)
UpdatesIdentity(r) ==
    LET me == request[r]
        a  == me.account
    IN  IF Unique(a, me.sub, me.email)
          THEN /\ account' = [account EXCEPT ![a].sub = me.sub, ![a].email = me.email]
               /\ Goto(r, SignedIn(me, a))
               /\ raced' = IF me.unlinked /\ Conflict(a, me.sub)
                             THEN raced \cup {<<"account", a>>} ELSE raced
          ELSE /\ Ended(r)
               /\ UNCHANGED <<account, raced>>

Updates(r) ==
    /\ At(r, "update")
    /\ UpdatesIdentity(r)
    /\ UNCHANGED <<campaigns, member, link, note, boot, begun>>

(* Variant: without AND user_id IS NULL.                                   *)
ClaimsAny(a) ==
    [m \in Members |-> IF m \in OwnerSeats(Default) THEN [member[m] EXCEPT !.user = a] ELSE member[m]]

(* updateUnclaimedDefaultMembership: the seats of the default campaign's   *)
(* owner that nobody has.                                                  *)
Claims(a) ==
    [m \in Members |-> IF m \in OwnerSeats(Default) /\ member[m].user = NoAccount
                         THEN [member[m] EXCEPT !.user = a] ELSE member[m]]

(* createOwnerAccountTransaction, on a connection of its own: committed    *)
(* whatever becomes of the sign-in.                                        *)
Creates(r) ==
    LET me == request[r] IN
    /\ At(r, "create")
    /\ Free
    /\ IF WithEmail(me.email) # {}
         THEN /\ Ended(r)
              /\ UNCHANGED <<account, member>>
         ELSE /\ account' = [account EXCEPT ![NewAccount] =
                    [at |-> "stored", sub |-> NoSub, email |-> me.email]]
              /\ member' = Claims(NewAccount)
              /\ Goto(r, [me EXCEPT !.pc = "adopt", !.account = NewAccount, !.unlinked = TRUE])
    /\ UNCHANGED <<campaigns, link, note, boot, begun, raced>>

(* Then the sign-in's own UPDATE of the account it made.                   *)
Adopts(r) ==
    /\ At(r, "adopt")
    /\ UpdatesIdentity(r)
    /\ UNCHANGED <<campaigns, member, link, note, boot, begun>>

(* Variant: connectionTimeoutMillis 0, which waits for ever.               *)
ConnectWaits(r) == FALSE /\ UNCHANGED vars

(* pool.connect gives up after connectionTimeoutMillis.                    *)
ConnectTimesOut(r) ==
    /\ request[r].pc \in {"signIn", "create", "signedIn", "guest", "join", "claim", "edit"}
    /\ ~Free
    /\ Ended(r)
    /\ UNCHANGED <<database, boot, begun, raced>>

-----------------------------------------------------------------------------
(* What an account's request then does.                                    *)

(* resolveAccessibleCampaign, resolveOwnedCampaign.                        *)
Accessible(a, c) == c \in campaigns /\ MembershipsOf(a, c) # {}
Owned(a, c)      == c \in campaigns /\ OwnsCampaign(a, c)

Answers(r) == At(r, "signedIn") /\ Free /\ Ended(r)

(* Nothing to write: GET routes, or a request the checks turn away.        *)
ReadsOnly(r) ==
    /\ Answers(r)
    /\ UNCHANGED <<database, boot, begun, raced>>

CreatesCampaign(r, c) ==
    /\ Answers(r)
    /\ c \notin campaigns \cup {Default} /\ Room
    /\ campaigns' = campaigns \cup {c}
    /\ member' = [member EXCEPT ![NewMember] = OwnerOf(c, request[r].account)]
    /\ UNCHANGED <<account, link, note, boot, begun, raced>>

(* resolveOwnedCampaign, then createCampaignShareLink.                     *)
CreatesLink(r, c, l, level) ==
    LET a == request[r].account IN
    /\ Answers(r)
    /\ link[l].at = "none"
    /\ Owned(a, c)
    /\ link' = [link EXCEPT ![l] = LinkAt("active", c, level, a)]
    /\ UNCHANGED <<account, campaigns, member, note, boot, begun, raced>>

(* Revoking one revoked before moves its date.                             *)
RevokesLink(r, l) ==
    /\ Answers(r)
    /\ link[l].at # "none"
    /\ Owned(request[r].account, link[l].campaign)
    /\ link' = [link EXCEPT ![l].at = "ended"]
    /\ UNCHANGED <<account, campaigns, member, note, boot, begun, raced>>

(* POST, PUT and DELETE of a note of the campaign by a member of it.       *)
NoteCreated(n, c, m) == note[n].at = "none" /\ note' = [note EXCEPT ![n] = NoteAt("stored", c, m)]
Found(n, c)          == note[n].at = "stored" /\ note[n].campaign = c
NoteUpdated(n, c, m) == Found(n, c) /\ note' = [note EXCEPT ![n].lastEditedBy = m]
NoteDeleted(n, c)    == Found(n, c) /\ note' = [note EXCEPT ![n].at = "deleted"]
Edited(n, c, m)      == NoteCreated(n, c, m) \/ NoteUpdated(n, c, m) \/ NoteDeleted(n, c)

(* The membership is whichever row LIMIT 1 picks.                          *)
EditsNote(r, n, c) ==
    /\ Answers(r)
    /\ Accessible(request[r].account, c)
    /\ \E m \in MembershipsOf(request[r].account, c) : Edited(n, c, m)
    /\ UNCHANGED <<account, campaigns, member, link, boot, begun, raced>>

(* consolidateMembershipsTransaction: both of the campaign, by its owner.  *)
MovesNotes(r, c, source, target) ==
    LET moved(m) == IF m = source THEN target ELSE m IN
    /\ Answers(r)
    /\ Owned(request[r].account, c)
    /\ source # target
    /\ {source, target} \subseteq StoredMembers
    /\ member[source].campaign = c /\ member[target].campaign = c
    /\ note' = [n \in Notes |-> IF note[n].campaign # c THEN note[n]
                  ELSE [note[n] EXCEPT !.createdBy = moved(@), !.lastEditedBy = moved(@)]]
    /\ UNCHANGED <<account, campaigns, member, link, boot, begun, raced>>

-----------------------------------------------------------------------------
(* What a shared route then does.                                          *)

(* createGuestMembership.                                                  *)
Joins(r) ==
    /\ At(r, "join")
    /\ Free
    /\ Room
    /\ member' = [member EXCEPT ![NewMember] = GuestOf(link[request[r].link].campaign)]
    /\ Ended(r)
    /\ UNCHANGED <<account, campaigns, link, note, boot, begun, raced>>

(* Variant: the token alone.                                               *)
AnyMembership(me) == member[me.member].token = me.token

(* requireSharedMembership: the token is still the membership's, and the   *)
(* membership is of the link's campaign.                                   *)
SharedMembership(me) ==
    /\ member[me.member].token = me.token
    /\ member[me.member].campaign = link[me.link].campaign

(* Then requireEditorAccess, where notes change.                           *)
FindsGuest(r) ==
    LET me == request[r] IN
    /\ At(r, "guest")
    /\ Free
    /\ IF SharedMembership(me) /\ (me.op = "edit" => link[me.link].level = "editor")
         THEN Goto(r, [me EXCEPT !.pc = IF me.op = "claim" THEN "claim" ELSE "edit"])
         ELSE Ended(r)
    /\ UNCHANGED <<database, boot, begun, raced>>

(* The note is looked up again: another campaign's is a 404.               *)
SharedEdits(r, n) ==
    LET me == request[r] IN
    /\ At(r, "edit")
    /\ Free
    /\ Edited(n, link[me.link].campaign, me.member)
    /\ Ended(r)
    /\ UNCHANGED <<account, campaigns, member, link, boot, begun, raced>>

SharedReads(r) ==
    /\ request[r].pc \in {"join", "edit"}
    /\ Free
    /\ Ended(r)
    /\ UNCHANGED <<database, boot, begun, raced>>

(* Variant: existingMembership is not looked for.                          *)
ClaimableUnlinked(m, a) == member[m].user = NoAccount

(* claimGuestMembershipTransaction reads: no account has the membership,   *)
(* and the account none in the campaign.                                   *)
Claimable(m, a) == /\ member[m].user = NoAccount
                   /\ MembershipsOf(a, member[m].campaign) = {}

ReadsClaim(r) ==
    LET me == request[r] IN
    /\ At(r, "claim")
    /\ Free
    /\ IF Claimable(me.member, me.account)
         THEN Goto(r, [me EXCEPT !.pc = "claimWrite"])
         ELSE Ended(r)
    /\ UNCHANGED <<database, boot, begun, raced>>

(* The other claims that have read, and not yet written, what this one     *)
(* changes: the membership, or the account's place in the campaign.        *)
Rivals(r) ==
    LET me == request[r] IN
    {q \in Requests \ {r} :
        /\ At(q, "claimWrite")
        /\ \/ request[q].member = me.member
           \/ /\ request[q].account = me.account
              /\ member[request[q].member].campaign = member[me.member].campaign}

(* The UPDATE asks for the id and the role only.                           *)
WritesClaim(r) ==
    LET me == request[r] IN
    /\ At(r, "claimWrite")
    /\ member' = [member EXCEPT ![me.member].user = me.account, ![me.member].token = @ + 1]
    /\ raced' = IF Rivals(r) = {} THEN raced
                ELSE raced \cup {<<"member", request[q].member>> : q \in Rivals(r) \cup {r}}
    /\ Ended(r)
    /\ UNCHANGED <<account, campaigns, link, note, boot, begun>>

-----------------------------------------------------------------------------
(* The environment: a link reaches expires_at; a statement fails or the    *)
(* pod dies, and what the request has not committed is rolled back.        *)

LinkExpires(l) ==
    /\ link[l].at = "active"
    /\ link' = [link EXCEPT ![l].at = "ended"]
    /\ UNCHANGED <<account, campaigns, member, note, boot, request, begun, raced>>

RequestFails(r) ==
    /\ request[r].pc # "idle"
    /\ Ended(r)
    /\ UNCHANGED <<database, boot, begun, raced>>

Step(r) ==
    \/ LooksUp(r) \/ Updates(r) \/ Creates(r) \/ Adopts(r) \/ ConnectTimesOut(r)
    \/ ReadsOnly(r) \/ FindsGuest(r) \/ Joins(r) \/ SharedReads(r)
    \/ ReadsClaim(r) \/ WritesClaim(r)
    \/ \E c \in Campaigns : CreatesCampaign(r, c)
    \/ \E c \in Campaigns, l \in Links, level \in {"viewer", "editor"} : CreatesLink(r, c, l, level)
    \/ \E l \in Links : RevokesLink(r, l)
    \/ \E n \in Notes, c \in Campaigns : EditsNote(r, n, c)
    \/ \E c \in Campaigns, source, target \in Members : MovesNotes(r, c, source, target)
    \/ \E n \in Notes : SharedEdits(r, n)

Arrives(r) ==
    \/ \E s \in Subs, e \in Emails : AccountBegins(r, s, e)
    \/ \E l \in Links, s \in Subs, e \in Emails, m \in Members : SharedBegins(r, "claim", l, s, e, m)
    \/ \E op \in {"join", "edit"}, l \in Links, m \in Members \cup {NoMember} :
         SharedBegins(r, op, l, AnySub, AnyEmail, m)

Next ==
    \/ \E p \in Pods : BootInserts(p) \/ BootCommits(p) \/ BootDies(p)
    \/ \E r \in Requests : Arrives(r) \/ Step(r) \/ RequestFails(r)
    \/ \E l \in Links : LinkExpires(l)

(* A request that is being served goes on.                                 *)
Spec == Init /\ [][Next]_vars /\ \A r \in Requests : WF_vars(Step(r))

-----------------------------------------------------------------------------
(* The rows and the locals have the types above.                           *)
TypeOK ==
    /\ account \in [Accounts -> Account]
    /\ campaigns \subseteq Campaigns
    /\ member \in [Members -> Member]
    /\ link \in [Links -> Link]
    /\ note \in [Notes -> Note]
    /\ boot \in [Pods -> {"down", "inserted", "up"}]
    /\ request \in [Requests -> Request]
    /\ begun \in 0..MaxRequests
    /\ raced \subseteq ({"account"} \X Accounts) \cup ({"member"} \X Members)

(* A campaign has one owner's membership, however many pods boot on an     *)
(* empty database and however many accounts make their first sign-in; and  *)
(* whoever shared a campaign is its owner.                                 *)
OneOwner ==
    /\ \A c \in campaigns : Cardinality(OwnerSeats(c)) = 1
    /\ \A l \in Links : link[l].at # "none" => OwnsCampaign(link[l].by, link[l].campaign)

(* An account has one membership in a campaign (account-already-member),   *)
(* unless two of its claims had both read before either wrote: the claim   *)
(* checks and then writes, and no index stands behind the check.           *)
OneSeat ==
    \A m, k \in StoredMembers :
        /\ m # k /\ member[m].user = member[k].user /\ member[m].user # NoAccount
        /\ member[m].campaign = member[k].campaign
        => {<<"member", m>>, <<"member", k>>} \subseteq raced

(* A membership stays its account's (already-linked) and an account its    *)
(* identity's (OwnerKeycloakLinkConflictError): whatever first sign-ins,   *)
(* changes of email, crashes between the two transactions of a sign-in and *)
(* claims come together, only two requests that had both read the row      *)
(* before either wrote it move it from one to the other.                   *)
IdentitiesKept ==
    [][/\ \A m \in Members :
            member[m].user # NoAccount /\ member'[m].user # member[m].user
            => <<"member", m>> \in raced
       /\ \A a \in Accounts :
            account[a].sub # NoSub /\ account'[a].sub # account[a].sub
            => <<"account", a>> \in raced']_vars

(* Whoever a note names is a member of the note's campaign: a guest token  *)
(* or a share link of one campaign writes in no other, and consolidating   *)
(* memberships moves no note to a stranger.                                *)
AuthorsBelong ==
    \A n \in Notes : note[n].at = "stored" =>
        /\ note[n].campaign \in campaigns
        /\ \A m \in {note[n].createdBy, note[n].lastEditedBy} :
             m \in StoredMembers /\ member[m].campaign = note[n].campaign

(* Every request ends: first sign-ins that hold every connection of the    *)
(* pool while each waits for its second one give up.                       *)
RequestsEnd == \A r \in Requests : ~At(r, "idle") ~> At(r, "idle")
=============================================================================
