------------------------------- MODULE WebSession -------------------------------
(***************************************************************************)
(* The web application's sign-in, as a browser tab runs it: the account's  *)
(* Keycloak session (useSession, keycloak-client), the guest's membership  *)
(* of a share link (useGuestSession), and what of both localStorage keeps  *)
(* when the page is loaded anew.  Its operators change only what these     *)
(* hooks keep; Workspace makes actions of them.                            *)
(***************************************************************************)
EXTENDS Naturals

CONSTANTS
    None,
    MaxTokens,  \* bound: token sets Keycloak issues
    MaxGuests,  \* bound: guest tokens the share link issues
    MaxLoads    \* bound: times the page is loaded

ASSUME BoundsAssumption == MaxTokens \in Nat /\ MaxGuests \in Nat /\ MaxLoads \in Nat

VARIABLES
    page,       \* the document: is it a share link's, was it loaded by Keycloak's redirect
    stored,     \* localStorage: tokens, guest, campaign
    sess,       \* useSession
    refreshing, \* the tokens under which a refresh is awaited
    guest,      \* useGuestSession, App's sharedCampaign and shareLink
    issuer      \* Keycloak's session and the share link's memberships

sessionVars == <<page, stored, sess, refreshing, guest, issuer>>

Tokens == 1 .. MaxTokens
Guests == 1 .. MaxGuests

(* callback: the URL has the code Keycloak redirected back with; leaving:  *)
(* the document is being replaced.                                         *)
Page == [shared: BOOLEAN, callback: BOOLEAN, leaving: BOOLEAN, loads: 1 .. MaxLoads]

(* pc: where bootstrapAuth awaits; it is "ready" when isAuthReady.         *)
Session == [pc: {"config", "init", "owner", "campaigns", "ready"}, client: BOOLEAN,
            token: 0 .. MaxTokens, owner: BOOLEAN]

(* asked: the stored token the bootstrap sent; shown: sharedCampaign and   *)
(* shareLink are set; linked: the membership has a user.                   *)
Guest == [pc: {"session", "load", "ready"}, asked: 0 .. MaxGuests, token: 0 .. MaxGuests,
          shown: BOOLEAN, member: BOOLEAN, linked: BOOLEAN]

Issuer == [issued: 0 .. MaxTokens, guests: 0 .. MaxGuests,
           valid: SUBSET Guests, editor: BOOLEAN]

Opened == [pc |-> "config", client |-> FALSE, token |-> 0, owner |-> FALSE]

Arrived(shared, g) == [pc |-> IF shared THEN "session" ELSE "ready", asked |-> g, token |-> 0,
                       shown |-> FALSE, member |-> FALSE, linked |-> FALSE]

(* A browser that never was here, or one that left a session behind; on a  *)
(* share link, with a membership or without.                               *)
SessionInit ==
    /\ page \in [shared: BOOLEAN, callback: {FALSE}, leaving: {FALSE}, loads: {1}]
    /\ \E tokens \in {0, 1}, g \in {0, 1}, editor \in BOOLEAN :
         /\ ~page.shared => g = 0 /\ editor
         /\ issuer = [issued |-> tokens, guests |-> g, valid |-> 1 .. g, editor |-> editor]
         /\ stored = [tokens |-> tokens, guest |-> g, campaign |-> None]
    /\ sess = Opened
    /\ refreshing = {}
    /\ guest = Arrived(page.shared, stored.guest)

AuthReady   == sess.pc = "ready"
GuestReady  == guest.pc = "ready"
SignedIn    == sess.owner /\ sess.token # 0

-----------------------------------------------------------------------------
(* resetSession: the tokens go from localStorage and from the client.      *)
WithoutSession(s) == [s EXCEPT !.client = FALSE, !.token = 0, !.owner = FALSE]
WithoutTokens(b)  == [b EXCEPT !.tokens = 0]

CanIssue == issuer.issued < MaxTokens

Issue == issuer' = [issuer EXCEPT !.issued = @ + 1]

(* persistKeycloakTokens: both keys.                                       *)
Persist(b, t) == [b EXCEPT !.tokens = t]

(* fetchAuthConfig names a realm: the client is created, init is called.   *)
ConfigAnswers ==
    /\ sess.pc = "config"
    /\ sess' = [sess EXCEPT !.pc = "init", !.client = TRUE]
    /\ UNCHANGED <<page, stored, refreshing, guest, issuer>>

(* keycloak-js renews the stored tokens, or takes the redirect's code.     *)
InitSignsIn ==
    /\ sess.pc = "init" /\ CanIssue
    /\ page.callback \/ stored.tokens # 0
    /\ Issue
    /\ stored' = Persist(stored, issuer.issued + 1)
    /\ page' = [page EXCEPT !.callback = FALSE]
    /\ sess' = [sess EXCEPT !.pc = "owner"]
    /\ UNCHANGED <<refreshing, guest>>

(* Nothing to renew: no session.                                           *)
InitFindsNone ==
    /\ sess.pc = "init" /\ stored.tokens = 0 /\ ~page.callback
    /\ stored' = WithoutTokens(stored)
    /\ sess' = [sess EXCEPT !.pc = "ready", !.token = 0, !.owner = FALSE]
    /\ UNCHANGED <<page, refreshing, guest, issuer>>

(* /api/auth/session answers; on a share link no campaigns are loaded.     *)
OwnerAnswers ==
    /\ sess.pc = "owner"
    /\ sess' = [sess EXCEPT !.pc = IF page.shared THEN "ready" ELSE "campaigns",
                            !.token = stored.tokens, !.owner = TRUE]
    /\ UNCHANGED <<page, stored, refreshing, guest, issuer>>

-----------------------------------------------------------------------------

(* The interval of startKeycloakRefresh; the effect is run again, and what *)
(* it began is cancelled, when the token changes.                          *)
RefreshBegins ==
    /\ sess.client /\ sess.token # 0 /\ sess.token \notin refreshing /\ CanIssue
    /\ refreshing' = refreshing \cup {sess.token}
    /\ UNCHANGED <<page, stored, sess, guest, issuer>>

Cancelled(t) == t # sess.token

(* Variant: the answer is taken whenever it comes.                         *)
RefreshTaken(t) ==
    /\ t \in refreshing /\ CanIssue
    /\ Issue
    /\ refreshing' = refreshing \ {t}
    /\ stored' = Persist(stored, issuer.issued + 1)
    /\ sess' = [sess EXCEPT !.token = issuer.issued + 1]
    /\ UNCHANGED <<page, guest>>

RefreshAnswers(t) ==
    /\ t \in refreshing /\ CanIssue
    /\ Issue
    /\ refreshing' = refreshing \ {t}
    /\ IF Cancelled(t) THEN UNCHANGED <<stored, sess>>
       ELSE /\ stored' = Persist(stored, issuer.issued + 1)
            /\ sess' = [sess EXCEPT !.token = issuer.issued + 1]
    /\ UNCHANGED <<page, guest>>

(* handleSubmitAuth, and handleLinkSharedMembership without a token: the   *)
(* document is left for Keycloak's.                                        *)
LeaveToSignIn ==
    /\ sess.client /\ ~page.leaving /\ page.loads < MaxLoads /\ CanIssue
    /\ page' = [page EXCEPT !.leaving = TRUE, !.callback = TRUE]
    /\ UNCHANGED <<stored, sess, refreshing, guest, issuer>>

(* A document is loaded: all but localStorage starts anew.                 *)
Loaded(signsIn, shared, b) ==
    /\ page' = [shared |-> shared, callback |-> signsIn, leaving |-> FALSE,
                loads |-> page.loads + 1]
    /\ stored' = b
    /\ sess' = Opened
    /\ refreshing' = {}
    /\ guest' = Arrived(shared, b.guest)

-----------------------------------------------------------------------------
(* fetchSharedSession finds the membership of the token it was sent.       *)
GuestKnown ==
    /\ guest.pc = "session" /\ guest.asked \in issuer.valid
    /\ guest' = [guest EXCEPT !.pc = "load", !.shown = TRUE, !.member = TRUE,
                              !.token = guest.asked]
    /\ UNCHANGED <<page, stored, sess, refreshing, issuer>>

(* No membership: the visitor is asked to join, the stored token goes.     *)
GuestUnknown ==
    /\ guest.pc = "session" /\ guest.asked \notin issuer.valid
    /\ guest' = [guest EXCEPT !.pc = "ready", !.shown = TRUE, !.member = FALSE, !.token = 0]
    /\ stored' = [stored EXCEPT !.guest = 0]
    /\ UNCHANGED <<page, sess, refreshing, issuer>>

GuestSessionFails ==
    /\ guest.pc = "session"
    /\ guest' = [guest EXCEPT !.pc = "ready"]
    /\ UNCHANGED <<page, stored, sess, refreshing, issuer>>

(* POST .../join makes a membership, .../membership/claim gives one a user *)
(* and a new token for the one it was sent.                                *)
MembershipMade ==
    issuer' = [issuer EXCEPT !.guests = @ + 1, !.valid = @ \cup {issuer.guests + 1}]
MembershipClaimed(g) ==
    issuer' = [issuer EXCEPT !.guests = @ + 1, !.valid = (@ \ {g}) \cup {issuer.guests + 1}]

JoinAnswered(g) ==
    /\ stored' = [stored EXCEPT !.guest = g]
    /\ guest' = [guest EXCEPT !.token = g, !.shown = TRUE, !.member = TRUE]

ClaimAnswered(g, c) ==
    /\ stored' = [stored EXCEPT !.guest = g, !.campaign = c]
    /\ guest' = [guest EXCEPT !.token = g, !.linked = TRUE]

-----------------------------------------------------------------------------
SessionTypeOK ==
    /\ page \in Page
    /\ stored.tokens \in 0 .. MaxTokens /\ stored.guest \in 0 .. MaxGuests
    /\ sess \in Session
    /\ refreshing \subseteq Tokens
    /\ guest \in Guest
    /\ issuer \in Issuer

(* What localStorage would resume is the session on the screen, so that a  *)
(* page loaded after a sign-out asks for a sign-in: no refresh that was    *)
(* awaited at the sign-out leaves its tokens behind (useSession.ts:267).   *)
StoredIsSession ==
    (AuthReady /\ stored.tokens # 0) => (SignedIn /\ sess.token = stored.tokens)
=============================================================================
