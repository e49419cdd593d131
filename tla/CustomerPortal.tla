--------------------------- MODULE CustomerPortal ---------------------------
(***************************************************************************)
(* One load of the customer portal's page.  Its React effects are part of  *)
(* the action whose state change makes React run them: an effect whose     *)
(* dependencies change is cancelled (its request is dropped) and started   *)
(* again.  A request is asked, told (the control plane has read its answer *)
(* at that moment) and only then applied, so that answers may be old when  *)
(* they arrive.                                                            *)
(***************************************************************************)
EXTENDS ControlPlane

CONSTANTS
    NoDashboard,
    MaxPosts,       \* bound on signups this page submits
    MaxFailures     \* bound on failing requests

Posts == 1 .. MaxPosts

VARIABLES
    entry,        \* how far the page has come, "closed" when it is not open
    signedIn,     \* keycloakToken is set
    session,      \* Keycloak still refreshes the token
    dashboard,    \* the tenants shown: their states, or NoDashboard
    loading,      \* isLoadingDashboard
    hydrate,      \* the request of the hydration effect
    poll,         \* the request of the polling effect
    seenReady,    \* seenReadyTenantIdsRef
    posts,        \* the submitted signups
    submitting,   \* isSubmittingCreateTenant
    trips,        \* tenants whose app the page has navigated to
    failures

cuVars == <<entry, signedIn, session, dashboard, loading, hydrate, poll,
            seenReady, posts, submitting, trips, failures>>

Idle == [at |-> "idle", body |-> NoDashboard]
Asked == [at |-> "token", body |-> NoDashboard]
\* "shown" is what the answer to a signup has shown ready (history).
IdlePost == [at |-> "idle", body |-> NoDashboard, tenant |-> NoTenant, shown |-> {}]

CuInit ==
    /\ entry \in {"catalog", "closed"} /\ signedIn = FALSE /\ session = FALSE
    /\ dashboard = NoDashboard /\ loading = FALSE
    /\ hydrate = Idle /\ poll = Idle
    /\ seenReady = {} /\ trips = {} /\ failures = 0
    /\ posts = [k \in Posts |-> IdlePost] /\ submitting = FALSE

Transient == {"provisioning", "upgrading"}

TransientIds(d) == IF d = NoDashboard THEN {} ELSE {t \in DOMAIN d : d[t] \in Transient}

ReadyIds(d) == IF d = NoDashboard THEN {} ELSE {t \in DOMAIN d : d[t] = "ready"}

Owned(d) == IF d = NoDashboard THEN {} ELSE {t \in DOMAIN d : d[t] # "none"}

\* A request may fail, or the session behind its token be over.
Fails ==
    \/ ~session /\ UNCHANGED failures
    \/ failures < MaxFailures /\ failures' = failures + 1

-----------------------------------------------------------------------------
(* The effects. *)

NeedsHydration(s, e, d) == s /\ e = "ready" /\ d = NoDashboard

\* The hydration effect begins when its condition becomes true and is
\* cancelled when it ceases to be; cancelled, it leaves the spinner alone.
HydrationEffect(spinner) ==
    IF NeedsHydration(signedIn', entry', dashboard')
    THEN IF NeedsHydration(signedIn, entry, dashboard)
         THEN hydrate' = hydrate /\ loading' = spinner
         ELSE hydrate' = Asked /\ loading' = TRUE
    ELSE hydrate' = Idle /\ loading' = spinner

\* The polling effect is restarted when the set of transient tenants
\* changes: the poll in flight is dropped, and what is ready by now counts
\* as seen.
PollingEffect(request, seen) ==
    IF TransientIds(dashboard') = TransientIds(dashboard)
    THEN poll' = request /\ seenReady' = seen
    ELSE /\ poll' = Idle
         /\ seenReady' = IF TransientIds(dashboard') = {} THEN seen
                         ELSE seen \cup ReadyIds(dashboard')

-----------------------------------------------------------------------------
(* Loading the page. *)

CatalogAnswers ==
    /\ entry = "catalog"
    /\ \/ entry' = "session" /\ UNCHANGED failures
       \/ failures < MaxFailures /\ failures' = failures + 1 /\ entry' = "broken"
    /\ UNCHANGED <<signedIn, session, dashboard, loading, hydrate, poll,
                   seenReady, posts, submitting, trips, cpVars>>

InitAnswers ==
    /\ entry = "session" /\ entry' = "ready"
    /\ \E ok \in BOOLEAN : signedIn' = ok /\ session' = ok
    /\ UNCHANGED <<dashboard, poll, seenReady, posts, submitting, trips, failures, cpVars>>
    /\ HydrationEffect(loading)

SessionEnds ==
    /\ session /\ session' = FALSE
    /\ UNCHANGED <<entry, signedIn, dashboard, loading, hydrate, poll,
                   seenReady, posts, submitting, trips, failures, cpVars>>

Asks(r) == IF r.at = "token" THEN session ELSE r.at = "asked"

\* What the dashboard lists of the account's tenants.
Dashboard == fleet

\* One step forward of a request for the dashboard.
Forward(r) ==
    IF r.at = "token" THEN [r EXCEPT !.at = "asked"]
    ELSE [r EXCEPT !.at = "told", !.body = Dashboard]

HydrateSteps ==
    /\ Asks(hydrate)
    /\ hydrate' = Forward(hydrate)
    /\ UNCHANGED <<entry, signedIn, session, dashboard, loading, poll,
                   seenReady, posts, submitting, trips, failures, cpVars>>

HydrateShows ==
    /\ hydrate.at = "told"
    /\ dashboard' = hydrate.body
    /\ UNCHANGED <<entry, signedIn, session, posts, submitting, trips, failures, cpVars>>
    /\ HydrationEffect(FALSE)
    /\ PollingEffect(poll, seenReady)

\* A hydration that fails signs the page out.
HydrateFails ==
    /\ hydrate.at \in {"token", "asked"}
    /\ Fails
    /\ signedIn' = FALSE
    /\ UNCHANGED <<entry, session, dashboard, poll, seenReady, posts, submitting, trips, cpVars>>
    /\ HydrationEffect(FALSE)

-----------------------------------------------------------------------------
(* Polling while a tenant is in a transient state. *)

PollTick ==
    /\ TransientIds(dashboard) # {} /\ poll.at = "idle"
    /\ poll' = Asked
    /\ UNCHANGED <<entry, signedIn, session, dashboard, loading, hydrate,
                   seenReady, posts, submitting, trips, failures, cpVars>>

PollSteps ==
    /\ Asks(poll)
    /\ poll' = Forward(poll)
    /\ UNCHANGED <<entry, signedIn, session, dashboard, loading, hydrate,
                   seenReady, posts, submitting, trips, failures, cpVars>>

\* The first and only tenant that turns ready under the customer's eyes
\* takes the customer to its app.
PollShows ==
    /\ poll.at = "told"
    /\ dashboard' = poll.body
    /\ LET newlyReady == ReadyIds(poll.body) \ seenReady
       IN  /\ trips' = IF newlyReady # {} /\ newlyReady = Owned(poll.body)
                          /\ Owned(poll.body) \in {{t} : t \in Tenants}
                       THEN trips \cup newlyReady ELSE trips
           /\ PollingEffect(Idle, seenReady \cup newlyReady)
    /\ UNCHANGED <<entry, signedIn, session, posts, submitting, failures, cpVars>>
    /\ HydrationEffect(loading)

\* Variant: a failed poll leaves inFlight set.
PollFailsInFlight ==
    /\ poll.at \in {"token", "asked"}
    /\ Fails
    /\ poll' = [poll EXCEPT !.at = "failed"]
    /\ UNCHANGED <<entry, signedIn, session, dashboard, loading, hydrate,
                   seenReady, posts, submitting, trips, cpVars>>

\* A poll that fails is skipped: the next tick asks again.
PollFails ==
    /\ poll.at \in {"token", "asked"}
    /\ Fails
    /\ poll' = Idle
    /\ UNCHANGED <<entry, signedIn, session, dashboard, loading, hydrate,
                   seenReady, posts, submitting, trips, cpVars>>

-----------------------------------------------------------------------------
(* Signing out, and requesting a tenant. *)

KeycloakLogout ==
    /\ signedIn
    /\ signedIn' = FALSE /\ dashboard' = NoDashboard
    /\ UNCHANGED <<entry, session, posts, submitting, trips, failures, cpVars>>
    /\ HydrationEffect(loading)
    /\ PollingEffect(poll, seenReady)

\* The button is disabled only once the token has been refreshed, so a
\* second click may get in before.
Submit(k, t) ==
    /\ signedIn /\ ~submitting
    /\ \A j \in Posts : j < k => posts[j].at # "idle"
    /\ posts[k].at = "idle"
    /\ posts' = [posts EXCEPT ![k] = [IdlePost EXCEPT !.at = "token", !.tenant = t]]
    /\ UNCHANGED <<entry, signedIn, session, dashboard, loading, hydrate, poll,
                   seenReady, submitting, trips, failures, cpVars>>

SubmitToken(k) ==
    /\ posts[k].at = "token"
    /\ \/ /\ session
          /\ posts' = [posts EXCEPT ![k].at = "asked"]
          /\ submitting' = TRUE
          /\ UNCHANGED failures
       \/ Fails /\ posts' = [posts EXCEPT ![k].at = "done"] /\ UNCHANGED submitting
    /\ UNCHANGED <<entry, signedIn, session, dashboard, loading, hydrate, poll,
                   seenReady, trips, cpVars>>

\* The control plane takes the signup in, or refuses a slug that exists.
PostArrives(k) ==
    /\ posts[k].at = "asked"
    /\ LET t == posts[k].tenant
       IN  \/ /\ \A j \in Posts : ~(posts[j].at = "working" /\ posts[j].tenant = t)
              /\ Signup(t)
              /\ posts' = [posts EXCEPT ![k].at = "working"]
           \/ /\ fleet[t] # "none"
              /\ posts' = [posts EXCEPT ![k].at = "told"]
              /\ UNCHANGED <<fleet, runs, signups>>
    /\ UNCHANGED <<entry, signedIn, session, dashboard, loading, hydrate, poll,
                   seenReady, submitting, trips, failures, rolloutVars, changes>>

\* It answers when the signup is over: the dashboard, or an error.
PostAnswers(k) ==
    /\ posts[k].at = "working" /\ posts[k].tenant \notin signups
    /\ posts' = [posts EXCEPT ![k].at = "told",
                    ![k].body = IF fleet[posts[k].tenant] = "none" THEN NoDashboard ELSE Dashboard]
    /\ UNCHANGED <<entry, signedIn, session, dashboard, loading, hydrate, poll,
                   seenReady, submitting, trips, failures, cpVars>>

\* The answer is lost or the connection fails: the page gets an error, the
\* signup goes on if it has arrived.
PostLost(k) ==
    /\ posts[k].at \in {"asked", "working"}
    /\ failures < MaxFailures /\ failures' = failures + 1
    /\ posts' = [posts EXCEPT ![k].at = "told"]
    /\ UNCHANGED <<entry, signedIn, session, dashboard, loading, hydrate, poll,
                   seenReady, submitting, trips, cpVars>>

\* The answer's dashboard is shown whatever has happened to the page since.
PostShows(k) ==
    /\ posts[k].at = "told"
    /\ dashboard' = IF posts[k].body = NoDashboard THEN dashboard ELSE posts[k].body
    /\ posts' = [posts EXCEPT ![k].at = "done", ![k].body = NoDashboard,
                    ![k].shown = ReadyIds(posts[k].body)]
    /\ submitting' = FALSE
    /\ UNCHANGED <<entry, signedIn, session, trips, failures, cpVars>>
    /\ HydrationEffect(loading)
    /\ PollingEffect(poll, seenReady)

-----------------------------------------------------------------------------

Posting(k) == SubmitToken(k) \/ PostArrives(k) \/ PostAnswers(k) \/ PostLost(k) \/ PostShows(k)

CuNext ==
    \/ CatalogAnswers \/ InitAnswers \/ SessionEnds
    \/ HydrateSteps \/ HydrateShows \/ HydrateFails
    \/ PollTick \/ PollSteps \/ PollShows \/ PollFails
    \/ KeycloakLogout
    \/ \E k \in Posts : Posting(k)
    \/ \E k \in Posts, t \in DOMAIN fleet : Submit(k, t)

\* The page's timers fire and its requests are answered.
CuFairness ==
    /\ WF_cuVars(CatalogAnswers) /\ WF_cuVars(InitAnswers)
    /\ WF_cuVars(HydrateSteps) /\ WF_cuVars(HydrateShows) /\ WF_cuVars(HydrateFails)
    /\ WF_cuVars(PollTick) /\ WF_cuVars(PollSteps) /\ WF_cuVars(PollShows)

-----------------------------------------------------------------------------

\* The dashboard shows t and no other tenant.
Alone(t) == Owned(dashboard) = {t}

\* A customer who watches the only tenant of the account being provisioned
\* is taken to it when it is ready (the polling effect), unless the
\* customer signs out, the session is lost, the tenant fails, is not the
\* only one any more or was shown ready by the answer to a signup of this
\* page: no poll that fails or is dropped by a restart of the effect, and no
\* signup whose answer is lost, ends the polling.
WatcherIsTaken ==
    \A t \in Tenants :
        signedIn /\ Alone(t) /\ dashboard[t] \in Transient /\ t \notin seenReady
            ~> \/ t \in trips
               \/ ~signedIn \/ ~session
               \/ ~Alone(t)
               \/ dashboard[t] \in {"failed", "deprovisioned"}
               \/ \E k \in Posts : t \in posts[k].shown

=============================================================================
