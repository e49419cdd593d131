--------------------------- MODULE OperatorPortal ---------------------------
(***************************************************************************)
(* One load of the operator portal's page: the session and its refresh     *)
(* timer (useOperatorAuth), the fleet status (useFleetStatus), the rollout *)
(* panel and its poll loop (useFleetRollout), and the mutations of the     *)
(* provision panel and the two dialogs.  Of the fleet status only what     *)
(* gates a button is kept.  Requests are asked, told and applied, as in    *)
(* CustomerPortal.                                                         *)
(***************************************************************************)
EXTENDS ControlPlane, FiniteSets

CONSTANTS
    NoFleet,
    Texts, NoText,  \* what can be in the owner field; NoText is the empty field
    Allowances,     \* bounds on what the operator does: how often in each area
    MaxErrors,      \* bound on failing requests
    MaxRefreshes    \* bound on token refreshes in flight

ASSUME TextsAssumption == NoText \notin Texts

VARIABLES
    boot,         \* bootstrapAuth: "init", "load", or "done" (isAuthReady);
                  \* "closed" when the page is not open
    token,        \* authToken is set
    authorized,   \* isRoleAuthorized
    tokensStored,       \* localStorage holds tokens
    refreshes,    \* token refreshes whose answer counts
    fleetStatus,  \* the states shown, or NoFleet
    isLoading,    \* isLoadingFleet
    loads,        \* loadFleet calls: who waits for them and what they were told
    configured,   \* the control plane has a rollout pool
    rollout,      \* the rollout shown, 0 for none
    tick,         \* the poll loop
    composeOpen,
    start,        \* startRollout
    abortOpen,
    abort,        \* abortRollout
    dialog,       \* the open dialog: its kind and its tenant
    job,          \* the mutation it has submitted
    search,       \* the owner search of the provision panel
    left,         \* what is left of the allowance
    errors

authVars == <<boot, token, authorized, tokensStored, refreshes>>
fleetVars == <<fleetStatus, isLoading, loads>>
panelVars == <<rollout, tick, composeOpen, start, abortOpen, abort>>
mutationVars == <<dialog, job>>
opVars == <<authVars, fleetVars, configured, panelVars, mutationVars, search, left, errors>>

Loaders == {"boot", "refresh", "job"}
NoLoad == [at |-> "idle", body |-> NoFleet]
NoCall == [at |-> "idle", id |-> 0]
NoDialog == [kind |-> "none", tenant |-> NoTenant]
NoJob == [at |-> "idle", kind |-> "none", tenant |-> NoTenant, created |-> FALSE, ok |-> FALSE]

\* The timer closes over the text it was started for; requests and options
\* carry theirs.  "late" is the text whose search went on when the draft
\* was emptied, until the field is typed in again (history).
NoSearch == [typed |-> NoText, timer |-> {}, asked |-> {}, options |-> NoText,
             error |-> FALSE, owner |-> FALSE, late |-> {}]

OpInit ==
    /\ boot \in {"init", "closed"} /\ token = FALSE /\ authorized = FALSE
    /\ tokensStored \in BOOLEAN
    /\ refreshes = 0
    /\ fleetStatus = NoFleet /\ isLoading = FALSE /\ loads = [l \in Loaders |-> NoLoad]
    /\ configured \in BOOLEAN
    /\ rollout = 0 /\ tick = NoCall /\ composeOpen = FALSE
    /\ start = NoCall /\ abortOpen = FALSE /\ abort = NoCall
    /\ dialog = NoDialog /\ job = NoJob
    /\ search = NoSearch
    /\ left \in Allowances /\ errors = 0

Areas == {"session", "panel", "search", "dialog"}

Spend(area) == left[area] > 0 /\ left' = [left EXCEPT ![area] = @ - 1]

Errs == errors < MaxErrors /\ errors' = errors + 1

\* AuthGate shows the portal; with a fleet, it is the fleet status page,
\* which holds the rollout panel and the dialogs.
Gate == boot = "done" /\ token /\ authorized
Mounted == Gate /\ fleetStatus # NoFleet

\* The hooks of a page that is unmounted are gone, and so are their
\* answers; one that is mounted begins to poll.
RemountPanel ==
    IF Mounted' = Mounted THEN UNCHANGED panelVars
    ELSE /\ rollout' = 0 /\ composeOpen' = FALSE /\ abortOpen' = FALSE
         /\ start' = NoCall /\ abort' = NoCall
         /\ tick' = IF Mounted' THEN [NoCall EXCEPT !.at = "due"] ELSE NoCall

\* A mutation that is under way goes on without its dialog.
RemountDialogs ==
    /\ IF Mounted' = Mounted THEN UNCHANGED dialog ELSE dialog' = NoDialog
    /\ IF Gate' /\ (Mounted' = Mounted) THEN UNCHANGED search ELSE search' = NoSearch

-----------------------------------------------------------------------------
(* The session. *)

\* Variant: the refresh effect has no cancelled flag.
ClearOperatorSessionAlone ==
    /\ token' = FALSE /\ authorized' = FALSE /\ tokensStored' = FALSE
    /\ UNCHANGED refreshes
    /\ fleetStatus' = NoFleet /\ isLoading' = FALSE

\* clearSession: the tokens are forgotten, the refresh effect is cancelled.
ClearOperatorSession ==
    /\ token' = FALSE /\ authorized' = FALSE /\ tokensStored' = FALSE
    /\ refreshes' = 0
    /\ fleetStatus' = NoFleet /\ isLoading' = FALSE

BeginLoad(l) ==
    /\ loads' = [loads EXCEPT ![l] = [at |-> "asked", body |-> NoFleet]]
    /\ isLoading' = TRUE

BootstrapAuth ==
    /\ boot = "init"
    /\ \/ /\ token' = TRUE /\ tokensStored' = TRUE
          /\ \E ok \in BOOLEAN :
                /\ authorized' = ok
                /\ IF ok THEN boot' = "load" /\ BeginLoad("boot")
                   ELSE boot' = "done" /\ UNCHANGED <<loads, isLoading>>
          /\ UNCHANGED <<refreshes, fleetStatus>>
       \/ boot' = "done" /\ ClearOperatorSession /\ UNCHANGED loads
    /\ UNCHANGED <<configured, job, left, errors, cpVars>>
    /\ RemountPanel /\ RemountDialogs

Refresh ==
    /\ token /\ refreshes < MaxRefreshes
    /\ refreshes' = refreshes + 1
    /\ UNCHANGED <<boot, token, authorized, tokensStored, fleetVars, configured, panelVars,
                   mutationVars, search, left, errors, cpVars>>

\* A new token restarts the effect, which cancels the other refreshes.
TokenRefreshAnswers ==
    /\ refreshes > 0
    /\ \/ /\ token' = TRUE /\ tokensStored' = TRUE /\ authorized' = TRUE
          /\ refreshes' \in {0, refreshes - 1}
          /\ UNCHANGED <<fleetStatus, isLoading>>
       \/ ClearOperatorSession
    /\ UNCHANGED <<boot, loads, configured, job, left, errors, cpVars>>
    /\ RemountPanel /\ RemountDialogs

HandleLogout ==
    /\ token /\ Spend("session")
    /\ ClearOperatorSession
    /\ UNCHANGED <<boot, loads, configured, job, errors, cpVars>>
    /\ RemountPanel /\ RemountDialogs

-----------------------------------------------------------------------------
(* The fleet status. *)

\* The button is disabled while isLoadingFleet, which the first of two
\* loads to end resets.
RefreshFleet ==
    /\ token /\ authorized /\ Spend("session")
    /\ ~isLoading /\ loads["refresh"].at = "idle"
    /\ BeginLoad("refresh")
    /\ UNCHANGED <<authVars, fleetStatus, configured, panelVars, mutationVars, search,
                   errors, cpVars>>

\* What the fleet status reports of the rows.
FleetStatus == fleet

StatusAnswers(l) ==
    /\ loads[l].at = "asked"
    /\ loads' = [loads EXCEPT ![l] = [at |-> "told", body |-> FleetStatus]]
    /\ UNCHANGED <<authVars, fleetStatus, isLoading, configured, panelVars, mutationVars,
                   search, left, errors, cpVars>>

\* A mutation that is done closes its dialog; the provision panel empties
\* its draft, the field and the options, but a timer that is running and a
\* request that is under way go on.
CloseDone ==
    /\ dialog' = NoDialog
    /\ search' = IF job.kind = "provision"
                 THEN [search EXCEPT !.typed = NoText, !.options = NoText, !.owner = FALSE,
                           !.late = IF search.timer # {} THEN search.timer ELSE search.asked]
                 ELSE search

\* A load that answers is shown whoever is signed in by then; the
\* bootstrap and a mutation wait for theirs.
LoadFleet(l) ==
    /\ loads[l].at # "idle"
    /\ \/ loads[l].at = "told" /\ fleetStatus' = loads[l].body /\ UNCHANGED errors
       \/ loads[l].at = "asked" /\ Errs /\ UNCHANGED fleetStatus
    /\ loads' = [loads EXCEPT ![l] = NoLoad] /\ isLoading' = FALSE
    /\ boot' = IF l = "boot" THEN "done" ELSE boot
    /\ job' = IF l = "job" THEN NoJob ELSE job
    /\ UNCHANGED <<token, authorized, tokensStored, refreshes, configured, left, cpVars>>
    /\ RemountPanel
    /\ IF l = "job" /\ job.ok /\ Mounted /\ Mounted' THEN CloseDone ELSE RemountDialogs

-----------------------------------------------------------------------------
(* The rollout panel. *)

\* What a GET of the rollout answers; without a pool it is refused.
Told(call) == [call EXCEPT !.at = "told", !.id = RunningRollout]

Tick ==
    /\ tick.at = "due"
    /\ tick' = [tick EXCEPT !.at = "asked"]
    /\ UNCHANGED <<authVars, fleetVars, configured, rollout, composeOpen, start, abortOpen,
                   abort, mutationVars, search, left, errors, cpVars>>

TickAnswers ==
    /\ tick.at = "asked"
    /\ tick' = IF configured THEN Told(tick) ELSE [tick EXCEPT !.at = "refused"]
    /\ UNCHANGED <<authVars, fleetVars, configured, rollout, composeOpen, start, abortOpen,
                   abort, mutationVars, search, left, errors, cpVars>>

\* The answer is shown, and the next tick is due in its time.
TickShows ==
    /\ tick.at = "told"
    /\ rollout' = tick.id
    /\ tick' = [NoCall EXCEPT !.at = "due"]
    /\ UNCHANGED <<authVars, fleetVars, configured, composeOpen, start, abortOpen, abort,
                   mutationVars, search, left, errors, cpVars>>

\* Variant: the next tick is only scheduled after an answer.
TickFailsForGood ==
    /\ tick.at = "asked" /\ Errs
    /\ tick' = NoCall
    /\ UNCHANGED <<authVars, fleetVars, configured, rollout, composeOpen, start, abortOpen,
                   abort, mutationVars, search, left, cpVars>>

\* A tick that fails is tried again later.
TickFails ==
    /\ tick.at = "asked" /\ Errs
    /\ tick' = [NoCall EXCEPT !.at = "due"]
    /\ UNCHANGED <<authVars, fleetVars, configured, rollout, composeOpen, start, abortOpen,
                   abort, mutationVars, search, left, cpVars>>

\* The button is there while no rollout is shown.
OpenCompose ==
    /\ Mounted /\ tick.at # "refused" /\ rollout = 0 /\ ~composeOpen /\ Spend("panel")
    /\ composeOpen' = TRUE
    /\ UNCHANGED <<authVars, fleetVars, configured, rollout, tick, start, abortOpen, abort,
                   mutationVars, search, errors, cpVars>>

HandleStart ==
    /\ composeOpen /\ tick.at # "refused" /\ rollout = 0 /\ start.at = "idle" /\ Spend("panel")
    /\ start' = [NoCall EXCEPT !.at = "posted"]
    /\ UNCHANGED <<authVars, fleetVars, configured, rollout, tick, composeOpen, abortOpen,
                   abort, mutationVars, search, errors, cpVars>>

\* Started or refused because one is running, the rollout is fetched.
StartArrives ==
    /\ start.at = "posted"
    /\ \/ configured /\ StartRollout
       \/ (Running \/ ~configured) /\ UNCHANGED rolloutVars
    /\ start' = IF configured THEN [start EXCEPT !.at = "asked"] ELSE NoCall
    /\ UNCHANGED <<authVars, fleetVars, configured, rollout, tick, composeOpen, abortOpen,
                   abort, mutationVars, search, left, errors, fleet, runs, signups, changes>>

StartAnswers ==
    /\ start.at = "asked"
    /\ start' = Told(start)
    /\ UNCHANGED <<authVars, fleetVars, configured, rollout, tick, composeOpen, abortOpen,
                   abort, mutationVars, search, left, errors, cpVars>>

HandleCancelCompose ==
    /\ composeOpen /\ start.at = "idle"
    /\ composeOpen' = FALSE
    /\ UNCHANGED <<authVars, fleetVars, configured, rollout, tick, start, abortOpen, abort,
                   mutationVars, search, left, errors, cpVars>>

\* A start that fails, be it in the fetch after it, leaves the form open.
StartShows ==
    /\ \/ /\ start.at = "told"
          /\ rollout' = start.id /\ composeOpen' = FALSE /\ UNCHANGED errors
       \/ start.at \in {"posted", "asked"} /\ Errs /\ UNCHANGED <<rollout, composeOpen>>
    /\ start' = NoCall
    /\ UNCHANGED <<authVars, fleetVars, configured, tick, abortOpen, abort, mutationVars,
                   search, left, cpVars>>

OpenAbort ==
    /\ Mounted /\ rollout # 0 /\ ~abortOpen /\ abort.at = "idle" /\ Spend("panel")
    /\ abortOpen' = TRUE
    /\ UNCHANGED <<authVars, fleetVars, configured, rollout, tick, composeOpen, start,
                   abort, mutationVars, search, errors, cpVars>>

HandleCancelAbort ==
    /\ abortOpen /\ abort.at = "idle"
    /\ abortOpen' = FALSE
    /\ UNCHANGED <<authVars, fleetVars, configured, rollout, tick, composeOpen, start,
                   abort, mutationVars, search, left, errors, cpVars>>

\* The dialog does not say which rollout it was opened for: the one shown
\* when it is confirmed is aborted.
HandleAbortConfirm ==
    /\ abortOpen /\ abort.at = "idle" /\ Spend("panel")
    /\ IF rollout = 0 THEN abortOpen' = FALSE /\ UNCHANGED abort
       ELSE abort' = [at |-> "posted", id |-> rollout] /\ UNCHANGED abortOpen
    /\ UNCHANGED <<authVars, fleetVars, configured, rollout, tick, composeOpen, start,
                   mutationVars, search, errors, cpVars>>

\* Refused because it has ended, the abort is over without a fetch.
AbortArrives ==
    /\ abort.at = "posted"
    /\ AbortRollout(abort.id)
    /\ IF abort.id = RunningRollout
       THEN abort' = [abort EXCEPT !.at = "asked"] /\ UNCHANGED abortOpen
       ELSE abort' = NoCall /\ abortOpen' = FALSE
    /\ UNCHANGED <<authVars, fleetVars, configured, rollout, tick, composeOpen, start,
                   mutationVars, search, left, errors, fleet, runs, signups, changes>>

AbortAnswers ==
    /\ abort.at = "asked"
    /\ abort' = Told(abort)
    /\ UNCHANGED <<authVars, fleetVars, configured, rollout, tick, composeOpen, start,
                   abortOpen, mutationVars, search, left, errors, cpVars>>

AbortShows ==
    /\ \/ abort.at = "told" /\ rollout' = abort.id /\ UNCHANGED errors
       \/ abort.at \in {"posted", "asked"} /\ Errs /\ UNCHANGED rollout
    /\ abort' = NoCall /\ abortOpen' = FALSE
    /\ UNCHANGED <<authVars, fleetVars, configured, tick, composeOpen, start, mutationVars,
                   search, left, cpVars>>

-----------------------------------------------------------------------------
(* The owner search of the provision panel. *)

\* The field changes, be it by the clear button: the debounce starts over.
Type ==
    /\ Gate /\ dialog = NoDialog /\ Spend("search")
    /\ \E q \in (Texts \cup {NoText}) \ {search.typed} :
          search' = [search EXCEPT !.typed = q, !.timer = {q}, !.owner = FALSE, !.late = {}]
    /\ UNCHANGED <<authVars, fleetVars, configured, panelVars, mutationVars, errors,
                   cpVars>>

\* Choosing an option puts its label into the field, which is searched too
\* unless it was there.
HandleOwnerChange ==
    /\ Gate /\ dialog = NoDialog /\ search.options # NoText /\ Spend("search")
    /\ \E q \in Texts :
          search' = IF q = search.typed THEN [search EXCEPT !.owner = TRUE]
                    ELSE [search EXCEPT !.typed = q, !.timer = {q}, !.owner = TRUE, !.late = {}]
    /\ UNCHANGED <<authVars, fleetVars, configured, panelVars, mutationVars, errors,
                   cpVars>>

\* Variant: the request before is not aborted.
RunOwnerSearchBeside ==
    /\ \E q \in search.timer :
          search' = IF q = NoText
                    THEN [search EXCEPT !.timer = {}, !.error = FALSE, !.options = NoText]
                    ELSE [search EXCEPT !.timer = {}, !.asked = @ \cup {q}, !.error = FALSE]
    /\ UNCHANGED <<authVars, fleetVars, configured, panelVars, mutationVars, left, errors,
                   cpVars>>

\* The debounce timer aborts the request before and asks for its text.
RunOwnerSearch ==
    /\ \E q \in search.timer :
          search' = IF q = NoText
                    THEN [search EXCEPT !.timer = {}, !.asked = {}, !.error = FALSE,
                              !.options = NoText]
                    ELSE [search EXCEPT !.timer = {}, !.asked = {q}, !.error = FALSE]
    /\ UNCHANGED <<authVars, fleetVars, configured, panelVars, mutationVars, left, errors,
                   cpVars>>

OwnersFound ==
    /\ \E q \in search.asked :
          \/ /\ search' = [search EXCEPT !.asked = @ \ {q}, !.options = q]
             /\ UNCHANGED errors
          \/ /\ search' = [search EXCEPT !.asked = @ \ {q}, !.options = NoText, !.error = TRUE]
             /\ Errs
    /\ UNCHANGED <<authVars, fleetVars, configured, panelVars, mutationVars, left, cpVars>>

-----------------------------------------------------------------------------
(* The mutations: one dialog at a time, which stays while it submits. *)

\* A row of the table offers the roll of a ready tenant and the
\* deprovisioning of any that is not deprovisioned.
Offers(kind, t) ==
    CASE kind = "upgrade" -> fleetStatus[t] = "ready"
      [] kind = "deprovision" -> fleetStatus[t] \notin {"none", "deprovisioned"}

\* Reviewing the provision panel's draft needs an owner chosen among the
\* options.
Open(kind, t) ==
    /\ Gate /\ dialog = NoDialog /\ job = NoJob /\ Spend("dialog")
    /\ IF kind = "provision" THEN fleetStatus # NoFleet /\ search.owner
       ELSE Mounted /\ Offers(kind, t)
    /\ dialog' = [kind |-> kind, tenant |-> t]
    /\ UNCHANGED <<authVars, fleetVars, configured, panelVars, job, search, errors, cpVars>>

\* Close ends an unconfirmed dialog.
Close ==
    /\ dialog # NoDialog /\ job = NoJob
    /\ dialog' = NoDialog
    /\ UNCHANGED <<authVars, fleetVars, configured, panelVars, job, search, left, errors,
                   cpVars>>

\* The operator has typed the confirmation and a reason.
HandleConfirm ==
    /\ dialog # NoDialog /\ job = NoJob /\ Spend("dialog")
    /\ job' = [at |-> IF dialog.kind = "provision" THEN "create" ELSE "post",
               kind |-> dialog.kind, tenant |-> dialog.tenant, created |-> FALSE, ok |-> FALSE]
    /\ UNCHANGED <<authVars, fleetVars, configured, panelVars, dialog, search, errors, cpVars>>

\* A tenant that exists already is provisioned all the same.
CreateTenant ==
    /\ job.at = "create"
    /\ \/ CreateRow(job.tenant) /\ job' = [job EXCEPT !.at = "post", !.created = TRUE]
       \/ /\ fleet[job.tenant] # "none"
          /\ job' = [job EXCEPT !.at = "post"]
          /\ UNCHANGED <<fleet, runs, signups>>
    /\ UNCHANGED <<authVars, fleetVars, configured, panelVars, dialog, search, left, errors,
                   changes, rolloutVars>>

PostMutation ==
    /\ job.at = "post"
    /\ \/ job.kind \in {"provision", "upgrade"} /\ RunProvision(job.tenant)
       \/ job.kind = "deprovision" /\ Deprovision(job.tenant)
    /\ job' = [job EXCEPT !.at = "sent"]
    /\ UNCHANGED <<authVars, fleetVars, configured, panelVars, dialog, search, left, errors,
                   changes, rolloutVars>>

\* Done, the fleet is loaded, with the token the dialog was confirmed with;
\* failed, only after a create.
MutationAnswers ==
    /\ job.at \in {"create", "post", "sent"}
    /\ job.at = "sent" => job.tenant \notin runs
    /\ LET ok == job.at = "sent" /\ fleet[job.tenant] # "failed"
       IN  /\ IF job.at = "sent" THEN UNCHANGED errors ELSE Errs
           /\ IF ok \/ job.created
              THEN BeginLoad("job") /\ job' = [job EXCEPT !.at = "refresh", !.ok = ok]
              ELSE UNCHANGED <<loads, isLoading>> /\ job' = NoJob
    /\ UNCHANGED <<authVars, fleetStatus, configured, panelVars, dialog, search, left, cpVars>>

-----------------------------------------------------------------------------

OpNext ==
    \/ BootstrapAuth \/ Refresh \/ TokenRefreshAnswers \/ HandleLogout
    \/ RefreshFleet
    \/ \E l \in Loaders : StatusAnswers(l) \/ LoadFleet(l)
    \/ Tick \/ TickAnswers \/ TickShows \/ TickFails
    \/ OpenCompose \/ HandleCancelCompose \/ HandleStart \/ StartArrives \/ StartAnswers \/ StartShows
    \/ OpenAbort \/ HandleCancelAbort \/ HandleAbortConfirm \/ AbortArrives \/ AbortAnswers \/ AbortShows
    \/ Type \/ HandleOwnerChange \/ RunOwnerSearch \/ OwnersFound
    \/ \E kind \in {"provision", "upgrade", "deprovision"}, t \in DOMAIN fleet : Open(kind, t)
    \/ Close \/ HandleConfirm \/ CreateTenant \/ PostMutation \/ MutationAnswers

\* The loop's timer fires and its request is answered.
OpFairness == WF_opVars(Tick) /\ WF_opVars(TickAnswers) /\ WF_opVars(TickShows)

-----------------------------------------------------------------------------

\* Signing out, losing the role and a failed refresh end the session of
\* this page load for good (clearSession): no refresh that was under way
\* brings the token back or puts tokens into localStorage again.
SignOutIsFinal ==
    [][(boot \in {"load", "done"} /\ ~token) => ~(token' \/ tokensStored')]_opVars

\* Once the search has rested, the owners offered are those of the text in
\* the field (runOwnerSearch): no slower answer to an older text replaces
\* them, over requests, failures and the choice of an option.  The one
\* exception is the code's: a search that was under way when a finished
\* mutation emptied the field (handleConfirm) still fills the options, until
\* the field changes again.
OptionsFollowText ==
    (search.timer = {} /\ search.asked = {} /\ ~search.error)
        => search.options \in {search.typed} \cup search.late

\* The panel comes to show a rollout that is running, whoever started it
\* (useFleetRollout): no failed poll, and no fetch after a start or an abort
\* that answers late, leaves it behind for good.  A rollout that has ended is
\* not claimed to be shown: the server answers with the running one only.
RolloutIsShown == <>[](Mounted /\ configured /\ Running => rollout = RunningRollout)

=============================================================================
