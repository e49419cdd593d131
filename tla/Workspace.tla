------------------------------- MODULE Workspace -------------------------------
(***************************************************************************)
(* The notes workspace of the web application in one tab: useNotes,        *)
(* useCampaign, useShareLinks and the page that wires them (App.tsx,       *)
(* CampaignDetailPage), over the sign-in of WebSession.  A handler is a    *)
(* task: it runs up to an await, the page goes on, and it is taken up      *)
(* again with what it captured when its answer comes, or fails.  What the  *)
(* server does and the answer to it are steps of their own.                *)
(*                                                                         *)
(* A note's text, title, tags and filters are left out, but for which note *)
(* the text in the editor was taken from.                                  *)
(***************************************************************************)
EXTENDS WebSession

CONSTANTS
    Campaigns, Notes, Sessions,
    SessionOf,      \* the session name of each note
    Stored,         \* the campaign of each note before the tab is opened, or "unmade"
    Shared,         \* the campaign of the share link
    MaxClicks       \* bound: clicks that call the server

ASSUME SharedAssumption  == Shared \in Campaigns /\ None \notin Campaigns \cup Notes \cup Sessions
ASSUME NotesAssumption   == /\ SessionOf \in [Notes -> Sessions]
                            /\ Stored \in [Notes -> Campaigns \cup {"unmade"}]
ASSUME ClicksAssumption  == MaxClicks \in Nat

VARIABLES
    ws,         \* useNotes
    camp,       \* useCampaign
    links,      \* useShareLinks and the effect that fills the settings
    task,       \* task[i]: the handler begun by the i-th click; 0: the page's own
    clicks,
    server      \* what the tenant has stored

workspaceVars == <<ws, camp, links, task, clicks, server>>
vars == <<sessionVars, workspaceVars>>

Tasks  == 0 .. MaxClicks
OrNone(S) == S \cup {None}
Pairs  == Campaigns \X {"into", "from"}     \* two memberships of a campaign, source first

(* overview: the campaign of the overview; text: the note the draft was    *)
(* taken from; req: workspaceRequestIdRef; shown: the request whose answer *)
(* is shown.  The abort controllers are those of the latest request.       *)
(* strays, a history variable: what is shown is the answer to a save, a    *)
(* delete or a capture in a campaign that was no longer the selected one.  *)
NotesState == [overview: OrNone(Campaigns), list: SUBSET Notes,
               browse: {"notes", "sessions", "activity"}, session: OrNone(Sessions),
               sessionNotes: SUBSET Notes, entries: SUBSET Notes,
               selected: OrNone(Notes), text: OrNone(Notes), creating: BOOLEAN,
               loading: BOOLEAN, strays: BOOLEAN, req: Tasks \cup {MaxClicks + 1},
               shown: Tasks \cup {MaxClicks + 1},
               sessionTask: OrNone(Tasks), activityTask: OrNone(Tasks)]

CampaignState == [campaigns: SUBSET Campaigns, selected: OrNone(Campaigns),
                  form: {"closed", "create", "edit"}, pair: OrNone(Pairs),
                  preview: OrNone(Pairs), applied: BOOLEAN,
                  previewing: BOOLEAN, applying: BOOLEAN]

(* A share link is known by its campaign.  key: the dependencies the       *)
(* settings' effect last ran with, asked: its fetch is awaited.            *)
LinksState == [list: SUBSET Campaigns, revealed: SUBSET Campaigns,
               key: OrNone(Tokens \X Campaigns), asked: BOOLEAN]

Ops == {"boot", "select", "save", "delete", "capture", "session", "activity", "create", "edit",
        "preview", "apply", "link", "reveal", "revoke", "join", "claim"}

(* note: the note written, or to be selected; text: what the draft written *)
(* was taken from.                                                         *)
Task == [op: Ops, pc: {"idle", "call", "served", "campaigns", "load", "names", "fetch", "done"},
         campaign: OrNone(Campaigns), note: OrNone(Notes), text: OrNone(Notes),
         req: Tasks \cup {MaxClicks + 1}, session: OrNone(Sessions), pair: OrNone(Pairs),
         seen: SUBSET Notes]

Server == [home: [Notes -> Campaigns \cup {"unmade", "gone"}], campaigns: SUBSET Campaigns,
           links: SUBSET Campaigns]

Fresh(op, pc) == [op |-> op, pc |-> pc, campaign |-> None, note |-> None, text |-> None,
                  req |-> 0, session |-> None, pair |-> None, seen |-> {}]

(* These call the hook's loader, the others App's, which also selects the  *)
(* campaign and remembers it.                                              *)
SavesNotes(op) == op \in {"save", "delete", "capture"}

Done == Fresh("boot", "done")

NoNotes == [overview |-> None, list |-> {}, browse |-> "notes", session |-> None,
            sessionNotes |-> {}, entries |-> {}, selected |-> None, text |-> None,
            creating |-> FALSE, loading |-> FALSE, strays |-> FALSE, req |-> 0, shown |-> 0,
            sessionTask |-> None, activityTask |-> None]

NoCampaign == [campaigns |-> {}, selected |-> None, form |-> "closed", pair |-> None,
               preview |-> None, applied |-> FALSE, previewing |-> FALSE, applying |-> FALSE]

NoLinks == [list |-> {}, revealed |-> {}, key |-> None, asked |-> FALSE]

NotesOf(c) == {n \in Notes : server.home[n] = c}

Init ==
    /\ SessionInit
    /\ ws = NoNotes /\ camp = NoCampaign /\ links = NoLinks
    /\ task = [i \in Tasks |-> Fresh("boot", "idle")]
    /\ clicks = 0
    /\ server \in {[home |-> Stored, campaigns |-> Campaigns, links |-> {}],
                   [home |-> [n \in Notes |-> "unmade"], campaigns |-> {}, links |-> {}]}
    /\ page.shared => server.campaigns = Campaigns

-----------------------------------------------------------------------------
(* What the page shows, and which handlers it offers.                      *)

(* camp.campaigns.find, or the overview's own campaign.                    *)
SelectedCampaign == IF camp.selected \in camp.campaigns THEN camp.selected ELSE ws.overview

Screen ==
    IF ~AuthReady \/ ~GuestReady THEN "starting"
    ELSE IF page.shared /\ ~guest.shown THEN "not shared"
    ELSE IF page.shared /\ ~guest.member THEN "join"
    ELSE IF ~page.shared /\ ~SignedIn THEN "login"
    ELSE IF ~page.shared /\ (camp.campaigns = {} \/ (camp.selected = None /\ camp.form = "create"))
         THEN "first campaign"
    ELSE IF ws.loading \/ ws.overview = None \/ (~page.shared /\ SelectedCampaign = None)
         THEN "loading"
    ELSE "workspace"

Busy(op) == \E i \in Tasks : task[i].op = op /\ task[i].pc \notin {"idle", "done"}

CanEdit == page.shared => issuer.editor

InWorkspace == Screen = "workspace" /\ ~page.leaving
OwnerWorkspace == InWorkspace /\ ~page.shared

(* canManageSelectedCampaign: the account owns the campaigns here.         *)
SettingsKey ==
    IF ~page.shared /\ sess.token # 0 /\ camp.form = "edit" /\ camp.selected # None /\ ws.overview # None
    THEN <<sess.token, camp.selected>> ELSE None

EffectsRan == links.key = SettingsKey

Begin(i, t) == task' = [task EXCEPT ![i] = t]
Ends(i)     == task' = [task EXCEPT ![i] = Done]

(* A click that calls the server.                                          *)
Click(t) ==
    /\ EffectsRan /\ clicks < MaxClicks
    /\ clicks' = clicks + 1
    /\ Begin(clicks + 1, t)

-----------------------------------------------------------------------------
(* What several handlers do to the state of the hooks.                     *)

(* resetSessionBrowserState, resetActivityState: what is awaited is        *)
(* aborted, its answer or failure is of no effect.                         *)
NoSession(w)  == [w EXCEPT !.session = None, !.sessionNotes = {}, !.sessionTask = None]
NoActivity(w) == [w EXCEPT !.entries = {}, !.activityTask = None]

(* resetNotes leaves a workspace request under way, and isCreating.        *)
WithoutNotes(w) ==
    [NoActivity(NoSession(w)) EXCEPT !.overview = None, !.list = {}, !.browse = "notes",
                                     !.selected = None, !.text = None, !.strays = FALSE]

Unconsolidated(c) == [c EXCEPT !.pair = None, !.preview = None, !.applied = FALSE,
                               !.previewing = FALSE, !.applying = FALSE]

Uninteracted(l) == [l EXCEPT !.revealed = {}]

(* clearSession.                                                           *)
ClearSession(pc) ==
    /\ sess' = [WithoutSession(sess) EXCEPT !.pc = pc]
    /\ stored' = [WithoutTokens(stored) EXCEPT !.campaign = None]
    /\ guest' = [guest EXCEPT !.shown = FALSE]
    /\ ws' = WithoutNotes(ws)
    /\ camp' = NoCampaign
    /\ links' = [links EXCEPT !.list = {}, !.revealed = {}]

FirstOf(S) == IF S = {} THEN {None} ELSE S

(* The head of loadWorkspace and loadSharedWorkspace, from handler i.      *)
StartLoad(i, w, c, n) ==
    /\ ws' = [w EXCEPT !.req = @ + 1, !.loading = TRUE]
    /\ task' = [task EXCEPT ![i].pc = "load", ![i].req = w.req + 1,
                            ![i].campaign = c, ![i].note = n, ![i].seen = {}]

Current(i) == task[i].req = ws.req

(* No preferredNoteId: the selection is kept.                              *)
KeepsSelection(op) == op \in {"boot", "select", "create", "edit", "join"}

(* What follows the load in the handler: its finally, and its last lines.  *)
Returned(i, c) ==
    IF task[i].op = "apply" THEN [c EXCEPT !.applying = FALSE]
    ELSE IF task[i].op \in {"create", "edit"} THEN [c EXCEPT !.form = "closed"] ELSE c

StartupReturned(i) ==
    /\ sess' = IF i = 0 /\ ~page.shared THEN [sess EXCEPT !.pc = "ready"] ELSE sess
    /\ guest' = IF i = 0 /\ page.shared THEN [guest EXCEPT !.pc = "ready"] ELSE guest

LoadReturns(i) == Ends(i) /\ StartupReturned(i)

-----------------------------------------------------------------------------
(* A load of the workspace goes on.                                        *)

(* The note the editor will show: the preferred one, else the selected one *)
(* if it is still there, else the first; of the session that is browsed.   *)
Resolved(i, seen, s, named) ==
    LET t == task[i]
        next   == IF ~KeepsSelection(t.op) THEN {t.note}
                  ELSE IF ws.selected \in seen THEN {ws.selected} ELSE FirstOf(seen)
        narrow == ws.browse = "sessions" /\ s # None /\ ~page.shared
    IN UNION {IF n \in seen /\ (narrow => n \in named) THEN {n}
              ELSE IF narrow THEN FirstOf(named) ELSE {None} : n \in next}

Shows(i, n, seen, s, named) ==
    [ws EXCEPT !.overview = task[i].campaign, !.list = seen,
               !.session = IF page.shared THEN @ ELSE s,
               !.sessionNotes = IF page.shared THEN @ ELSE named,
               !.selected = n, !.text = n, !.loading = FALSE, !.shown = task[i].req,
               !.strays = SavesNotes(task[i].op) /\ task[i].campaign # camp.selected,
               !.creating = n = None /\ (page.shared => /\ issuer.editor
                                                         /\ ~SavesNotes(task[i].op))]

(* App's loader got TRUE.                                                  *)
Selects(i, c) ==
    IF SavesNotes(task[i].op) THEN c
    ELSE [c EXCEPT !.selected = task[i].campaign,
                   !.campaigns = IF page.shared THEN {task[i].campaign} ELSE @]

Remembers(i) ==
    IF SavesNotes(task[i].op) \/ page.shared THEN stored
    ELSE [stored EXCEPT !.campaign = task[i].campaign]

(* A save or a delete goes on to the activity it is browsed by.            *)
ActivityNext(i) == task[i].op \in {"save", "delete"} /\ ~page.shared /\ ws.browse = "activity"

ShowWorkspace(i, seen, s, named) ==
    /\ \E n \in Resolved(i, seen, s, named) :
         ws' = IF ActivityNext(i)
               THEN [Shows(i, n, seen, s, named) EXCEPT !.entries = {}, !.activityTask = i]
               ELSE Shows(i, n, seen, s, named)
    /\ camp' = Returned(i, Selects(i, camp))
    /\ stored' = Remembers(i)
    /\ IF ActivityNext(i) THEN /\ task' = [task EXCEPT ![i].pc = "fetch", ![i].seen = {}]
                               /\ UNCHANGED <<sess, guest>>
                          ELSE LoadReturns(i)
    /\ UNCHANGED <<page, refreshing, issuer, links, clicks, server>>

(* Variant: an answer is shown whenever it comes.                          *)
LoadAnswersLate(i) ==
    /\ EffectsRan /\ task[i].pc = "load"
    /\ ShowWorkspace(i, NotesOf(task[i].campaign), None, {})

(* Overview, notes and sessions have come; a session that is browsed and   *)
(* still there is fetched anew before anything is shown.                   *)
LoadAnswers(i) ==
    LET seen  == NotesOf(task[i].campaign)
        again == ~page.shared /\ \E n \in seen : SessionOf[n] = ws.session
    IN /\ EffectsRan /\ task[i].pc = "load" /\ Current(i)
       /\ IF again
          THEN /\ task' = [task EXCEPT ![i].pc = "names", ![i].seen = seen,
                                       ![i].session = ws.session]
               /\ UNCHANGED <<sessionVars, ws, camp, links, clicks, server>>
          ELSE ShowWorkspace(i, seen, None, {})

NamesAnswer(i) ==
    /\ EffectsRan /\ task[i].pc = "names" /\ Current(i)
    /\ ShowWorkspace(i, task[i].seen, task[i].session,
                     {n \in NotesOf(task[i].campaign) : SessionOf[n] = task[i].session})

(* A newer request was made: "stale", the handler returns.                 *)
LoadStale(i) ==
    /\ EffectsRan /\ task[i].pc \in {"load", "names"} /\ ~Current(i)
    /\ camp' = Returned(i, camp)
    /\ LoadReturns(i)
    /\ UNCHANGED <<page, stored, refreshing, issuer, ws, links, clicks, server>>

(* An error: FALSE, what was shown stays.                                  *)
LoadFails(i) ==
    /\ EffectsRan /\ task[i].pc \in {"load", "names"} /\ Current(i)
    /\ ws' = [ws EXCEPT !.loading = FALSE]
    /\ camp' = Returned(i, camp)
    /\ LoadReturns(i)
    /\ UNCHANGED <<page, stored, refreshing, issuer, links, clicks, server>>

-----------------------------------------------------------------------------
(* Campaigns, from the start of the page or a saved campaign.              *)

(* loadCampaigns: no request id; a campaign that is not there, or none.    *)
CampaignsAnswer(i) ==
    LET t    == task[i]
        want == IF t.campaign # None THEN t.campaign ELSE stored.campaign
        next == IF want \in server.campaigns THEN {want} ELSE FirstOf(server.campaigns)
    IN /\ EffectsRan /\ t.pc = "campaigns"
       /\ IF server.campaigns = {}
          THEN /\ camp' = Returned(i, [camp EXCEPT !.campaigns = {}, !.selected = None,
                                                   !.form = "create"])
               /\ ws' = [NoActivity(NoSession(ws)) EXCEPT !.overview = None, !.list = {},
                                                          !.selected = None]
               /\ links' = [links EXCEPT !.list = {}]
               /\ LoadReturns(i)
          ELSE /\ \E c \in next : StartLoad(i, ws, c, None)
               /\ camp' = [camp EXCEPT !.campaigns = server.campaigns]
               /\ UNCHANGED <<sess, guest, links>>
       /\ UNCHANGED <<page, stored, refreshing, issuer, clicks, server>>

(* At the start a failure is one of bootstrapAuth; the others report it.   *)
CampaignsFail(i) ==
    /\ EffectsRan /\ task[i].pc = "campaigns"
    /\ Ends(i)
    /\ IF i = 0 THEN ClearSession("ready") ELSE UNCHANGED <<sess, stored, guest, ws, camp, links>>
    /\ UNCHANGED <<page, refreshing, issuer, clicks, server>>

BootCampaigns ==
    /\ EffectsRan
    /\ OwnerAnswers
    /\ IF page.shared THEN UNCHANGED task
       ELSE Begin(0, Fresh("boot", "campaigns"))
    /\ UNCHANGED <<ws, camp, links, clicks, server>>

(* fetchAuthConfig, init or fetchOwnerSession throws.                      *)
BootFails ==
    /\ EffectsRan
    /\ \/ sess.pc \in {"config", "owner"}
       \/ sess.pc = "init" /\ stored.tokens # 0
    /\ ClearSession("ready")
    /\ UNCHANGED <<page, refreshing, issuer, task, clicks, server>>

RefreshFails(t) ==
    /\ EffectsRan /\ t \in refreshing
    /\ refreshing' = refreshing \ {t}
    /\ IF Cancelled(t) THEN UNCHANGED <<sess, stored, guest, ws, camp, links>>
       ELSE ClearSession(sess.pc)
    /\ UNCHANGED <<page, issuer, task, clicks, server>>

GuestLoads ==
    /\ EffectsRan
    /\ GuestKnown
    /\ ws' = [ws EXCEPT !.req = @ + 1, !.loading = TRUE]
    /\ Begin(0, [Fresh("boot", "load") EXCEPT !.req = ws.req + 1, !.campaign = Shared])
    /\ camp' = [camp EXCEPT !.selected = Shared, !.campaigns = {Shared}]
    /\ UNCHANGED <<links, clicks, server>>

GuestMustJoin ==
    /\ EffectsRan
    /\ GuestUnknown
    /\ ws' = [ws EXCEPT !.overview = None, !.list = {}, !.selected = None, !.text = None,
                        !.creating = FALSE]
    /\ camp' = [camp EXCEPT !.selected = Shared, !.campaigns = {Shared}]
    /\ UNCHANGED <<links, task, clicks, server>>

-----------------------------------------------------------------------------
(* The document is loaded: what was awaited dies with the page.            *)
Started ==
    /\ ws' = NoNotes /\ camp' = NoCampaign /\ links' = NoLinks
    /\ task' = [i \in Tasks |-> IF i = 0 THEN Fresh("boot", "idle") ELSE
                                 IF i > clicks THEN task[i] ELSE Done]
    /\ UNCHANGED <<clicks, server>>

Reload ==
    /\ page.loads < MaxLoads /\ ~page.leaving
    /\ Loaded(FALSE, page.shared, stored)
    /\ Started
    /\ UNCHANGED issuer

(* The buttons for new campaigns and settings, on a share link: to /.      *)
LeaveShared ==
    /\ InWorkspace /\ page.shared /\ page.loads < MaxLoads /\ EffectsRan
    /\ Loaded(FALSE, FALSE, stored)
    /\ Started
    /\ UNCHANGED issuer

(* Keycloak's pages redirect back: to where the sign-in was asked for, or, *)
(* the session ended, to /.                                                *)
Redirected ==
    /\ page.leaving /\ page.loads < MaxLoads
    /\ Loaded(page.callback, page.shared /\ page.callback, stored)
    /\ Started
    /\ UNCHANGED issuer

SignIn ==
    /\ EffectsRan /\ Screen = "login"
    /\ LeaveToSignIn
    /\ UNCHANGED workspaceVars

(* handleLogout; without a Keycloak client, a share link's page drops its  *)
(* own membership.                                                         *)
Logout ==
    /\ EffectsRan /\ Screen \in {"workspace", "first campaign"} /\ ~page.leaving
    /\ \/ /\ sess.client
          /\ ClearSession(sess.pc)
          /\ page' = [page EXCEPT !.leaving = TRUE]
          /\ UNCHANGED <<refreshing, issuer, task, clicks, server>>
       \/ /\ ~sess.client /\ page.shared /\ page.loads < MaxLoads
          /\ Loaded(FALSE, FALSE, [stored EXCEPT !.campaign = None, !.guest = 0])
          /\ Started
          /\ UNCHANGED issuer

-----------------------------------------------------------------------------
(* Clicks in the workspace.                                                *)

(* Variant: the campaign is selected before its notes have come.           *)
SelectCampaignFirst(c) ==
    /\ OwnerWorkspace /\ c \in camp.campaigns \ {camp.selected}
    /\ EffectsRan /\ clicks < MaxClicks
    /\ clicks' = clicks + 1
    /\ LET w == [NoActivity(NoSession(ws)) EXCEPT !.browse = "notes"]
       IN /\ ws' = [w EXCEPT !.req = @ + 1, !.loading = TRUE]
          /\ Begin(clicks + 1, [Fresh("select", "load") EXCEPT !.req = ws.req + 1, !.campaign = c])
    /\ camp' = [camp EXCEPT !.form = "closed", !.selected = c]
    /\ links' = [links EXCEPT !.list = {}, !.revealed = {}]
    /\ UNCHANGED <<sessionVars, server>>

(* handleSelectCampaign: all that is of the campaign shown is dropped, but *)
(* its notes, until the answer.                                            *)
SelectCampaign(c) ==
    /\ OwnerWorkspace /\ c \in camp.campaigns \ {camp.selected}
    /\ EffectsRan /\ clicks < MaxClicks
    /\ clicks' = clicks + 1
    /\ LET w == [NoActivity(NoSession(ws)) EXCEPT !.browse = "notes"]
       IN /\ ws' = [w EXCEPT !.req = @ + 1, !.loading = TRUE]
          /\ Begin(clicks + 1, [Fresh("select", "load") EXCEPT !.req = ws.req + 1, !.campaign = c])
    /\ camp' = [camp EXCEPT !.form = "closed"]
    /\ links' = [links EXCEPT !.list = {}, !.revealed = {}]
    /\ UNCHANGED <<sessionVars, server>>

(* WorkspaceLoadingView's retry, with a campaign to load.                  *)
RetryWorkspace ==
    LET c == IF page.shared THEN Shared ELSE camp.selected
    IN /\ Screen = "loading" /\ c # None
       /\ IF page.shared THEN guest.token # 0 ELSE sess.token # 0
       /\ EffectsRan /\ clicks < MaxClicks
       /\ clicks' = clicks + 1
       /\ ws' = [ws EXCEPT !.req = @ + 1, !.loading = TRUE]
       /\ Begin(clicks + 1, [Fresh("select", "load") EXCEPT !.req = ws.req + 1, !.campaign = c])
       /\ UNCHANGED <<sessionVars, camp, links, server>>

(* What a handler of notes needs before it calls.                          *)
MayWrite ==
    /\ InWorkspace /\ CanEdit /\ camp.selected # None
    /\ IF page.shared THEN guest.token # 0 ELSE sess.token # 0

(* The button of NoteEditorActions; a new note unless one is selected.     *)
SaveNote ==
    /\ MayWrite /\ ~Busy("save") /\ ~Busy("delete")
    /\ Click([Fresh("save", "call") EXCEPT
                !.campaign = camp.selected, !.text = ws.text,
                !.note = IF ws.creating THEN None ELSE ws.selected])
    /\ UNCHANGED <<sessionVars, ws, camp, links, server>>

(* Offered for a note that is in the list.                                 *)
DeleteNote ==
    /\ MayWrite /\ ~Busy("save") /\ ~Busy("delete") /\ ~ws.creating /\ ws.selected \in ws.list
    /\ Click([Fresh("delete", "call") EXCEPT !.campaign = camp.selected, !.note = ws.selected])
    /\ UNCHANGED <<sessionVars, ws, camp, links, server>>

QuickCapture ==
    /\ MayWrite /\ ~Busy("capture")
    /\ Click([Fresh("capture", "call") EXCEPT !.campaign = camp.selected])
    /\ UNCHANGED <<sessionVars, ws, camp, links, server>>

(* The notes the browse pane lists.                                        *)
Displayed ==
    IF ws.browse = "sessions" /\ ws.session # None
    THEN IF page.shared THEN {n \in ws.list : SessionOf[n] = ws.session} ELSE ws.sessionNotes
    ELSE IF ws.browse = "activity" /\ ~page.shared THEN ws.entries ELSE ws.list

(* A click that calls nobody.                                              *)
Edits(w) ==
    /\ InWorkspace /\ EffectsRan
    /\ ws' = w /\ ws' # ws
    /\ UNCHANGED <<sessionVars, camp, links, task, clicks, server>>

SelectNote(n) ==
    /\ n \in Displayed
    /\ Edits([ws EXCEPT !.selected = n, !.text = n, !.creating = FALSE])

StartNote ==
    /\ CanEdit
    /\ Edits([NoSession(ws) EXCEPT !.selected = None, !.text = None, !.creating = TRUE,
                                   !.browse = "notes"])

OpenBrowser(mode) ==
    /\ mode \in {"notes", "sessions"}
    /\ Edits([NoSession(ws) EXCEPT !.browse = mode])

(* On a share link sessions and activity are read off the list.            *)
BrowseShared(s) ==
    /\ page.shared
    /\ \/ s \in {SessionOf[n] : n \in ws.list} /\ Edits([ws EXCEPT !.browse = "sessions", !.session = s])
       \/ s = None /\ Edits([NoSession(ws) EXCEPT !.browse = "activity"])

(* handleSelectSession: a session of the summaries is fetched.             *)
SelectSession(s) ==
    /\ OwnerWorkspace /\ s \in {SessionOf[n] : n \in ws.list} /\ camp.selected # None
    /\ Click([Fresh("session", "fetch") EXCEPT !.campaign = camp.selected, !.session = s])
    /\ ws' = [ws EXCEPT !.browse = "sessions", !.session = s, !.sessionNotes = {},
                        !.sessionTask = clicks + 1]
    /\ UNCHANGED <<sessionVars, camp, links, server>>

(* handleOpenRecentActivity; by a collaborator, handleSelectActivity...    *)
OpenActivity ==
    /\ OwnerWorkspace /\ camp.selected # None
    /\ Click([Fresh("activity", "fetch") EXCEPT !.campaign = camp.selected])
    /\ ws' = [NoSession(ws) EXCEPT !.browse = "activity", !.entries = {},
                                   !.activityTask = clicks + 1]
    /\ UNCHANGED <<sessionVars, camp, links, server>>

(* Variant: the note is selected, the draft stays.                         *)
SessionAnswersSelect(i) ==
    LET named == {n \in NotesOf(task[i].campaign) : SessionOf[n] = task[i].session}
        w     == [ws EXCEPT !.sessionNotes = named, !.sessionTask = None]
    IN /\ EffectsRan /\ task[i].op = "session" /\ task[i].pc = "fetch" /\ ws.sessionTask = i
       /\ \E n \in IF ws.selected \in named THEN {ws.selected} ELSE FirstOf(named) :
            ws' = IF n = None THEN w ELSE [w EXCEPT !.selected = n, !.creating = FALSE]
       /\ Ends(i)
       /\ UNCHANGED <<sessionVars, camp, links, clicks, server>>

(* The answer to the latest, not aborted, fetch of a session: its notes,   *)
(* and one of them in the editor.                                          *)
SessionAnswers(i) ==
    LET named == {n \in NotesOf(task[i].campaign) : SessionOf[n] = task[i].session}
        w     == [ws EXCEPT !.sessionNotes = named, !.sessionTask = None]
    IN /\ EffectsRan /\ task[i].op = "session" /\ task[i].pc = "fetch" /\ ws.sessionTask = i
       /\ \E n \in IF ws.selected \in named THEN {ws.selected} ELSE FirstOf(named) :
            ws' = IF n = None THEN w
                  ELSE [w EXCEPT !.selected = n, !.text = n, !.creating = FALSE]
       /\ Ends(i)
       /\ UNCHANGED <<sessionVars, camp, links, clicks, server>>

ActivityAnswers(i) ==
    /\ EffectsRan /\ task[i].pc = "fetch" /\ ws.activityTask = i
    /\ ws' = [ws EXCEPT !.entries = NotesOf(task[i].campaign), !.activityTask = None]
    /\ Ends(i)
    /\ UNCHANGED <<sessionVars, camp, links, clicks, server>>

(* It failed, or it was superseded or aborted, which nobody is told.       *)
FetchFails(i) ==
    /\ EffectsRan /\ task[i].pc = "fetch"
    /\ ws' = IF ws.sessionTask = i THEN NoSession(ws)
             ELSE IF ws.activityTask = i THEN NoActivity(ws) ELSE ws
    /\ Ends(i)
    /\ UNCHANGED <<sessionVars, camp, links, clicks, server>>

-----------------------------------------------------------------------------
(* Campaigns, their memberships and their share links.                     *)

OpenForm(form) ==
    /\ OwnerWorkspace /\ EffectsRan /\ form \in {"create", "edit"} /\ form # camp.form
    /\ camp' = [Unconsolidated(camp) EXCEPT !.form = form]
    /\ links' = [Uninteracted(links) EXCEPT !.list = IF form = "create" THEN {} ELSE @]
    /\ UNCHANGED <<sessionVars, ws, task, clicks, server>>

CancelForm ==
    /\ OwnerWorkspace /\ EffectsRan /\ camp.form # "closed"
    /\ camp' = [Unconsolidated(camp) EXCEPT !.form = "closed"]
    /\ links' = Uninteracted(links)
    /\ UNCHANGED <<sessionVars, ws, task, clicks, server>>

(* handleSaveCampaign, of a new campaign or of the selected one.           *)
SaveCampaign ==
    /\ Screen = "first campaign" \/ OwnerWorkspace
    /\ camp.form # "closed" /\ ~page.leaving /\ ~Busy("create") /\ ~Busy("edit")
    /\ Click([Fresh(camp.form, "call") EXCEPT
                !.campaign = IF camp.form = "edit" THEN camp.selected ELSE None])
    /\ UNCHANGED <<sessionVars, ws, camp, links, server>>

InSettings == OwnerWorkspace /\ camp.form = "edit" /\ camp.selected # None /\ sess.token # 0

(* Another source or target takes the preview away.                        *)
ChoosePair(p) ==
    /\ InSettings /\ EffectsRan /\ p \in Pairs /\ p[1] = camp.selected /\ p # camp.pair
    /\ camp' = [camp EXCEPT !.pair = p, !.preview = None, !.applied = FALSE]
    /\ UNCHANGED <<sessionVars, ws, links, task, clicks, server>>

Preview ==
    /\ InSettings /\ camp.pair # None /\ ~camp.previewing /\ ~camp.applying
    /\ Click([Fresh("preview", "call") EXCEPT !.campaign = camp.selected, !.pair = camp.pair])
    /\ camp' = [camp EXCEPT !.previewing = TRUE]
    /\ UNCHANGED <<sessionVars, ws, links, server>>

(* canApplyMembershipConsolidation.                                        *)
CanApply == camp.preview # None /\ camp.preview = camp.pair /\ ~camp.applied

Apply ==
    /\ InSettings /\ CanApply /\ ~camp.previewing /\ ~camp.applying
    /\ Click([Fresh("apply", "call") EXCEPT !.campaign = camp.selected, !.pair = camp.pair,
                                            !.note = ws.selected])
    /\ camp' = [camp EXCEPT !.applying = TRUE]
    /\ UNCHANGED <<sessionVars, ws, links, server>>

(* Create, reveal, revoke: on the links the settings list.                 *)
ShareLink(op) ==
    /\ InSettings
    /\ IF op = "link" THEN ~Busy("link") ELSE op \in {"reveal", "revoke"} /\ camp.selected \in links.list
    /\ Click([Fresh(op, "call") EXCEPT !.campaign = camp.selected])
    /\ UNCHANGED <<sessionVars, ws, camp, links, server>>

(* App's effect, after a change of what it depends on: what it fetched     *)
(* before is cancelled.                                                    *)
RunEffect ==
    /\ ~EffectsRan
    /\ links' = IF SettingsKey = None THEN [NoLinks EXCEPT !.key = None]
                ELSE [links EXCEPT !.key = SettingsKey, !.asked = TRUE]
    /\ camp' = IF SettingsKey = None THEN Unconsolidated(camp) ELSE camp
    /\ UNCHANGED <<sessionVars, ws, task, clicks, server>>

SettingsAnswer ==
    /\ EffectsRan /\ links.asked
    /\ links' = [links EXCEPT !.asked = FALSE, !.list = server.links \cap {links.key[2]}]
    /\ UNCHANGED <<sessionVars, ws, camp, task, clicks, server>>

SettingsFail ==
    /\ EffectsRan /\ links.asked
    /\ links' = [links EXCEPT !.asked = FALSE]
    /\ UNCHANGED <<sessionVars, ws, camp, task, clicks, server>>

-----------------------------------------------------------------------------
(* Calls that change what is stored.                                       *)

Join ==
    /\ EffectsRan /\ Screen = "join" /\ ~Busy("join") /\ issuer.guests < MaxGuests
    /\ Click([Fresh("join", "call") EXCEPT !.campaign = Shared])
    /\ UNCHANGED <<sessionVars, ws, camp, links, server>>

(* handleLinkSharedMembership: without an account's token, sign in first.  *)
LinkAccount ==
    /\ EffectsRan /\ InWorkspace /\ page.shared /\ ~guest.linked /\ guest.token # 0
    /\ \/ /\ sess.token = 0
          /\ LeaveToSignIn
          /\ UNCHANGED workspaceVars
       \/ /\ sess.token # 0 /\ ~Busy("claim") /\ issuer.guests < MaxGuests
          /\ Click([Fresh("claim", "call") EXCEPT !.campaign = Shared])
          /\ UNCHANGED <<sessionVars, ws, camp, links, server>>

Unmade == {n \in Notes : server.home[n] = "unmade"}

(* The server does what it was asked; an update or a delete of a note that *)
(* has gone is refused.                                                    *)
ServerActs(i) ==
    LET t     == task[i]
        made  == t.op = "capture" \/ (t.op = "save" /\ t.note = None)
        new   == IF made THEN Unmade ELSE {None}
        newCs == IF t.op = "create" THEN Campaigns \ server.campaigns ELSE {t.campaign}
    IN /\ EffectsRan /\ t.pc = "call"
       /\ t.op = "delete" \/ (t.op = "save" /\ t.note # None) => server.home[t.note] \in Campaigns
       /\ \E n \in new, c \in newCs :
            /\ server' = [server EXCEPT
                 !.home = IF made THEN [@ EXCEPT ![n] = c]
                          ELSE IF t.op = "delete" THEN [@ EXCEPT ![t.note] = "gone"] ELSE @,
                 !.campaigns = @ \cup {c},
                 !.links = IF t.op = "link" THEN @ \cup {c}
                           ELSE IF t.op = "revoke" THEN @ \ {c} ELSE @]
            /\ task' = [task EXCEPT ![i].pc = "served", ![i].campaign = c,
                                    ![i].note = IF made THEN n
                                                ELSE IF t.op = "delete" THEN None ELSE @]
       /\ IF t.op = "join" THEN MembershipMade
          ELSE IF t.op = "claim" THEN MembershipClaimed(guest.token) ELSE UNCHANGED issuer
       /\ UNCHANGED <<page, stored, sess, refreshing, guest, ws, camp, links, clicks>>

Served(i, ops) == EffectsRan /\ task[i].pc = "served" /\ task[i].op \in ops

(* A note was written: the workspace is loaded again, of the campaign that *)
(* was selected at the click.                                              *)
NoteWritten(i) ==
    /\ Served(i, {"save", "delete", "capture"})
    /\ StartLoad(i, IF task[i].op = "capture" /\ ~page.shared
                    THEN [NoSession(ws) EXCEPT !.browse = "notes"] ELSE ws,
                 task[i].campaign, task[i].note)
    /\ UNCHANGED <<sessionVars, camp, links, clicks, server>>

(* A starter note of a new campaign's template; one that fails is let go.  *)
StarterNote(i) ==
    /\ Served(i, {"create"}) /\ task[i].note = None
    /\ \E n \in Unmade :
         /\ server' = [server EXCEPT !.home[n] = task[i].campaign]
         /\ task' = [task EXCEPT ![i].note = n]
    /\ UNCHANGED <<sessionVars, ws, camp, links, clicks>>

CampaignSaved(i) ==
    /\ Served(i, {"create", "edit"})
    /\ task' = [task EXCEPT ![i].pc = "campaigns"]
    /\ UNCHANGED <<sessionVars, ws, camp, links, clicks, server>>

Previewed(i) ==
    /\ Served(i, {"preview"})
    /\ camp' = [camp EXCEPT !.preview = task[i].pair, !.applied = FALSE, !.previewing = FALSE]
    /\ Ends(i)
    /\ UNCHANGED <<sessionVars, ws, links, clicks, server>>

(* It refreshes through App's loader, errors suppressed.                   *)
Applied(i) ==
    /\ Served(i, {"apply"})
    /\ camp' = [camp EXCEPT !.preview = task[i].pair, !.applied = TRUE]
    /\ StartLoad(i, ws, task[i].campaign, task[i].note)
    /\ UNCHANGED <<sessionVars, links, clicks, server>>

(* The hook asks nobody which campaign's settings are open by now.         *)
ShareLinkAnswers(i) ==
    LET c == task[i].campaign
    IN /\ Served(i, {"link", "reveal", "revoke"})
       /\ links' =
            IF task[i].op = "link" THEN [links EXCEPT !.list = @ \cup {c}, !.revealed = {}]
            ELSE IF task[i].op = "reveal" THEN [links EXCEPT !.revealed = @ \cup {c}]
            ELSE [links EXCEPT !.list = @ \ {c}, !.revealed = @ \ {c}]
       /\ Ends(i)
       /\ UNCHANGED <<sessionVars, ws, camp, clicks, server>>

Joined(i) ==
    /\ Served(i, {"join"})
    /\ JoinAnswered(issuer.guests)
    /\ StartLoad(i, [ws EXCEPT !.browse = "notes", !.session = None], Shared, None)
    /\ camp' = [camp EXCEPT !.selected = Shared, !.campaigns = {Shared}]
    /\ UNCHANGED <<page, sess, refreshing, issuer, links, clicks, server>>

Claimed(i) ==
    /\ Served(i, {"claim"})
    /\ ClaimAnswered(issuer.guests, Shared)
    /\ Ends(i)
    /\ UNCHANGED <<page, sess, refreshing, issuer, ws, camp, links, clicks, server>>

(* The call fails, or it was served and its answer is lost.                *)
CallFails(i) ==
    LET op == task[i].op
    IN /\ EffectsRan /\ task[i].pc \in {"call", "served"}
       /\ camp' = IF op = "preview" THEN [camp EXCEPT !.previewing = FALSE]
                  ELSE IF op = "apply" THEN [camp EXCEPT !.applying = FALSE] ELSE camp
       /\ Ends(i)
       /\ UNCHANGED <<sessionVars, ws, links, clicks, server>>

-----------------------------------------------------------------------------
SignInStep ==
    \/ EffectsRan /\ (ConfigAnswers \/ InitSignsIn \/ InitFindsNone) /\ UNCHANGED workspaceVars
    \/ BootCampaigns \/ BootFails
    \/ GuestLoads \/ GuestMustJoin
    \/ EffectsRan /\ GuestSessionFails /\ UNCHANGED workspaceVars

RefreshStep ==
    \/ EffectsRan /\ RefreshBegins /\ UNCHANGED workspaceVars
    \/ \E t \in Tokens : \/ EffectsRan /\ RefreshAnswers(t) /\ UNCHANGED workspaceVars
                         \/ RefreshFails(t)

(* Whoever sits at the browser.                                            *)
VisitStep ==
    \/ Reload \/ LeaveShared \/ Redirected \/ SignIn \/ Logout

ClickStep ==
    \/ \E c \in Campaigns : SelectCampaign(c)
    \/ RetryWorkspace \/ SaveNote \/ DeleteNote \/ QuickCapture
    \/ \E n \in Notes : SelectNote(n)
    \/ StartNote
    \/ \E mode \in {"notes", "sessions"} : OpenBrowser(mode)
    \/ \E s \in OrNone(Sessions) : BrowseShared(s)
    \/ \E s \in Sessions : SelectSession(s)
    \/ OpenActivity
    \/ \E form \in {"create", "edit"} : OpenForm(form)
    \/ CancelForm \/ SaveCampaign
    \/ \E p \in Pairs : ChoosePair(p)
    \/ Preview \/ Apply
    \/ \E op \in {"link", "reveal", "revoke"} : ShareLink(op)
    \/ Join \/ LinkAccount

LoadStep(i) == LoadAnswers(i) \/ NamesAnswer(i) \/ LoadStale(i) \/ LoadFails(i)

TaskStep(i) ==
    \/ LoadStep(i)
    \/ CampaignsAnswer(i) \/ CampaignsFail(i)
    \/ SessionAnswers(i) \/ ActivityAnswers(i) \/ FetchFails(i)
    \/ NoteWritten(i) \/ StarterNote(i) \/ CampaignSaved(i)
    \/ Previewed(i) \/ Applied(i) \/ ShareLinkAnswers(i) \/ Joined(i) \/ Claimed(i)
    \/ CallFails(i)

EffectStep == RunEffect \/ SettingsAnswer \/ SettingsFail

Next ==
    \/ SignInStep \/ RefreshStep \/ VisitStep \/ ClickStep \/ EffectStep
    \/ \E i \in Tasks : TaskStep(i) \/ ServerActs(i)

Spec == Init /\ [][Next]_vars

-----------------------------------------------------------------------------
TypeOK ==
    /\ SessionTypeOK
    /\ stored.campaign \in OrNone(Campaigns)
    /\ ws \in NotesState
    /\ camp \in CampaignState
    /\ links \in LinksState
    /\ task \in [Tasks -> Task]
    /\ clicks \in 0 .. MaxClicks
    /\ server \in Server

(* The text in the editor is that of the note a save would write: no       *)
(* answer that comes late changes one of the two alone, and what a save    *)
(* under way writes is the note its text was taken from.                   *)
SavedWhereEdited ==
    /\ ws.selected # None => ws.text = ws.selected
    /\ \A i \in Tasks : task[i].op = "save" /\ task[i].pc = "call" => task[i].text = task[i].note

(* The notes on the screen are those of the selected campaign, which new   *)
(* notes are written to; unless what is shown is the answer to a save, a   *)
(* delete or a capture that came after another campaign was selected,      *)
(* which useNotes does not ask (useNotes.ts:1124).                         *)
ShowsSelected ==
    Screen = "workspace" /\ ws.overview # camp.selected => ws.strays

(* What is shown is never replaced by the answer to an older request.      *)
NeverOlder == [][ws'.shown >= ws.shown \/ ws' = NoNotes]_vars

=============================================================================
