------------------------------ MODULE PageProofs ------------------------------
(* Proofs about Workspace, for any campaigns, notes, clicks, tokens and    *)
(* loads of the page: what localStorage would resume is the session on the *)
(* screen, a save writes the note that is edited, what is shown is of the  *)
(* selected campaign and never older than what was.  The last section is   *)
(* about the operator portal's page: its session and its search.           *)
EXTENDS Workspace, Portals, TLAPS

-----------------------------------------------------------------------------
(* The inductive invariant.                                                *)

(* The types, without the bounds on the requests a page makes and on the   *)
(* guest tokens of a link, which nothing below needs.                      *)
NotesShape ==
    [overview: OrNone(Campaigns), list: SUBSET Notes, browse: {"notes", "sessions", "activity"},
     session: OrNone(Sessions), sessionNotes: SUBSET Notes, entries: SUBSET Notes,
     selected: OrNone(Notes), text: OrNone(Notes), creating: BOOLEAN, loading: BOOLEAN,
     strays: BOOLEAN, req: Nat, shown: Nat, sessionTask: OrNone(Tasks), activityTask: OrNone(Tasks)]

CampaignShape ==
    [campaigns: SUBSET OrNone(Campaigns), selected: OrNone(Campaigns),
     form: {"closed", "create", "edit"}, pair: OrNone(Pairs), preview: OrNone(Pairs),
     applied: BOOLEAN, previewing: BOOLEAN, applying: BOOLEAN]

TaskShape ==
    [op: Ops, pc: {"idle", "call", "served", "campaigns", "load", "names", "fetch", "done"},
     campaign: OrNone(Campaigns), note: OrNone(Notes), text: OrNone(Notes), req: Nat,
     session: OrNone(Sessions), pair: OrNone(Pairs), seen: SUBSET Notes]

ServerShape ==
    [home: [Notes -> OrNone(Campaigns) \cup {"unmade", "gone"}],
     campaigns: SUBSET OrNone(Campaigns), links: SUBSET OrNone(Campaigns)]

PageShape == [shared: BOOLEAN, callback: BOOLEAN, leaving: BOOLEAN, loads: Nat]

StoredShape == [tokens: Nat, guest: Nat, campaign: OrNone(Campaigns)]

SessionShape == [pc: {"config", "init", "owner", "campaigns", "ready"}, client: BOOLEAN,
                 token: Nat, owner: BOOLEAN]

GuestShape == [pc: {"session", "load", "ready"}, asked: Nat, token: Nat,
               shown: BOOLEAN, member: BOOLEAN, linked: BOOLEAN]

IssuerShape == [issued: Nat, guests: Nat, valid: SUBSET Nat, editor: BOOLEAN]

SessionTypes == /\ page \in PageShape /\ stored \in StoredShape /\ sess \in SessionShape
                /\ guest \in GuestShape /\ issuer \in IssuerShape

WorkspaceTypes == /\ ws \in NotesShape /\ camp \in CampaignShape /\ task \in [Tasks -> TaskShape]
                  /\ clicks \in Tasks /\ server \in ServerShape

(* A token is on the screen once the account has answered, and is the one  *)
(* stored; a guest's membership is asked for on a share link only.         *)
SessionInv ==
    /\ sess.pc \in {"config", "init", "owner"} => sess.token = 0
    /\ sess.token # 0 => sess.owner
    /\ sess.pc \in {"campaigns", "ready"} /\ stored.tokens # 0 =>
           sess.owner /\ sess.token = stored.tokens
    /\ guest.pc # "ready" => page.shared
    /\ task[0].pc # "idle" /\ ~page.shared => sess.pc \in {"campaigns", "ready"}

(* The draft is of the note that is selected.  When campaigns have gone    *)
(* the selection is dropped without the draft, and so is the overview.     *)
EditorOK(w) ==
    /\ w.selected # None => w.text = w.selected
    /\ w.selected = None /\ w.overview # None => w.text = None
    /\ w.creating => w.selected = None
    /\ w.shown <= w.req

Begun(i) == task[i].pc \notin {"idle", "done"}

(* A share link's page works in its campaign alone.                        *)
TaskOK(i) ==
    /\ task[i].op = "save" /\ task[i].pc = "call" => task[i].text = task[i].note
    /\ i > clicks => task[i].pc = "idle"
    /\ i = 0 => task[i].op = "boot"
    /\ Begun(i) /\ page.shared => /\ task[i].campaign = Shared /\ task[i].pc # "campaigns"
                                  /\ task[i].op \notin {"create", "edit"}
    /\ Begun(i) /\ task[i].op = "join" => page.shared

ShownInv ==
    /\ ws.overview # None /\ ws.overview # camp.selected => ws.strays
    /\ page.shared => ws.overview \in {None, Shared} /\ camp.selected \in {None, Shared}

IInv ==
    /\ SessionTypes /\ WorkspaceTypes
    /\ SessionInv /\ EditorOK(ws) /\ ShownInv
    /\ \A i \in Tasks : TaskOK(i)

-----------------------------------------------------------------------------
(* The operators.                                                          *)

LEMMA Numbers ==
  /\ MaxClicks \in Nat /\ MaxTokens \in Nat /\ MaxGuests \in Nat /\ MaxLoads \in Nat
  /\ Tasks \subseteq Nat /\ 0 \in Tasks /\ Shared \in Campaigns
  /\ None \notin Campaigns /\ None \notin Notes /\ None \notin Sessions
BY ClicksAssumption, BoundsAssumption, SharedAssumption DEF Tasks

(* What the editor shows is as it was.                                     *)
SameEditor(v, w) ==
    /\ v.overview = w.overview /\ v.selected = w.selected /\ v.text = w.text
    /\ v.creating = w.creating /\ v.shown = w.shown /\ v.strays = w.strays

LEMMA NoSessionIs ==
  ASSUME NEW w \in NotesShape
  PROVE  /\ NoSession(w) \in NotesShape /\ SameEditor(NoSession(w), w)
         /\ NoSession(w).req = w.req
BY DEF NoSession, NotesShape, SameEditor, OrNone

LEMMA NoActivityIs ==
  ASSUME NEW w \in NotesShape
  PROVE  /\ NoActivity(w) \in NotesShape /\ SameEditor(NoActivity(w), w)
         /\ NoActivity(w).req = w.req
BY DEF NoActivity, NotesShape, SameEditor, OrNone

LEMMA WithoutNotesIs ==
  ASSUME NEW w \in NotesShape
  PROVE  /\ WithoutNotes(w) \in NotesShape
         /\ WithoutNotes(w).overview = None /\ WithoutNotes(w).selected = None
         /\ WithoutNotes(w).text = None
         /\ WithoutNotes(w).req = w.req /\ WithoutNotes(w).shown = w.shown
<1>. DEFINE v == NoActivity(NoSession(w))
<1>1. v \in NotesShape /\ v.req = w.req /\ v.shown = w.shown
  BY NoSessionIs, NoActivityIs DEF SameEditor
<1>2. WithoutNotes(w) = [v EXCEPT !.overview = None, !.list = {}, !.browse = "notes",
                                  !.selected = None, !.text = None, !.strays = FALSE]
  BY DEF WithoutNotes
<1>. HIDE DEF v
<1>. QED
  BY <1>1, <1>2 DEF NotesShape, OrNone

LEMMA Blanks ==
  /\ NoNotes \in NotesShape /\ EditorOK(NoNotes) /\ NoNotes.overview = None
  /\ NoCampaign \in CampaignShape /\ NoCampaign.selected = None
BY Numbers DEF NoNotes, NotesShape, EditorOK, NoCampaign, CampaignShape, OrNone, Tasks

LEMMA FreshIs ==
  ASSUME NEW op \in Ops,
         NEW pc \in {"idle", "call", "served", "campaigns", "load", "names", "fetch", "done"}
  PROVE  /\ Fresh(op, pc) \in TaskShape /\ Fresh(op, pc).op = op /\ Fresh(op, pc).pc = pc
         /\ Fresh(op, pc).note = None /\ Fresh(op, pc).text = None
BY DEF Fresh, TaskShape, OrNone

LEMMA DoneIs == Done \in TaskShape /\ Done.pc = "done" /\ Done.op = "boot"
BY FreshIs DEF Done, Ops

(* The task of a step; the others are left alone.                          *)
OnlyTask(i) == \A j \in Tasks \ {i} : task'[j] = task[j]

LEMMA EndsIs ==
  ASSUME WorkspaceTypes, NEW i \in Tasks, Ends(i)
  PROVE  /\ task' \in [Tasks -> TaskShape] /\ OnlyTask(i)
         /\ task'[i].pc = "done" /\ task'[i].op = "boot"
BY DoneIs DEF Ends, WorkspaceTypes, OnlyTask

LEMMA BeginIs ==
  ASSUME WorkspaceTypes, NEW i \in Tasks, NEW t \in TaskShape, Begin(i, t)
  PROVE  task' \in [Tasks -> TaskShape] /\ OnlyTask(i) /\ task'[i] = t
BY DEF Begin, WorkspaceTypes, OnlyTask

LEMMA StartLoadIs ==
  ASSUME WorkspaceTypes, NEW i \in Tasks, NEW w \in NotesShape, NEW c \in OrNone(Campaigns),
         NEW n \in OrNone(Notes), StartLoad(i, w, c, n)
  PROVE  /\ ws' \in NotesShape /\ SameEditor(ws', w) /\ ws'.req = w.req + 1
         /\ task' \in [Tasks -> TaskShape] /\ OnlyTask(i)
         /\ task'[i].op = task[i].op /\ task'[i].pc = "load"
         /\ task'[i].campaign = c
<1>1. w.req + 1 \in Nat
  BY DEF NotesShape
<1>. DEFINE r == w.req + 1
<1>2. ws' = [w EXCEPT !.req = r, !.loading = TRUE]
  BY DEF StartLoad
<1>3. task' = [task EXCEPT ![i].pc = "load", ![i].req = r,
                           ![i].campaign = c, ![i].note = n, ![i].seen = {}]
  BY DEF StartLoad
<1>. HIDE DEF r
<1>4. r \in Nat
  BY <1>1 DEF r
<1>5. ws' \in NotesShape /\ SameEditor(ws', w) /\ ws'.req = r
  BY <1>2, <1>4 DEF NotesShape, SameEditor
<1>6. [task[i] EXCEPT !.pc = "load", !.req = r, !.campaign = c, !.note = n, !.seen = {}]
         \in TaskShape
  BY <1>4 DEF WorkspaceTypes, TaskShape
<1>7. /\ task' \in [Tasks -> TaskShape] /\ OnlyTask(i)
      /\ task'[i].op = task[i].op /\ task'[i].pc = "load" /\ task'[i].campaign = c
  BY <1>3, <1>6 DEF WorkspaceTypes, TaskShape, OnlyTask
<1>. QED
  BY <1>5, <1>7 DEF r

LEMMA EditorKept ==
  ASSUME NEW v, NEW w \in NotesShape, EditorOK(w), SameEditor(v, w), v.req \in Nat, v.req >= w.req
  PROVE  EditorOK(v)
BY DEF EditorOK, SameEditor, NotesShape

(* A page that is loaded anew.                                             *)
LEMMA LoadedIs ==
  ASSUME IInv, NEW signsIn \in BOOLEAN, NEW shared \in BOOLEAN,
         NEW b \in StoredShape, Loaded(signsIn, shared, b), Started, UNCHANGED issuer
  PROVE  IInv'
<1>1. page' \in PageShape /\ page'.shared = shared
  BY DEF Loaded, IInv, SessionTypes, PageShape
<1>2. sess' = Opened /\ Opened \in SessionShape /\ Opened.token = 0 /\ Opened.pc = "config"
  BY DEF Opened, SessionShape, Loaded
<1>3. guest' \in GuestShape /\ (guest'.pc # "ready" => shared)
  BY DEF Loaded, Arrived, GuestShape, StoredShape
<1>4. SessionTypes'
  BY <1>1, <1>2, <1>3 DEF Loaded, IInv, SessionTypes
<1>5. /\ task' = [i \in Tasks |-> IF i = 0 THEN Fresh("boot", "idle") ELSE
                                  IF i > clicks THEN task[i] ELSE Fresh("boot", "done")]
      /\ ws' = NoNotes /\ camp' = NoCampaign /\ clicks' = clicks /\ server' = server
  BY DEF Started, Done
<1>6. /\ Fresh("boot", "idle") \in TaskShape /\ Fresh("boot", "done") \in TaskShape
      /\ Fresh("boot", "idle").op = "boot" /\ Fresh("boot", "idle").pc = "idle"
      /\ Fresh("boot", "done").op = "boot" /\ Fresh("boot", "done").pc = "done"
  BY FreshIs DEF Ops
<1>7. task' \in [Tasks -> TaskShape]
  BY <1>5, <1>6 DEF IInv, WorkspaceTypes
<1>8. WorkspaceTypes'
  BY <1>5, <1>7, Blanks DEF IInv, WorkspaceTypes
<1>9. ASSUME NEW i \in Tasks
      PROVE  TaskOK(i)' /\ (i = 0 => task'[i].pc = "idle")
  <2>1. i > clicks => task[i].pc = "idle"
    BY DEF IInv, TaskOK
  <2>2. task'[i] = IF i = 0 THEN Fresh("boot", "idle") ELSE
                   IF i > clicks THEN task[i] ELSE Fresh("boot", "done")
    BY <1>5
  <2>3. /\ task'[i].pc \in {"idle", "done"}
        /\ i = 0 => task'[i].op = "boot" /\ task'[i].pc = "idle"
        /\ i > clicks => task'[i].pc = "idle"
    BY <1>6, <2>1, <2>2
  <2>. QED
    BY <1>5, <2>3 DEF TaskOK, Begun
<1>10. SessionInv'
  BY <1>1, <1>2, <1>3, <1>9, Numbers DEF SessionInv
<1>11. EditorOK(ws)' /\ ShownInv'
  BY <1>5, Blanks DEF ShownInv
<1>. QED
  BY <1>4, <1>8, <1>9, <1>10, <1>11 DEF IInv

-----------------------------------------------------------------------------
(* Frames: what a step that leaves much alone keeps.                       *)

(* Neither the hooks nor the tasks.                                        *)
LEMMA SessionStep ==
  ASSUME IInv, UNCHANGED workspaceVars, page'.shared = page.shared, SessionTypes', SessionInv'
  PROVE  IInv'
BY DEF IInv, WorkspaceTypes, EditorOK, ShownInv, TaskOK, Begun, workspaceVars

LEMMA SameSession ==
  ASSUME IInv, UNCHANGED <<page, stored, sess, guest, issuer>>,
         task'[0].pc # "idle" => task[0].pc # "idle"
  PROVE  SessionTypes' /\ SessionInv'
BY DEF IInv, SessionTypes, SessionInv

(* The tasks but for one.                                                  *)
LEMMA OthersOK ==
  ASSUME IInv, NEW i \in Tasks, OnlyTask(i), TaskOK(i)', page'.shared = page.shared,
         clicks' = clicks \/ clicks' = clicks + 1
  PROVE  \A j \in Tasks : TaskOK(j)'
<1>. SUFFICES ASSUME NEW j \in Tasks, j # i PROVE TaskOK(j)'
  OBVIOUS
<1>1. task'[j] = task[j]
  BY DEF OnlyTask
<1>2. TaskOK(j)
  BY DEF IInv
<1>3. j \in Nat /\ clicks \in Nat
  BY Numbers DEF IInv, WorkspaceTypes
<1>4. j > clicks' => j > clicks
  BY <1>3
<1>. QED
  BY <1>1, <1>2, <1>4 DEF TaskOK, Begun

(* What is shown is as it was, or is no more.                              *)
LEMMA ShownKept ==
  ASSUME IInv, page' = page, ws'.overview \in {ws.overview, None},
         ws'.overview # None => ws'.strays = ws.strays, camp'.selected = camp.selected
  PROVE  ShownInv'
BY DEF IInv, ShownInv

LEMMA Frame ==
  ASSUME IInv, SessionTypes', WorkspaceTypes', SessionInv', EditorOK(ws)', ShownInv',
         page'.shared = page.shared, clicks' = clicks \/ clicks' = clicks + 1,
         NEW i \in Tasks, OnlyTask(i), TaskOK(i)'
  PROVE  IInv'
BY OthersOK DEF IInv

(* A click that makes a task.                                              *)
MayBegin(t) ==
    /\ t \in TaskShape /\ t.pc \in {"call", "fetch", "load"}
    /\ t.op = "save" => t.text = t.note
    /\ page.shared => t.campaign = Shared /\ t.op \notin {"create", "edit"}
    /\ t.op = "join" => page.shared

LEMMA ClickStepKeeps ==
  ASSUME IInv, UNCHANGED sessionVars, NEW t, MayBegin(t), clicks < MaxClicks,
         clicks' = clicks + 1, Begin(clicks + 1, t),
         ws' \in NotesShape, SameEditor(ws', ws), ws'.req >= ws.req,
         camp' \in CampaignShape, camp'.selected = camp.selected, UNCHANGED server
  PROVE  IInv'
<1>1. clicks + 1 \in Tasks /\ clicks \in Nat
  BY Numbers DEF IInv, WorkspaceTypes, Tasks
<1>2. PICK i \in Tasks : i = clicks + 1
  BY <1>1
<1>10. Begin(i, t) /\ clicks' = i /\ i # 0 /\ i > clicks /\ ~(i > clicks')
  BY <1>1, <1>2, Numbers
<1>3. task' \in [Tasks -> TaskShape] /\ OnlyTask(i) /\ task'[i] = t
  BY <1>10, BeginIs DEF IInv, MayBegin
<1>4. task[i].pc = "idle"
  BY <1>10 DEF IInv, TaskOK
<1>5. WorkspaceTypes'
  BY <1>3, <1>10 DEF IInv, WorkspaceTypes
<1>6. SessionTypes' /\ SessionInv'
  <2>1. task'[0] = task[0]
    BY <1>3, <1>10, Numbers DEF OnlyTask
  <2>. QED
    BY <2>1, SameSession DEF sessionVars
<1>7. TaskOK(i)'
  BY <1>3, <1>10 DEF TaskOK, Begun, MayBegin, sessionVars
<1>8. EditorOK(ws)'
  BY EditorKept DEF IInv, WorkspaceTypes, NotesShape
<1>9. ShownInv'
  BY ShownKept DEF sessionVars, SameEditor
<1>. QED
  BY <1>3, <1>5, <1>6, <1>7, <1>8, <1>9, Frame DEF sessionVars

-----------------------------------------------------------------------------
(* Clicks that call the server.                                            *)

LEMMA ScreenIs ==
  /\ Screen = "workspace" => ws.overview # None /\ sess.pc = "ready"
  /\ Screen = "first campaign" => ~page.shared
  /\ Screen = "join" => page.shared
BY DEF Screen, AuthReady

(* A request of the workspace, and the task that awaits it.                *)
LEMMA RequestIs ==
  ASSUME NEW w \in NotesShape, NEW v, v = [w EXCEPT !.req = @ + 1, !.loading = TRUE]
  PROVE  v \in NotesShape /\ SameEditor(v, w) /\ v.req = w.req + 1 /\ v.req >= w.req
<1>1. PICK r \in Nat : r = w.req + 1 /\ r >= w.req
  BY DEF NotesShape
<1>2. v = [w EXCEPT !.req = r, !.loading = TRUE]
  BY <1>1
<1>. QED
  BY <1>1, <1>2 DEF NotesShape, SameEditor

LEMMA SelectCampaignKeeps ==
  ASSUME IInv, NEW c \in Campaigns, SelectCampaign(c)
  PROVE  IInv'
<1>. DEFINE u == NoActivity(NoSession(ws))
            w == [u EXCEPT !.browse = "notes"]
<1>1. ws \in NotesShape /\ camp \in CampaignShape
  BY DEF IInv, WorkspaceTypes
<1>9. PICK r \in Nat : r = ws.req + 1
  BY <1>1 DEF NotesShape
<1>. DEFINE t == [Fresh("select", "load") EXCEPT !.req = r, !.campaign = c]
<1>2. u \in NotesShape /\ SameEditor(u, ws) /\ u.req = ws.req
  BY <1>1, NoSessionIs, NoActivityIs DEF SameEditor
<1>3. /\ ws' = [w EXCEPT !.req = @ + 1, !.loading = TRUE]
      /\ camp' = [camp EXCEPT !.form = "closed"] /\ UNCHANGED server /\ UNCHANGED sessionVars
      /\ clicks < MaxClicks /\ clicks' = clicks + 1 /\ Begin(clicks + 1, t) /\ ~page.shared
  BY <1>9 DEF SelectCampaign, OwnerWorkspace
<1>. HIDE DEF u
<1>4. w \in NotesShape /\ SameEditor(w, u) /\ w.req = u.req
  BY <1>2 DEF NotesShape, SameEditor
<1>. HIDE DEF w
<1>5. ws' \in NotesShape /\ SameEditor(ws', w) /\ ws'.req >= w.req
  BY <1>3, <1>4, RequestIs
<1>6. SameEditor(ws', ws) /\ ws'.req >= ws.req
  BY <1>2, <1>4, <1>5 DEF SameEditor
<1>7. camp' \in CampaignShape /\ camp'.selected = camp.selected
  BY <1>1, <1>3 DEF CampaignShape
<1>8. MayBegin(t)
  <2>1. t \in TaskShape /\ t.op = "select" /\ t.pc = "load"
    BY DEF Fresh, TaskShape, OrNone, Ops
  <2>. QED
    BY <1>3, <2>1 DEF MayBegin
<1>. HIDE DEF t
<1>. QED
  BY <1>3, <1>5, <1>6, <1>7, <1>8, ClickStepKeeps

(* A retry, on a share link of its campaign.                               *)
LEMMA RetryWorkspaceKeeps ==
  ASSUME IInv, RetryWorkspace
  PROVE  IInv'
<1>. DEFINE c == IF page.shared THEN Shared ELSE camp.selected
<1>1. ws \in NotesShape /\ camp \in CampaignShape
  BY DEF IInv, WorkspaceTypes
<1>9. PICK r \in Nat : r = ws.req + 1
  BY <1>1 DEF NotesShape
<1>. DEFINE t == [Fresh("select", "load") EXCEPT !.req = r, !.campaign = c]
<1>2. c \in OrNone(Campaigns) /\ (page.shared => c = Shared)
  BY <1>1, Numbers DEF RetryWorkspace, CampaignShape, OrNone
<1>3. /\ ws' = [ws EXCEPT !.req = @ + 1, !.loading = TRUE]
      /\ UNCHANGED camp /\ UNCHANGED server /\ UNCHANGED sessionVars
      /\ clicks < MaxClicks /\ clicks' = clicks + 1 /\ Begin(clicks + 1, t)
  BY <1>9 DEF RetryWorkspace
<1>. HIDE DEF c
<1>4. ws' \in NotesShape /\ SameEditor(ws', ws) /\ ws'.req >= ws.req
  BY <1>1, <1>3, RequestIs
<1>5. MayBegin(t)
  <2>1. t \in TaskShape /\ t.op = "select" /\ t.pc = "load" /\ t.campaign = c
    BY <1>2 DEF Fresh, TaskShape, OrNone, Ops
  <2>. QED
    BY <1>2, <2>1 DEF MayBegin
<1>. HIDE DEF t
<1>. QED
  BY <1>1, <1>3, <1>4, <1>5, ClickStepKeeps

(* The hooks but useCampaign's selection are as they were.                 *)
LEMMA CallKeeps ==
  ASSUME IInv, UNCHANGED <<sessionVars, ws, server>>, NEW t, MayBegin(t), Click(t),
         camp' \in CampaignShape, camp'.selected = camp.selected
  PROVE  IInv'
<1>1. ws' \in NotesShape /\ SameEditor(ws', ws) /\ ws'.req >= ws.req
  BY DEF IInv, WorkspaceTypes, NotesShape, SameEditor
<1>. QED
  BY <1>1, ClickStepKeeps DEF Click

LEMMA CallOfSame ==
  ASSUME IInv, UNCHANGED <<sessionVars, ws, camp, server>>, NEW t, MayBegin(t), Click(t)
  PROVE  IInv'
<1>1. camp' \in CampaignShape /\ camp'.selected = camp.selected
  BY DEF IInv, WorkspaceTypes
<1>. QED
  BY <1>1, CallKeeps

(* A save writes what was edited.                                          *)
LEMMA SaveNoteKeeps ==
  ASSUME IInv, SaveNote
  PROVE  IInv'
<1>. DEFINE f == Fresh("save", "call")
            n == IF ws.creating THEN None ELSE ws.selected
            t == [f EXCEPT !.campaign = camp.selected, !.text = ws.text, !.note = n]
<1>1. ws \in NotesShape /\ camp \in CampaignShape
  BY DEF IInv, WorkspaceTypes
<1>2. camp.selected # None /\ ws.overview # None
  BY ScreenIs DEF SaveNote, MayWrite, InWorkspace
<1>3. n = ws.text /\ n \in OrNone(Notes)
  BY <1>1, <1>2 DEF IInv, EditorOK, NotesShape, OrNone
<1>4. camp.selected \in OrNone(Campaigns) /\ (page.shared => camp.selected = Shared)
  BY <1>1, <1>2 DEF IInv, ShownInv, CampaignShape
<1>5. Click(t) /\ UNCHANGED <<sessionVars, ws, camp, server>>
  BY DEF SaveNote
<1>. HIDE DEF n
<1>6. MayBegin(t)
  <2>1. f \in TaskShape /\ f.op = "save" /\ f.pc = "call"
    BY FreshIs DEF Ops
  <2>. HIDE DEF f
  <2>2. /\ t \in TaskShape /\ t.op = "save" /\ t.pc = "call" /\ t.campaign = camp.selected
        /\ t.text = ws.text /\ t.note = n
    BY <1>3, <1>4, <2>1 DEF TaskShape
  <2>. QED
    BY <1>3, <1>4, <2>2 DEF MayBegin
<1>. HIDE DEF t
<1>. QED
  BY <1>5, <1>6, CallOfSame

LEMMA DeleteNoteKeeps ==
  ASSUME IInv, DeleteNote
  PROVE  IInv'
<1>. DEFINE f == Fresh("delete", "call")
            t == [f EXCEPT !.campaign = camp.selected, !.note = ws.selected]
<1>1. ws.selected \in OrNone(Notes) /\ camp.selected \in OrNone(Campaigns)
  BY DEF IInv, WorkspaceTypes, NotesShape, CampaignShape
<1>2. page.shared => camp.selected = Shared
  BY DEF DeleteNote, MayWrite, IInv, ShownInv
<1>3. Click(t) /\ UNCHANGED <<sessionVars, ws, camp, server>>
  BY DEF DeleteNote
<1>4. MayBegin(t)
  <2>1. f \in TaskShape /\ f.op = "delete" /\ f.pc = "call"
    BY FreshIs DEF Ops
  <2>. HIDE DEF f
  <2>2. t \in TaskShape /\ t.op = "delete" /\ t.pc = "call" /\ t.campaign = camp.selected
    BY <1>1, <2>1 DEF TaskShape
  <2>. QED
    BY <1>2, <2>2 DEF MayBegin
<1>. HIDE DEF t
<1>. QED
  BY <1>3, <1>4, CallOfSame

(* Clicks that capture the selected campaign and no note's text.           *)
LEMMA OfCampaign ==
  ASSUME NEW op \in Ops \ {"save"}, NEW pc \in {"call", "fetch"}, NEW c \in OrNone(Campaigns),
         page.shared => c = Shared /\ op \notin {"create", "edit"},
         op = "join" => page.shared
  PROVE  MayBegin([Fresh(op, pc) EXCEPT !.campaign = c])
<1>. DEFINE f == Fresh(op, pc)
            t == [f EXCEPT !.campaign = c]
<1>1. f \in TaskShape /\ f.op = op /\ f.pc = pc
  BY FreshIs
<1>. HIDE DEF f
<1>2. t \in TaskShape /\ t.op = op /\ t.pc = pc /\ t.campaign = c
  BY <1>1 DEF TaskShape
<1>. QED
  BY <1>2 DEF MayBegin, f

LEMMA SelectedIs ==
  ASSUME IInv
  PROVE  /\ camp.selected \in OrNone(Campaigns)
         /\ page.shared /\ camp.selected # None => camp.selected = Shared
BY DEF IInv, WorkspaceTypes, CampaignShape, ShownInv

LEMMA QuickCaptureKeeps ==
  ASSUME IInv, QuickCapture
  PROVE  IInv'
<1>1. MayBegin([Fresh("capture", "call") EXCEPT !.campaign = camp.selected])
  BY OfCampaign, SelectedIs DEF QuickCapture, MayWrite, Ops
<1>. QED
  BY <1>1, CallOfSame DEF QuickCapture

LEMMA SaveCampaignKeeps ==
  ASSUME IInv, SaveCampaign
  PROVE  IInv'
<1>. DEFINE c == IF camp.form = "edit" THEN camp.selected ELSE None
<1>1. ~page.shared
  BY ScreenIs DEF SaveCampaign, OwnerWorkspace
<1>2. camp.form \in {"create", "edit"} /\ c \in OrNone(Campaigns)
  BY SelectedIs DEF SaveCampaign, IInv, WorkspaceTypes, CampaignShape, OrNone
<1>3. /\ Click([Fresh(camp.form, "call") EXCEPT !.campaign = c])
      /\ UNCHANGED <<sessionVars, ws, camp, server>>
  BY DEF SaveCampaign
<1>. HIDE DEF c
<1>4. MayBegin([Fresh(camp.form, "call") EXCEPT !.campaign = c])
  BY <1>1, <1>2, OfCampaign DEF Ops
<1>. QED
  BY <1>3, <1>4, CallOfSame

LEMMA ShareLinkKeeps ==
  ASSUME IInv, NEW op \in {"link", "reveal", "revoke"}, ShareLink(op)
  PROVE  IInv'
<1>1. MayBegin([Fresh(op, "call") EXCEPT !.campaign = camp.selected])
  BY OfCampaign, SelectedIs DEF ShareLink, InSettings, OwnerWorkspace, Ops
<1>. QED
  BY <1>1, CallOfSame DEF ShareLink

LEMMA JoinKeeps ==
  ASSUME IInv, Join
  PROVE  IInv'
<1>1. MayBegin([Fresh("join", "call") EXCEPT !.campaign = Shared])
  BY OfCampaign, ScreenIs, Numbers DEF Join, Ops, OrNone
<1>. QED
  BY <1>1, CallOfSame DEF Join

LEMMA LinkAccountKeeps ==
  ASSUME IInv, LinkAccount
  PROVE  IInv'
<1>1. CASE LeaveToSignIn /\ UNCHANGED workspaceVars
  <2>1. SessionTypes' /\ SessionInv' /\ page'.shared = page.shared
    BY <1>1 DEF LeaveToSignIn, IInv, SessionTypes, SessionInv, PageShape, workspaceVars
  <2>. QED
    BY <1>1, <2>1, SessionStep
<1>2. CASE /\ Click([Fresh("claim", "call") EXCEPT !.campaign = Shared])
           /\ UNCHANGED <<sessionVars, ws, camp, links, server>>
  <2>1. MayBegin([Fresh("claim", "call") EXCEPT !.campaign = Shared])
    BY OfCampaign, Numbers DEF Ops, OrNone
  <2>. QED
    BY <1>2, <2>1, CallOfSame
<1>. QED
  BY <1>1, <1>2 DEF LinkAccount

LEMMA SelectSessionKeeps ==
  ASSUME IInv, NEW s \in Sessions, SelectSession(s)
  PROVE  IInv'
<1>. DEFINE t == [Fresh("session", "fetch") EXCEPT !.campaign = camp.selected, !.session = s]
<1>1. ws \in NotesShape /\ camp \in CampaignShape /\ clicks + 1 \in Tasks
  BY Numbers DEF IInv, WorkspaceTypes, Tasks, SelectSession, Click
<1>2. PICK i \in Tasks : i = clicks + 1
  BY <1>1
<1>3. /\ ws' = [ws EXCEPT !.browse = "sessions", !.session = s, !.sessionNotes = {},
                          !.sessionTask = i]
      /\ Click(t) /\ UNCHANGED <<sessionVars, camp, server>> /\ ~page.shared
  BY <1>2 DEF SelectSession, OwnerWorkspace
<1>7. ws' \in NotesShape
  BY <1>1, <1>3 DEF NotesShape, OrNone
<1>8. SameEditor(ws', ws) /\ ws'.req = ws.req
  BY <1>1, <1>3 DEF NotesShape, SameEditor
<1>4. ws' \in NotesShape /\ SameEditor(ws', ws) /\ ws'.req >= ws.req
  BY <1>1, <1>7, <1>8 DEF NotesShape
<1>5. t \in TaskShape /\ t.op = "session" /\ t.pc = "fetch"
  BY SelectedIs DEF Fresh, TaskShape, OrNone, Ops
<1>6. MayBegin(t)
  BY <1>3, <1>5 DEF MayBegin
<1>. HIDE DEF t
<1>. QED
  BY <1>1, <1>3, <1>4, <1>6, ClickStepKeeps DEF Click

LEMMA OpenActivityKeeps ==
  ASSUME IInv, OpenActivity
  PROVE  IInv'
<1>. DEFINE t == [Fresh("activity", "fetch") EXCEPT !.campaign = camp.selected]
            w == NoSession(ws)
<1>1. ws \in NotesShape /\ camp \in CampaignShape /\ clicks + 1 \in Tasks
  BY Numbers DEF IInv, WorkspaceTypes, Tasks, OpenActivity, Click
<1>2. PICK i \in Tasks : i = clicks + 1
  BY <1>1
<1>3. /\ ws' = [w EXCEPT !.browse = "activity", !.entries = {}, !.activityTask = i]
      /\ Click(t) /\ UNCHANGED <<sessionVars, camp, server>> /\ ~page.shared
  BY <1>2 DEF OpenActivity, OwnerWorkspace
<1>4. w \in NotesShape /\ SameEditor(w, ws) /\ w.req = ws.req
  BY <1>1, NoSessionIs
<1>. HIDE DEF w
<1>7. ws' \in NotesShape
  BY <1>3, <1>4 DEF NotesShape, OrNone
<1>8. SameEditor(ws', ws) /\ ws'.req = ws.req
  BY <1>3, <1>4 DEF NotesShape, SameEditor
<1>5. ws' \in NotesShape /\ SameEditor(ws', ws) /\ ws'.req >= ws.req
  BY <1>1, <1>7, <1>8 DEF NotesShape
<1>6. MayBegin(t)
  BY <1>3, SelectedIs, OfCampaign DEF Ops, SavesNotes
<1>. HIDE DEF t
<1>. QED
  BY <1>1, <1>3, <1>5, <1>6, ClickStepKeeps DEF Click

LEMMA PreviewKeeps ==
  ASSUME IInv, Preview
  PROVE  IInv'
<1>. DEFINE t == [Fresh("preview", "call") EXCEPT !.campaign = camp.selected, !.pair = camp.pair]
<1>1. camp \in CampaignShape
  BY DEF IInv, WorkspaceTypes
<1>2. /\ Click(t) /\ UNCHANGED <<sessionVars, ws, server>> /\ ~page.shared
      /\ camp' = [camp EXCEPT !.previewing = TRUE]
  BY DEF Preview, InSettings, OwnerWorkspace
<1>3. camp' \in CampaignShape /\ camp'.selected = camp.selected
  BY <1>1, <1>2 DEF CampaignShape
<1>4. t \in TaskShape /\ t.op = "preview" /\ t.pc = "call"
  BY <1>1 DEF CampaignShape, Fresh, TaskShape, OrNone, Ops
<1>5. MayBegin(t)
  BY <1>2, <1>4 DEF MayBegin
<1>. HIDE DEF t
<1>. QED
  BY <1>2, <1>3, <1>5, CallKeeps

LEMMA ApplyKeeps ==
  ASSUME IInv, Apply
  PROVE  IInv'
<1>. DEFINE t == [Fresh("apply", "call") EXCEPT !.campaign = camp.selected, !.pair = camp.pair,
                                                !.note = ws.selected]
<1>1. camp \in CampaignShape /\ ws.selected \in OrNone(Notes)
  BY DEF IInv, WorkspaceTypes, NotesShape
<1>2. /\ Click(t) /\ UNCHANGED <<sessionVars, ws, server>> /\ ~page.shared
      /\ camp' = [camp EXCEPT !.applying = TRUE]
  BY DEF Apply, InSettings, OwnerWorkspace
<1>3. camp' \in CampaignShape /\ camp'.selected = camp.selected
  BY <1>1, <1>2 DEF CampaignShape
<1>4. t \in TaskShape /\ t.op = "apply" /\ t.pc = "call"
  BY <1>1 DEF CampaignShape, Fresh, TaskShape, OrNone, Ops
<1>5. MayBegin(t)
  BY <1>2, <1>4 DEF MayBegin
<1>. HIDE DEF t
<1>. QED
  BY <1>2, <1>3, <1>5, CallKeeps

-----------------------------------------------------------------------------
(* Clicks that call nobody, and the settings' effect.                      *)

(* No task moves.                                                          *)
LEMMA IdleStep ==
  ASSUME IInv, UNCHANGED <<page, stored, sess, guest, issuer, task, clicks, server>>,
         ws' \in NotesShape, camp' \in CampaignShape, EditorOK(ws)',
         ws'.overview = ws.overview /\ ws'.strays = ws.strays, camp'.selected = camp.selected
  PROVE  IInv'
<1>1. WorkspaceTypes'
  BY DEF IInv, WorkspaceTypes
<1>2. SessionTypes' /\ SessionInv'
  BY SameSession
<1>4. ShownInv'
  BY ShownKept
<1>5. \A i \in Tasks : TaskOK(i)'
  BY DEF IInv, TaskOK, Begun
<1>. QED
  BY <1>1, <1>2, <1>4, <1>5 DEF IInv

LEMMA EditStep ==
  ASSUME IInv, NEW w, Edits(w), w \in NotesShape, w.overview = ws.overview,
         w.strays = ws.strays, EditorOK(w)
  PROVE  IInv'
<1>1. ws' = w /\ UNCHANGED <<sessionVars, camp, task, clicks, server>>
  BY DEF Edits
<1>2. camp' \in CampaignShape /\ camp'.selected = camp.selected
  BY <1>1 DEF IInv, WorkspaceTypes
<1>3. EditorOK(ws)'
  BY <1>1
<1>. QED
  BY <1>1, <1>2, <1>3, IdleStep DEF sessionVars

LEMMA SelectNoteKeeps ==
  ASSUME IInv, NEW n \in Notes, SelectNote(n)
  PROVE  IInv'
<1>. DEFINE w == [ws EXCEPT !.selected = n, !.text = n, !.creating = FALSE]
<1>1. w \in NotesShape /\ w.overview = ws.overview /\ w.strays = ws.strays /\ EditorOK(w)
  BY Numbers DEF IInv, WorkspaceTypes, NotesShape, EditorOK, OrNone
<1>2. Edits(w)
  BY DEF SelectNote
<1>. HIDE DEF w
<1>. QED
  BY <1>1, <1>2, EditStep

LEMMA StartNoteKeeps ==
  ASSUME IInv, StartNote
  PROVE  IInv'
<1>. DEFINE u == NoSession(ws)
            w == [u EXCEPT !.selected = None, !.text = None, !.creating = TRUE, !.browse = "notes"]
<1>1. u \in NotesShape /\ SameEditor(u, ws) /\ u.req = ws.req
  BY NoSessionIs DEF IInv, WorkspaceTypes
<1>2. Edits(w)
  BY DEF StartNote
<1>. HIDE DEF u
<1>3. w \in NotesShape /\ w.overview = ws.overview /\ w.strays = ws.strays /\ EditorOK(w)
  BY <1>1 DEF IInv, NotesShape, EditorOK, OrNone, SameEditor
<1>. HIDE DEF w
<1>. QED
  BY <1>2, <1>3, EditStep

LEMMA BrowseIs ==
  ASSUME IInv, NEW mode \in {"notes", "sessions", "activity"},
         Edits([NoSession(ws) EXCEPT !.browse = mode])
  PROVE  IInv'
<1>. DEFINE u == NoSession(ws)
            w == [u EXCEPT !.browse = mode]
<1>1. u \in NotesShape /\ SameEditor(u, ws) /\ u.req = ws.req
  BY NoSessionIs DEF IInv, WorkspaceTypes
<1>2. Edits(w)
  OBVIOUS
<1>. HIDE DEF u
<1>3. w \in NotesShape /\ w.overview = ws.overview /\ w.strays = ws.strays /\ EditorOK(w)
  BY <1>1 DEF IInv, NotesShape, EditorOK, OrNone, SameEditor
<1>. HIDE DEF w
<1>. QED
  BY <1>2, <1>3, EditStep

LEMMA OpenBrowserKeeps ==
  ASSUME IInv, NEW mode \in {"notes", "sessions"}, OpenBrowser(mode)
  PROVE  IInv'
BY BrowseIs DEF OpenBrowser

LEMMA BrowseSharedKeeps ==
  ASSUME IInv, NEW s \in OrNone(Sessions), BrowseShared(s)
  PROVE  IInv'
<1>1. CASE Edits([NoSession(ws) EXCEPT !.browse = "activity"])
  BY <1>1, BrowseIs
<1>2. CASE Edits([ws EXCEPT !.browse = "sessions", !.session = s])
  <2>. DEFINE w == [ws EXCEPT !.browse = "sessions", !.session = s]
  <2>1. w \in NotesShape /\ w.overview = ws.overview /\ w.strays = ws.strays /\ EditorOK(w)
    BY DEF IInv, WorkspaceTypes, NotesShape, EditorOK
  <2>2. Edits(w)
    BY <1>2
  <2>. HIDE DEF w
  <2>. QED
    BY <2>1, <2>2, EditStep
<1>. QED
  BY <1>1, <1>2 DEF BrowseShared

(* Forms and pairs are of no note.                                         *)
LEMMA UnconsolidatedIs ==
  ASSUME NEW c \in CampaignShape
  PROVE  Unconsolidated(c) \in CampaignShape /\ Unconsolidated(c).selected = c.selected
BY DEF Unconsolidated, CampaignShape, OrNone

LEMMA FormStep ==
  ASSUME IInv, UNCHANGED <<sessionVars, ws, task, clicks, server>>,
         camp' \in CampaignShape, camp'.selected = camp.selected
  PROVE  IInv'
<1>1. ws' \in NotesShape /\ EditorOK(ws)' /\ ws'.overview = ws.overview /\ ws'.strays = ws.strays
  BY DEF IInv, WorkspaceTypes
<1>. QED
  BY <1>1, IdleStep DEF sessionVars

LEMMA FormsKeep ==
  ASSUME IInv, (\E form \in {"create", "edit"} : OpenForm(form)) \/ CancelForm
                \/ (\E p \in Pairs : ChoosePair(p)) \/ EffectStep
  PROVE  IInv'
<1>. DEFINE u == Unconsolidated(camp)
<1>1. camp \in CampaignShape
  BY DEF IInv, WorkspaceTypes
<1>2. u \in CampaignShape /\ u.selected = camp.selected
  BY <1>1, UnconsolidatedIs
<1>3. /\ UNCHANGED <<sessionVars, ws, task, clicks, server>>
      /\ \/ \E form \in {"create", "edit", "closed"} : camp' = [u EXCEPT !.form = form]
         \/ \E p \in Pairs : camp' = [camp EXCEPT !.pair = p, !.preview = None, !.applied = FALSE]
         \/ camp' = u \/ camp' = camp
  BY DEF OpenForm, CancelForm, ChoosePair, EffectStep, RunEffect, SettingsAnswer, SettingsFail
<1>. HIDE DEF u
<1>4. camp' \in CampaignShape /\ camp'.selected = camp.selected
  BY <1>1, <1>2, <1>3 DEF CampaignShape, OrNone
<1>. QED
  BY <1>3, <1>4, FormStep

-----------------------------------------------------------------------------
(* Signing in and out, and loading the page.                               *)

SessionPcs == {"config", "init", "owner", "campaigns", "ready"}

LEMMA SameTask ==
  ASSUME IInv, UNCHANGED <<task, clicks>>, page'.shared = page.shared
  PROVE  OnlyTask(0) /\ TaskOK(0)' /\ task' \in [Tasks -> TaskShape]
<1>1. TaskOK(0)
  BY Numbers DEF IInv
<1>. QED
  BY <1>1 DEF IInv, WorkspaceTypes, OnlyTask, TaskOK, Begun

(* The session goes, and all it showed.                                    *)
LEMMA ClearSessionIs ==
  ASSUME IInv, NEW pc \in SessionPcs, ClearSession(pc),
         page' \in PageShape, page'.shared = page.shared, UNCHANGED <<issuer, clicks, server>>,
         NEW i \in Tasks, OnlyTask(i), TaskOK(i)', task' \in [Tasks -> TaskShape],
         task'[0].pc # "idle" /\ ~page.shared => pc \in {"campaigns", "ready"}
  PROVE  IInv'
<1>1. /\ sess' \in SessionShape /\ sess'.pc = pc /\ sess'.token = 0 /\ sess'.owner = FALSE
      /\ stored' \in StoredShape /\ stored'.tokens = 0
      /\ guest' \in GuestShape /\ guest'.pc = guest.pc
  BY DEF ClearSession, WithoutSession, WithoutTokens, IInv, SessionTypes, SessionShape,
         StoredShape, GuestShape, OrNone, SessionPcs
<1>2. SessionTypes' /\ SessionInv'
  BY <1>1 DEF IInv, SessionTypes, SessionInv
<1>3. /\ ws' \in NotesShape /\ ws'.overview = None /\ camp' = NoCampaign
      /\ EditorOK(ws)'
  <2>1. ws' = WithoutNotes(ws) /\ ws \in NotesShape /\ EditorOK(ws)
    BY DEF ClearSession, IInv, WorkspaceTypes
  <2>. QED
    BY <2>1, WithoutNotesIs DEF ClearSession, EditorOK
<1>4. WorkspaceTypes'
  BY <1>3, Blanks DEF IInv, WorkspaceTypes
<1>5. ShownInv'
  BY <1>3, Blanks DEF ShownInv
<1>. QED
  BY <1>2, <1>3, <1>4, <1>5, Frame

LEMMA BootFailsKeeps ==
  ASSUME IInv, BootFails
  PROVE  IInv'
<1>1. /\ ClearSession("ready") /\ UNCHANGED <<page, issuer, task, clicks, server>>
      /\ "ready" \in SessionPcs /\ page' \in PageShape
  BY DEF BootFails, SessionPcs, IInv, SessionTypes
<1>. QED
  BY <1>1, SameTask, ClearSessionIs, Numbers

LEMMA RefreshFailsKeeps ==
  ASSUME IInv, NEW t \in Tokens, RefreshFails(t)
  PROVE  IInv'
<1>1. CASE UNCHANGED <<sess, stored, guest, ws, camp, links, page, issuer, task, clicks, server>>
  <2>1. SessionTypes' /\ SessionInv'
    BY <1>1, SameSession
  <2>. QED
    BY <1>1, <2>1, SessionStep DEF workspaceVars
<1>2. CASE ClearSession(sess.pc) /\ UNCHANGED <<page, issuer, task, clicks, server>>
  <2>1. /\ sess.pc \in SessionPcs /\ page' \in PageShape
        /\ task'[0].pc # "idle" /\ ~page.shared => sess.pc \in {"campaigns", "ready"}
    BY <1>2 DEF SessionPcs, IInv, SessionTypes, SessionShape, SessionInv
  <2>. QED
    BY <1>2, <2>1, SameTask, ClearSessionIs, Numbers
<1>. QED
  BY <1>1, <1>2 DEF RefreshFails

LEMMA LogoutKeeps ==
  ASSUME IInv, Logout
  PROVE  IInv'
<1>1. CASE /\ ClearSession(sess.pc) /\ page' = [page EXCEPT !.leaving = TRUE]
           /\ UNCHANGED <<refreshing, issuer, task, clicks, server>>
  <2>1. /\ sess.pc \in SessionPcs /\ page' \in PageShape /\ page'.shared = page.shared
        /\ task'[0].pc # "idle" /\ ~page.shared => sess.pc \in {"campaigns", "ready"}
    BY <1>1 DEF SessionPcs, IInv, SessionTypes, SessionShape, SessionInv, PageShape
  <2>. QED
    BY <1>1, <2>1, SameTask, ClearSessionIs, Numbers
<1>2. CASE /\ Loaded(FALSE, FALSE, [stored EXCEPT !.campaign = None, !.guest = 0])
           /\ Started /\ UNCHANGED issuer
  <2>1. [stored EXCEPT !.campaign = None, !.guest = 0] \in StoredShape
    BY DEF IInv, SessionTypes, StoredShape, OrNone
  <2>. QED
    BY <1>2, <2>1, LoadedIs
<1>. QED
  BY <1>1, <1>2 DEF Logout

LEMMA LoadsKeep ==
  ASSUME IInv, Reload \/ LeaveShared \/ Redirected
  PROVE  IInv'
<1>1. /\ stored \in StoredShape /\ page.shared \in BOOLEAN /\ page.callback \in BOOLEAN
      /\ (page.shared /\ page.callback) \in BOOLEAN
  BY DEF IInv, SessionTypes, PageShape
<1>2. CASE Reload
  BY <1>1, <1>2, LoadedIs DEF Reload
<1>3. CASE LeaveShared
  BY <1>1, <1>3, LoadedIs DEF LeaveShared
<1>4. CASE Redirected
  BY <1>1, <1>4, LoadedIs DEF Redirected
<1>. QED
  BY <1>2, <1>3, <1>4

(* The steps of the sign-in that the hooks of the workspace do not see.    *)
LEMMA SessionStepsKeep ==
  ASSUME IInv, UNCHANGED workspaceVars,
         \/ ConfigAnswers \/ InitSignsIn \/ InitFindsNone \/ GuestSessionFails
         \/ RefreshBegins \/ LeaveToSignIn \/ (OwnerAnswers /\ page.shared)
  PROVE  IInv'
<1>. SUFFICES SessionTypes' /\ SessionInv' /\ page'.shared = page.shared
  BY SessionStep
<1>. USE DEF IInv, SessionTypes, SessionInv, workspaceVars
<1>1. CASE ConfigAnswers
  BY <1>1 DEF ConfigAnswers, SessionShape
<1>2. CASE InitSignsIn
  <2>1. PICK n \in Nat : n = issuer.issued + 1
    BY DEF IssuerShape
  <2>2. /\ issuer' = [issuer EXCEPT !.issued = n] /\ stored' = [stored EXCEPT !.tokens = n]
        /\ page' = [page EXCEPT !.callback = FALSE] /\ sess' = [sess EXCEPT !.pc = "owner"]
        /\ UNCHANGED guest /\ sess.pc = "init"
    BY <1>2, <2>1 DEF InitSignsIn, Issue, Persist
  <2>. QED
    BY <2>2 DEF IssuerShape, StoredShape, PageShape, SessionShape
<1>3. CASE InitFindsNone
  BY <1>3 DEF InitFindsNone, WithoutTokens, StoredShape, SessionShape
<1>4. CASE GuestSessionFails
  BY <1>4 DEF GuestSessionFails, GuestShape
<1>5. CASE RefreshBegins
  BY <1>5 DEF RefreshBegins
<1>6. CASE LeaveToSignIn
  BY <1>6 DEF LeaveToSignIn, PageShape
<1>7. CASE OwnerAnswers /\ page.shared
  BY <1>7 DEF OwnerAnswers, SessionShape, StoredShape
<1>. QED
  BY <1>1, <1>2, <1>3, <1>4, <1>5, <1>6, <1>7

(* A refresh that is not cancelled began under the tokens of the session,  *)
(* which are stored.                                                       *)
LEMMA RefreshAnswersKeeps ==
  ASSUME IInv, NEW t \in Tokens, RefreshAnswers(t), UNCHANGED workspaceVars
  PROVE  IInv'
<1>. SUFFICES SessionTypes' /\ SessionInv' /\ page'.shared = page.shared
  BY SessionStep
<1>1. PICK n \in Nat : n = issuer.issued + 1 /\ n # 0
  BY DEF IInv, SessionTypes, IssuerShape
<1>2. /\ issuer' = [issuer EXCEPT !.issued = n] /\ UNCHANGED <<page, guest>>
      /\ \/ UNCHANGED <<stored, sess>>
         \/ /\ t = sess.token
            /\ stored' = [stored EXCEPT !.tokens = n] /\ sess' = [sess EXCEPT !.token = n]
  BY <1>1 DEF RefreshAnswers, Issue, Persist, Cancelled
<1>3. t # 0
  BY Numbers DEF Tokens
<1>4. SessionTypes'
  BY <1>2 DEF IInv, SessionTypes, IssuerShape, StoredShape, SessionShape
<1>5. SessionInv'
  BY <1>2, <1>3 DEF IInv, SessionTypes, SessionInv, StoredShape, SessionShape, workspaceVars
<1>. QED
  BY <1>2, <1>4, <1>5

(* The page's own task begins when the account has answered.               *)
LEMMA BootCampaignsKeeps ==
  ASSUME IInv, BootCampaigns
  PROVE  IInv'
<1>1. CASE page.shared
  <2>1. UNCHANGED workspaceVars /\ OwnerAnswers
    BY <1>1 DEF BootCampaigns, workspaceVars
  <2>. QED
    BY <1>1, <2>1, SessionStepsKeep
<1>2. CASE ~page.shared
  <2>. DEFINE t == Fresh("boot", "campaigns")
  <2>1. t \in TaskShape /\ t.op = "boot" /\ t.pc = "campaigns"
    BY FreshIs DEF Ops
  <2>2. /\ Begin(0, t) /\ UNCHANGED <<ws, camp, clicks, server, page, stored, guest, issuer>>
        /\ sess.pc = "owner"
        /\ sess' = [sess EXCEPT !.pc = "campaigns", !.token = stored.tokens, !.owner = TRUE]
    BY <1>2 DEF BootCampaigns, OwnerAnswers
  <2>. HIDE DEF t
  <2>3. task' \in [Tasks -> TaskShape] /\ OnlyTask(0) /\ task'[0] = t
    BY <2>1, <2>2, BeginIs, Numbers DEF IInv
  <2>4. SessionTypes' /\ SessionInv'
    BY <2>2 DEF IInv, SessionTypes, SessionInv, SessionShape, StoredShape
  <2>5. WorkspaceTypes' /\ EditorOK(ws)'
    BY <2>2, <2>3 DEF IInv, WorkspaceTypes
  <2>6. TaskOK(0)'
    <3>1. ~(0 > clicks')
      BY <2>2, Numbers DEF IInv, WorkspaceTypes
    <3>. QED
      BY <1>2, <2>1, <2>2, <2>3, <3>1 DEF TaskOK, Begun
  <2>7. ShownInv'
    BY <2>2, ShownKept
  <2>. QED
    BY <2>2, <2>3, <2>4, <2>5, <2>6, <2>7, Frame, Numbers
<1>. QED
  BY <1>1, <1>2

LEMMA GuestLoadsKeeps ==
  ASSUME IInv, GuestLoads
  PROVE  IInv'
<1>1. ws \in NotesShape /\ camp \in CampaignShape /\ page.shared
  BY DEF GuestLoads, GuestKnown, IInv, WorkspaceTypes, SessionInv
<1>2. PICK r \in Nat : r = ws.req + 1
  BY <1>1 DEF NotesShape
<1>. DEFINE t == [Fresh("boot", "load") EXCEPT !.req = r, !.campaign = Shared]
<1>3. /\ ws' = [ws EXCEPT !.req = @ + 1, !.loading = TRUE]
      /\ Begin(0, t) /\ UNCHANGED <<clicks, server, page, stored, sess, issuer>>
      /\ camp' = [camp EXCEPT !.selected = Shared, !.campaigns = {Shared}]
      /\ guest' = [guest EXCEPT !.pc = "load", !.shown = TRUE, !.member = TRUE,
                                !.token = guest.asked]
  BY <1>2 DEF GuestLoads, GuestKnown
<1>4. t \in TaskShape /\ t.op = "boot" /\ t.pc = "load" /\ t.campaign = Shared
  BY Numbers DEF Fresh, TaskShape, OrNone, Ops
<1>. HIDE DEF t
<1>5. task' \in [Tasks -> TaskShape] /\ OnlyTask(0) /\ task'[0] = t
  BY <1>3, <1>4, BeginIs, Numbers DEF IInv
<1>6. SessionTypes' /\ SessionInv'
  BY <1>1, <1>3 DEF IInv, SessionTypes, SessionInv, GuestShape
<1>7. ws' \in NotesShape /\ SameEditor(ws', ws) /\ ws'.req >= ws.req
  BY <1>1, <1>3, RequestIs
<1>8. EditorOK(ws)'
  BY <1>1, <1>7, EditorKept DEF IInv, NotesShape
<1>9. camp' \in CampaignShape /\ camp'.selected = Shared
  BY <1>1, <1>3, Numbers DEF CampaignShape, OrNone
<1>10. WorkspaceTypes'
  BY <1>3, <1>5, <1>7, <1>9 DEF IInv, WorkspaceTypes
<1>11. TaskOK(0)'
  <2>1. ~(0 > clicks')
    BY <1>3, Numbers DEF IInv, WorkspaceTypes
  <2>. QED
    BY <1>4, <1>5, <2>1 DEF TaskOK, Begun
<1>12. ShownInv'
  BY <1>1, <1>3, <1>7, <1>9 DEF IInv, ShownInv, SameEditor
<1>. QED
  BY <1>3, <1>5, <1>6, <1>8, <1>10, <1>11, <1>12, Frame, Numbers

LEMMA GuestMustJoinKeeps ==
  ASSUME IInv, GuestMustJoin
  PROVE  IInv'
<1>1. ws \in NotesShape /\ camp \in CampaignShape /\ page.shared /\ EditorOK(ws)
  BY DEF GuestMustJoin, GuestUnknown, IInv, WorkspaceTypes, SessionInv
<1>2. /\ ws' = [ws EXCEPT !.overview = None, !.list = {}, !.selected = None, !.text = None,
                          !.creating = FALSE]
      /\ UNCHANGED <<task, clicks, server, page, sess, issuer>>
      /\ camp' = [camp EXCEPT !.selected = Shared, !.campaigns = {Shared}]
      /\ guest' = [guest EXCEPT !.pc = "ready", !.shown = TRUE, !.member = FALSE, !.token = 0]
      /\ stored' = [stored EXCEPT !.guest = 0]
  BY DEF GuestMustJoin, GuestUnknown
<1>3. SessionTypes' /\ SessionInv'
  BY <1>1, <1>2 DEF IInv, SessionTypes, SessionInv, GuestShape, StoredShape
<1>4. ws' \in NotesShape /\ EditorOK(ws)' /\ ws'.overview = None
  BY <1>1, <1>2 DEF NotesShape, EditorOK, OrNone
<1>5. camp' \in CampaignShape /\ camp'.selected = Shared
  BY <1>1, <1>2, Numbers DEF CampaignShape, OrNone
<1>6. OnlyTask(0) /\ TaskOK(0)' /\ task' \in [Tasks -> TaskShape]
  BY <1>2, SameTask
<1>7. WorkspaceTypes'
  BY <1>2, <1>4, <1>5, <1>6 DEF IInv, WorkspaceTypes
<1>8. ShownInv'
  BY <1>4, <1>5 DEF ShownInv
<1>. QED
  BY <1>2, <1>3, <1>4, <1>6, <1>7, <1>8, Frame, Numbers

-----------------------------------------------------------------------------
(* Steps of a task.                                                        *)

LEMMA BegunIs ==
  ASSUME IInv, NEW i \in Tasks, Begun(i)
  PROVE  /\ ~(i > clicks) /\ TaskOK(i) /\ task[i] \in TaskShape
         /\ i = 0 => task[i].op = "boot"
         /\ i = 0 /\ ~page.shared => sess.pc \in {"campaigns", "ready"}
BY DEF IInv, TaskOK, Begun, WorkspaceTypes, SessionInv

(* A step of a task that shows no other campaign.                          *)
LEMMA TaskMoves ==
  ASSUME IInv, NEW i \in Tasks, UNCHANGED <<page, clicks>>, SessionTypes', SessionInv',
         OnlyTask(i), task' \in [Tasks -> TaskShape], TaskOK(i)',
         ws' \in NotesShape, EditorOK(ws)', ws'.overview \in {ws.overview, None},
         ws'.overview # None => ws'.strays = ws.strays,
         camp' \in CampaignShape, camp'.selected = camp.selected, server' \in ServerShape
  PROVE  IInv'
<1>1. WorkspaceTypes'
  BY DEF IInv, WorkspaceTypes
<1>3. ShownInv'
  BY ShownKept
<1>. QED
  BY <1>1, <1>3, Frame

(* The session is not touched, and the page's own task does not begin.     *)
LEMMA SessionOfTask ==
  ASSUME IInv, NEW i \in Tasks, Begun(i), OnlyTask(i),
         UNCHANGED <<page, stored, sess, guest, issuer>>
  PROVE  SessionTypes' /\ SessionInv'
<1>1. task'[0].pc # "idle" => task[0].pc # "idle"
  BY Numbers DEF OnlyTask, Begun
<1>. QED
  BY <1>1, SameSession

(* A handler that is over.                                                 *)
LEMMA EndsOK ==
  ASSUME IInv, NEW i \in Tasks, Begun(i), Ends(i), UNCHANGED <<page, clicks>>
  PROVE  /\ task' \in [Tasks -> TaskShape] /\ OnlyTask(i) /\ TaskOK(i)'
<1>1. /\ task' \in [Tasks -> TaskShape] /\ OnlyTask(i)
      /\ task'[i].pc = "done" /\ task'[i].op = "boot"
  BY EndsIs DEF IInv
<1>3. TaskOK(i)'
  BY <1>1, BegunIs DEF TaskOK, Begun
<1>. QED
  BY <1>1, <1>3

(* The last of the start: the session or the guest is ready.               *)
LEMMA LoadReturnsIs ==
  ASSUME IInv, NEW i \in Tasks, Begun(i), LoadReturns(i), UNCHANGED <<page, issuer, clicks>>,
         stored' \in StoredShape, stored'.tokens = stored.tokens
  PROVE  /\ SessionTypes' /\ SessionInv'
         /\ task' \in [Tasks -> TaskShape] /\ OnlyTask(i) /\ TaskOK(i)'
<1>1. /\ task' \in [Tasks -> TaskShape] /\ OnlyTask(i) /\ TaskOK(i)'
  BY EndsOK DEF LoadReturns
<1>2. /\ sess' = IF i = 0 /\ ~page.shared THEN [sess EXCEPT !.pc = "ready"] ELSE sess
      /\ guest' = IF i = 0 /\ page.shared THEN [guest EXCEPT !.pc = "ready"] ELSE guest
  BY DEF LoadReturns, StartupReturned
<1>3. SessionTypes'
  BY <1>2 DEF IInv, SessionTypes, SessionShape, GuestShape
<1>4. task'[0].pc # "idle" => task[0].pc # "idle"
  BY <1>1, Numbers DEF OnlyTask, Begun
<1>5. i = 0 /\ ~page.shared => sess.pc \in {"campaigns", "ready"}
  BY BegunIs
<1>6. SessionInv'
  BY <1>2, <1>4, <1>5 DEF IInv, SessionTypes, SessionInv, SessionShape, GuestShape
<1>. QED
  BY <1>1, <1>3, <1>6

LEMMA ReturnedIs ==
  ASSUME NEW i, NEW c \in CampaignShape
  PROVE  Returned(i, c) \in CampaignShape /\ Returned(i, c).selected = c.selected
BY DEF Returned, CampaignShape

LEMMA LoadEndsKeep ==
  ASSUME IInv, NEW i \in Tasks, LoadStale(i) \/ LoadFails(i)
  PROVE  IInv'
<1>1. /\ Begun(i) /\ LoadReturns(i) /\ camp' = Returned(i, camp)
      /\ UNCHANGED <<page, stored, issuer, clicks, server>>
      /\ ws' = ws \/ ws' = [ws EXCEPT !.loading = FALSE]
  BY DEF LoadStale, LoadFails, Begun
<1>2. /\ ws \in NotesShape /\ camp \in CampaignShape /\ stored \in StoredShape
      /\ EditorOK(ws) /\ server' \in ServerShape
  BY <1>1 DEF IInv, WorkspaceTypes, SessionTypes
<1>3. ws' \in NotesShape /\ EditorOK(ws)' /\ ws'.overview = ws.overview /\ ws'.strays = ws.strays
  BY <1>1, <1>2 DEF NotesShape, EditorOK
<1>4. camp' \in CampaignShape /\ camp'.selected = camp.selected
  BY <1>1, <1>2, ReturnedIs
<1>5. /\ SessionTypes' /\ SessionInv'
      /\ task' \in [Tasks -> TaskShape] /\ OnlyTask(i) /\ TaskOK(i)'
  BY <1>1, <1>2, LoadReturnsIs
<1>. QED
  BY <1>1, <1>2, <1>3, <1>4, <1>5, TaskMoves

-----------------------------------------------------------------------------
(* An answer to the latest request is shown.                               *)

LEMMA ResolvedIs ==
  ASSUME NEW i, NEW seen \in SUBSET Notes, NEW s, NEW named \in SUBSET Notes
  PROVE  Resolved(i, seen, s, named) \subseteq OrNone(Notes)
<1>1. FirstOf(named) \subseteq OrNone(Notes)
  BY DEF FirstOf, OrNone
<1>. QED
  BY <1>1 DEF Resolved, OrNone

LEMMA ShowsIs ==
  ASSUME IInv, NEW i \in Tasks, NEW seen \in SUBSET Notes, NEW s \in OrNone(Sessions),
         NEW named \in SUBSET Notes, NEW n \in OrNone(Notes), Begun(i), Current(i),
         NEW v, v = Shows(i, n, seen, s, named)
  PROVE  /\ v \in NotesShape /\ EditorOK(v) /\ v.overview = task[i].campaign
         /\ v.shown = ws.req /\ v.req = ws.req
         /\ v.strays <=> (SavesNotes(task[i].op) /\ task[i].campaign # camp.selected)
<1>1. /\ ws \in NotesShape /\ task[i].campaign \in OrNone(Campaigns)
      /\ task[i].req = ws.req /\ ws.req \in Nat
  BY DEF IInv, WorkspaceTypes, TaskShape, NotesShape, Current
<1>. DEFINE k == n = None /\ (page.shared => issuer.editor /\ ~SavesNotes(task[i].op))
            a == IF page.shared THEN ws.session ELSE s
            b == IF page.shared THEN ws.sessionNotes ELSE named
            d == SavesNotes(task[i].op) /\ task[i].campaign # camp.selected
<1>2. v = [ws EXCEPT !.overview = task[i].campaign, !.list = seen, !.session = a,
                     !.sessionNotes = b, !.selected = n, !.text = n, !.loading = FALSE,
                     !.shown = ws.req, !.strays = d, !.creating = k]
  BY <1>1 DEF Shows
<1>3. k \in BOOLEAN /\ (k => n = None) /\ d \in BOOLEAN
  BY DEF IInv, SessionTypes, IssuerShape, PageShape
<1>4. a \in OrNone(Sessions) /\ b \in SUBSET Notes
  BY <1>1 DEF NotesShape
<1>8. d <=> (SavesNotes(task[i].op) /\ task[i].campaign # camp.selected)
  OBVIOUS
<1>. HIDE DEF k, a, b, d
<1>5. v \in NotesShape
  BY <1>1, <1>2, <1>3, <1>4 DEF NotesShape
<1>6. /\ v.overview = task[i].campaign /\ v.shown = ws.req /\ v.req = ws.req
      /\ v.selected = n /\ v.text = n /\ v.creating = k /\ v.strays = d
  BY <1>1, <1>2 DEF NotesShape
<1>7. EditorOK(v)
  BY <1>1, <1>3, <1>6 DEF EditorOK
<1>. QED
  BY <1>5, <1>6, <1>7, <1>8

LEMMA ShowWorkspaceKeeps ==
  ASSUME IInv, NEW i \in Tasks, NEW seen \in SUBSET Notes, NEW s \in OrNone(Sessions),
         NEW named \in SUBSET Notes, Begun(i), Current(i), ShowWorkspace(i, seen, s, named)
  PROVE  IInv'
<1>1. /\ UNCHANGED <<page, issuer, clicks, server>>
      /\ camp' = Returned(i, Selects(i, camp)) /\ stored' = Remembers(i)
  BY DEF ShowWorkspace
<1>2. PICK n \in OrNone(Notes) :
         ws' = IF ActivityNext(i)
               THEN [Shows(i, n, seen, s, named) EXCEPT !.entries = {}, !.activityTask = i]
               ELSE Shows(i, n, seen, s, named)
  BY ResolvedIs DEF ShowWorkspace
<1>3. PICK v : v = Shows(i, n, seen, s, named)
  OBVIOUS
<1>4. /\ v \in NotesShape /\ EditorOK(v) /\ v.overview = task[i].campaign
      /\ v.shown = ws.req /\ v.req = ws.req
      /\ v.strays <=> (SavesNotes(task[i].op) /\ task[i].campaign # camp.selected)
  BY <1>3, ShowsIs
<1>5. ws' = v \/ ws' = [v EXCEPT !.entries = {}, !.activityTask = i]
  BY <1>2, <1>3
<1>6. /\ ws' \in NotesShape /\ EditorOK(ws)' /\ ws'.overview = task[i].campaign
      /\ ws'.strays <=> (SavesNotes(task[i].op) /\ task[i].campaign # camp.selected)
  BY <1>4, <1>5 DEF NotesShape, EditorOK, OrNone
<1>7. /\ camp \in CampaignShape /\ task[i] \in TaskShape /\ task[i].campaign \in OrNone(Campaigns)
      /\ stored \in StoredShape
  BY DEF IInv, WorkspaceTypes, SessionTypes, TaskShape
<1>8. /\ camp' \in CampaignShape
      /\ camp'.selected = IF SavesNotes(task[i].op) THEN camp.selected ELSE task[i].campaign
  <2>. DEFINE c == Selects(i, camp)
  <2>1. /\ c \in CampaignShape
        /\ c.selected = IF SavesNotes(task[i].op) THEN camp.selected ELSE task[i].campaign
    BY <1>7 DEF Selects, CampaignShape
  <2>2. camp' = Returned(i, c)
    BY <1>1
  <2>. HIDE DEF c
  <2>. QED
    BY <2>1, <2>2, ReturnedIs
<1>9. stored' \in StoredShape /\ stored'.tokens = stored.tokens
  BY <1>1, <1>7 DEF Remembers, StoredShape
<1>10. /\ SessionTypes' /\ SessionInv'
       /\ task' \in [Tasks -> TaskShape] /\ OnlyTask(i) /\ TaskOK(i)'
  <2>1. CASE LoadReturns(i)
    BY <1>1, <1>9, <2>1, LoadReturnsIs
  <2>2. CASE /\ ActivityNext(i) /\ task' = [task EXCEPT ![i].pc = "fetch", ![i].seen = {}]
             /\ UNCHANGED <<sess, guest>>
    <3>1. [task[i] EXCEPT !.pc = "fetch", !.seen = {}] \in TaskShape
      BY <1>7 DEF TaskShape
    <3>2. /\ task' \in [Tasks -> TaskShape] /\ OnlyTask(i)
          /\ task'[i].op = task[i].op /\ task'[i].pc = "fetch"
          /\ task'[i].campaign = task[i].campaign
      BY <1>7, <2>2, <3>1 DEF IInv, WorkspaceTypes, OnlyTask, TaskShape
    <3>3. SavesNotes(task[i].op) /\ ~page.shared /\ task[i].op # "join"
      BY <2>2 DEF ActivityNext, SavesNotes
    <3>4. TaskOK(i)'
      BY <1>1, <3>2, <3>3, BegunIs DEF TaskOK, Begun
    <3>6. task'[0].pc # "idle" => task[0].pc # "idle"
      BY <3>2, Numbers DEF OnlyTask, Begun
    <3>7. SessionTypes' /\ SessionInv'
      BY <1>1, <1>9, <2>2, <3>6 DEF IInv, SessionTypes, SessionInv
    <3>. QED
      BY <3>2, <3>4, <3>7
  <2>. QED
    BY <2>1, <2>2 DEF ShowWorkspace
<1>11. WorkspaceTypes'
  BY <1>1, <1>6, <1>8, <1>10 DEF IInv, WorkspaceTypes
<1>12. ShownInv'
  <2>2. page.shared => task[i].campaign = Shared /\ camp.selected \in {None, Shared}
    BY DEF IInv, TaskOK, ShownInv
  <2>. QED
    BY <1>1, <1>6, <1>8, <2>2 DEF ShownInv
<1>. QED
  BY <1>1, <1>6, <1>10, <1>11, <1>12, Frame

LEMMA NotesOfIs == NotesOf(None) \subseteq Notes /\ \A c : NotesOf(c) \subseteq Notes
BY DEF NotesOf

LEMMA LoadAnswersKeeps ==
  ASSUME IInv, NEW i \in Tasks, LoadAnswers(i)
  PROVE  IInv'
<1>. DEFINE seen == NotesOf(task[i].campaign)
<1>1. Begun(i) /\ Current(i) /\ seen \in SUBSET Notes
  BY NotesOfIs DEF LoadAnswers, Begun
<1>2. CASE ShowWorkspace(i, seen, None, {})
  <2>1. None \in OrNone(Sessions) /\ {} \in SUBSET Notes
    BY DEF OrNone
  <2>. HIDE DEF seen
  <2>. QED
    BY <1>1, <1>2, <2>1, ShowWorkspaceKeeps
<1>3. CASE /\ task' = [task EXCEPT ![i].pc = "names", ![i].seen = seen, ![i].session = ws.session]
           /\ UNCHANGED <<sessionVars, ws, camp, links, clicks, server>>
  <2>1. /\ task[i] \in TaskShape /\ ws \in NotesShape /\ ws.session \in OrNone(Sessions)
        /\ camp \in CampaignShape /\ server \in ServerShape /\ task[i].pc = "load"
    BY <1>3 DEF IInv, WorkspaceTypes, NotesShape, LoadAnswers
  <2>. HIDE DEF seen
  <2>2. [task[i] EXCEPT !.pc = "names", !.seen = seen, !.session = ws.session] \in TaskShape
    BY <1>1, <2>1 DEF TaskShape
  <2>3. /\ task' \in [Tasks -> TaskShape] /\ OnlyTask(i)
        /\ task'[i].op = task[i].op /\ task'[i].pc = "names"
        /\ task'[i].campaign = task[i].campaign
    BY <1>3, <2>1, <2>2 DEF IInv, WorkspaceTypes, OnlyTask, TaskShape
  <2>4. TaskOK(i)'
    BY <1>1, <1>3, <2>3, BegunIs DEF TaskOK, Begun, sessionVars
  <2>5. SessionTypes' /\ SessionInv'
    BY <1>1, <1>3, <2>3, SessionOfTask DEF sessionVars
  <2>6. EditorOK(ws)'
    BY <1>3 DEF IInv
  <2>. QED
    BY <1>3, <2>1, <2>3, <2>4, <2>5, <2>6, TaskMoves DEF sessionVars
<1>. QED
  BY <1>2, <1>3 DEF LoadAnswers

LEMMA NamesAnswerKeeps ==
  ASSUME IInv, NEW i \in Tasks, NamesAnswer(i)
  PROVE  IInv'
<1>. DEFINE named == {n \in NotesOf(task[i].campaign) : SessionOf[n] = task[i].session}
<1>1. /\ Begun(i) /\ Current(i) /\ named \in SUBSET Notes
      /\ task[i].seen \in SUBSET Notes /\ task[i].session \in OrNone(Sessions)
  BY NotesOfIs DEF NamesAnswer, Begun, IInv, WorkspaceTypes, TaskShape
<1>2. ShowWorkspace(i, task[i].seen, task[i].session, named)
  BY DEF NamesAnswer
<1>. HIDE DEF named
<1>. QED
  BY <1>1, <1>2, ShowWorkspaceKeeps

-----------------------------------------------------------------------------
(* The campaigns of the account.                                           *)

LEMMA CampaignsAnswerKeeps ==
  ASSUME IInv, NEW i \in Tasks, CampaignsAnswer(i)
  PROVE  IInv'
<1>1. /\ Begun(i) /\ task[i].pc = "campaigns" /\ UNCHANGED <<page, stored, issuer, clicks, server>>
  BY DEF CampaignsAnswer, Begun
<1>2. /\ ws \in NotesShape /\ camp \in CampaignShape /\ server \in ServerShape
      /\ stored \in StoredShape /\ EditorOK(ws) /\ task[i] \in TaskShape
  BY DEF IInv, WorkspaceTypes, SessionTypes
<1>3. ~page.shared /\ task[i].op # "join"
  BY <1>1 DEF IInv, TaskOK
<1>4. CASE server.campaigns = {}
  <2>. DEFINE c == [camp EXCEPT !.campaigns = {}, !.selected = None, !.form = "create"]
              u == NoActivity(NoSession(ws))
  <2>1. /\ camp' = Returned(i, c) /\ LoadReturns(i)
        /\ ws' = [u EXCEPT !.overview = None, !.list = {}, !.selected = None]
    BY <1>4 DEF CampaignsAnswer
  <2>2. c \in CampaignShape /\ c.selected = None
    BY <1>2 DEF CampaignShape, OrNone
  <2>3. u \in NotesShape /\ SameEditor(u, ws) /\ u.req = ws.req
    BY <1>2, NoSessionIs, NoActivityIs DEF SameEditor
  <2>. HIDE DEF c, u
  <2>4. camp' \in CampaignShape /\ camp'.selected = None
    BY <2>1, <2>2, ReturnedIs
  <2>5. ws' \in NotesShape /\ EditorOK(ws)' /\ ws'.overview = None
    BY <1>2, <2>1, <2>3 DEF NotesShape, EditorOK, OrNone, SameEditor
  <2>6. /\ SessionTypes' /\ SessionInv'
        /\ task' \in [Tasks -> TaskShape] /\ OnlyTask(i) /\ TaskOK(i)'
    BY <1>1, <1>2, <2>1, LoadReturnsIs
  <2>7. WorkspaceTypes' /\ ShownInv'
    BY <1>1, <2>4, <2>5, <2>6 DEF IInv, WorkspaceTypes, ShownInv
  <2>. QED
    BY <1>1, <2>5, <2>6, <2>7, Frame
<1>5. CASE server.campaigns # {}
  <2>1. PICK c \in OrNone(Campaigns) : StartLoad(i, ws, c, None)
    BY <1>2, <1>5 DEF CampaignsAnswer, FirstOf, ServerShape, OrNone
  <2>2. UNCHANGED <<sess, guest>> /\ camp' = [camp EXCEPT !.campaigns = server.campaigns]
    BY <1>5 DEF CampaignsAnswer
  <2>3. None \in OrNone(Notes)
    BY DEF OrNone
  <2>4. /\ ws' \in NotesShape /\ SameEditor(ws', ws) /\ ws'.req = ws.req + 1
        /\ task' \in [Tasks -> TaskShape] /\ OnlyTask(i)
        /\ task'[i].op = task[i].op /\ task'[i].pc = "load"
        /\ task'[i].campaign = c
    BY <1>2, <2>1, <2>3, StartLoadIs DEF IInv
  <2>5. camp' \in CampaignShape /\ camp'.selected = camp.selected
    BY <1>2, <2>2 DEF CampaignShape, ServerShape
  <2>6. EditorOK(ws)' /\ ws'.overview = ws.overview /\ ws'.strays = ws.strays
    BY <1>2, <2>4, EditorKept DEF NotesShape, SameEditor
  <2>7. TaskOK(i)'
    BY <1>1, <1>3, <2>4, BegunIs DEF TaskOK, Begun
  <2>8. SessionTypes' /\ SessionInv'
    BY <1>1, <2>2, <2>4, SessionOfTask
  <2>. QED
    BY <1>1, <1>2, <2>4, <2>5, <2>6, <2>7, <2>8, TaskMoves
<1>. QED
  BY <1>4, <1>5

LEMMA CampaignsFailKeeps ==
  ASSUME IInv, NEW i \in Tasks, CampaignsFail(i)
  PROVE  IInv'
<1>1. Begun(i) /\ Ends(i) /\ UNCHANGED <<page, issuer, clicks, server>>
  BY DEF CampaignsFail, Begun
<1>2. /\ task' \in [Tasks -> TaskShape] /\ OnlyTask(i) /\ TaskOK(i)'
  BY <1>1, EndsOK
<1>3. CASE ClearSession("ready")
  <2>1. "ready" \in SessionPcs /\ page' \in PageShape
    BY <1>1 DEF SessionPcs, IInv, SessionTypes
  <2>. QED
    BY <1>1, <1>2, <1>3, <2>1, ClearSessionIs
<1>4. CASE UNCHANGED <<sess, stored, guest, ws, camp, links>>
  <2>1. SessionTypes' /\ SessionInv'
    BY <1>1, <1>2, <1>4, SessionOfTask
  <2>2. /\ ws' \in NotesShape /\ EditorOK(ws)' /\ ws'.overview = ws.overview /\ ws'.strays = ws.strays
        /\ camp' \in CampaignShape /\ camp'.selected = camp.selected /\ server' \in ServerShape
    BY <1>1, <1>4 DEF IInv, WorkspaceTypes
  <2>. QED
    BY <1>1, <1>2, <2>1, <2>2, TaskMoves
<1>. QED
  BY <1>3, <1>4 DEF CampaignsFail

-----------------------------------------------------------------------------
(* A handler ends, and neither the selected campaign nor the server's      *)
(* state changes.                                                          *)

LEMMA EndStep ==
  ASSUME IInv, NEW i \in Tasks, Begun(i), Ends(i), UNCHANGED <<page, clicks, server>>,
         UNCHANGED <<sess, issuer>>, stored' \in StoredShape, guest' \in GuestShape,
         stored'.tokens = stored.tokens, guest'.pc = guest.pc,
         ws' \in NotesShape, EditorOK(ws)', ws'.overview = ws.overview /\ ws'.strays = ws.strays,
         camp' \in CampaignShape, camp'.selected = camp.selected
  PROVE  IInv'
<1>1. /\ task' \in [Tasks -> TaskShape] /\ OnlyTask(i) /\ TaskOK(i)'
  BY EndsOK
<1>2. task'[0].pc # "idle" => task[0].pc # "idle"
  BY <1>1, Numbers DEF OnlyTask, Begun
<1>3. SessionTypes' /\ SessionInv' /\ server' \in ServerShape
  BY <1>2 DEF IInv, SessionTypes, SessionInv, WorkspaceTypes
<1>. QED
  BY <1>1, <1>3, TaskMoves

LEMMA SessionIsTyped ==
  ASSUME IInv, UNCHANGED sessionVars
  PROVE  /\ stored' \in StoredShape /\ guest' \in GuestShape
         /\ stored'.tokens = stored.tokens /\ guest'.pc = guest.pc
         /\ UNCHANGED <<page, sess, issuer>>
BY DEF IInv, SessionTypes, sessionVars

LEMMA HooksAreTyped ==
  ASSUME IInv
  PROVE  /\ ws \in NotesShape /\ EditorOK(ws) /\ camp \in CampaignShape /\ server \in ServerShape
         /\ \A i \in Tasks : task[i] \in TaskShape
BY DEF IInv, WorkspaceTypes

LEMMA SessionAnswersKeeps ==
  ASSUME IInv, NEW i \in Tasks, SessionAnswers(i)
  PROVE  IInv'
<1>. DEFINE named == {n \in NotesOf(task[i].campaign) : SessionOf[n] = task[i].session}
            w == [ws EXCEPT !.sessionNotes = named, !.sessionTask = None]
<1>1. Begun(i) /\ Ends(i) /\ UNCHANGED <<sessionVars, camp, clicks, server>>
  BY DEF SessionAnswers, Begun
<1>2. named \in SUBSET Notes
  BY NotesOfIs
<1>3. \/ ws' = w
      \/ \E n \in named : ws' = [w EXCEPT !.selected = n, !.text = n, !.creating = FALSE]
  BY DEF SessionAnswers, FirstOf
<1>. HIDE DEF named
<1>4. w \in NotesShape /\ SameEditor(w, ws) /\ w.req = ws.req
  BY <1>2, HooksAreTyped DEF NotesShape, SameEditor, OrNone
<1>. HIDE DEF w
<1>5. ws' \in NotesShape /\ EditorOK(ws)' /\ ws'.overview = ws.overview /\ ws'.strays = ws.strays
  <2>1. EditorOK(w) /\ w.overview = ws.overview /\ w.strays = ws.strays
    BY <1>4, HooksAreTyped DEF EditorOK, SameEditor
  <2>2. CASE ws' = w
    BY <1>4, <2>1, <2>2
  <2>3. CASE \E n \in named : ws' = [w EXCEPT !.selected = n, !.text = n, !.creating = FALSE]
    <3>1. PICK n \in Notes : ws' = [w EXCEPT !.selected = n, !.text = n, !.creating = FALSE]
      BY <1>2, <2>3
    <3>2. /\ ws' \in NotesShape /\ ws'.overview = w.overview /\ ws'.strays = w.strays
          /\ ws'.selected = n /\ ws'.text = n /\ ws'.creating = FALSE
          /\ ws'.shown = w.shown /\ ws'.req = w.req
      BY <1>4, <3>1 DEF NotesShape, OrNone
    <3>. QED
      BY <2>1, <3>2, Numbers DEF EditorOK
  <2>. QED
    BY <1>3, <2>2, <2>3
<1>. QED
  BY <1>1, <1>5, EndStep, SessionIsTyped, HooksAreTyped

LEMMA FetchesKeep ==
  ASSUME IInv, NEW i \in Tasks, ActivityAnswers(i) \/ FetchFails(i)
  PROVE  IInv'
<1>. DEFINE seen == NotesOf(task[i].campaign)
<1>1. Begun(i) /\ Ends(i) /\ UNCHANGED <<sessionVars, camp, clicks, server>>
  BY DEF ActivityAnswers, FetchFails, Begun
<1>2. seen \in SUBSET Notes
  BY NotesOfIs
<1>3. \/ ws' = [ws EXCEPT !.entries = seen, !.activityTask = None]
      \/ ws' = NoSession(ws) \/ ws' = NoActivity(ws) \/ ws' = ws
  BY DEF ActivityAnswers, FetchFails
<1>. HIDE DEF seen
<1>4. ws' \in NotesShape /\ SameEditor(ws', ws) /\ ws'.req = ws.req
  <2>1. CASE ws' = [ws EXCEPT !.entries = seen, !.activityTask = None]
    BY <1>2, <2>1, HooksAreTyped DEF NotesShape, SameEditor, OrNone
  <2>. QED
    BY <1>3, <2>1, HooksAreTyped, NoSessionIs, NoActivityIs DEF SameEditor
<1>5. EditorOK(ws)' /\ ws'.overview = ws.overview /\ ws'.strays = ws.strays
  BY <1>4, HooksAreTyped DEF EditorOK, SameEditor
<1>. QED
  BY <1>1, <1>4, <1>5, EndStep, SessionIsTyped, HooksAreTyped

(* Answers that are of no note.                                            *)
LEMMA AnswersKeep ==
  ASSUME IInv, NEW i \in Tasks,
         Previewed(i) \/ ShareLinkAnswers(i) \/ CallFails(i)
  PROVE  IInv'
<1>1. Begun(i) /\ Ends(i) /\ UNCHANGED <<sessionVars, ws, clicks, server>>
  BY DEF Previewed, ShareLinkAnswers, CallFails, Served, Begun
<1>2. \/ camp' = [camp EXCEPT !.preview = task[i].pair, !.applied = FALSE, !.previewing = FALSE]
      \/ camp' = [camp EXCEPT !.previewing = FALSE]
      \/ camp' = [camp EXCEPT !.applying = FALSE] \/ camp' = camp
  BY DEF Previewed, ShareLinkAnswers, CallFails
<1>3. camp' \in CampaignShape /\ camp'.selected = camp.selected
  BY <1>2, HooksAreTyped DEF CampaignShape, TaskShape
<1>4. ws' \in NotesShape /\ EditorOK(ws)' /\ ws'.overview = ws.overview /\ ws'.strays = ws.strays
  BY <1>1, HooksAreTyped
<1>. QED
  BY <1>1, <1>3, <1>4, EndStep, SessionIsTyped

LEMMA ClaimedKeeps ==
  ASSUME IInv, NEW i \in Tasks, Claimed(i)
  PROVE  IInv'
<1>1. Begun(i) /\ Ends(i) /\ UNCHANGED <<page, sess, issuer, ws, camp, clicks, server>>
  BY DEF Claimed, Served, Begun
<1>2. /\ stored' = [stored EXCEPT !.guest = issuer.guests, !.campaign = Shared]
      /\ guest' = [guest EXCEPT !.token = issuer.guests, !.linked = TRUE]
  BY DEF Claimed, ClaimAnswered
<1>3. /\ stored' \in StoredShape /\ guest' \in GuestShape
      /\ stored'.tokens = stored.tokens /\ guest'.pc = guest.pc
  BY <1>2, Numbers DEF IInv, SessionTypes, StoredShape, GuestShape, IssuerShape, OrNone
<1>4. ws' \in NotesShape /\ EditorOK(ws)' /\ ws'.overview = ws.overview /\ ws'.strays = ws.strays
  BY <1>1, HooksAreTyped
<1>5. camp' \in CampaignShape /\ camp'.selected = camp.selected
  BY <1>1, HooksAreTyped
<1>. QED
  BY <1>1, <1>3, <1>4, <1>5, EndStep

-----------------------------------------------------------------------------
(* A handler goes on.                                                      *)

(* It loads the workspace, of the campaign it is of.                       *)
LEMMA LoadBegins ==
  ASSUME IInv, NEW i \in Tasks, task[i].pc = "served", NEW w \in NotesShape, SameEditor(w, ws),
         w.req = ws.req, NEW c \in OrNone(Campaigns), page.shared => c = Shared,
         NEW n \in OrNone(Notes), StartLoad(i, w, c, n), UNCHANGED <<page, clicks>>
  PROVE  /\ ws' \in NotesShape /\ EditorOK(ws)' /\ ws'.overview = ws.overview /\ ws'.strays = ws.strays
         /\ task' \in [Tasks -> TaskShape] /\ OnlyTask(i) /\ TaskOK(i)'
<1>1. /\ ws' \in NotesShape /\ SameEditor(ws', w) /\ ws'.req = w.req + 1
      /\ task' \in [Tasks -> TaskShape] /\ OnlyTask(i)
      /\ task'[i].op = task[i].op /\ task'[i].pc = "load"
      /\ task'[i].campaign = c
  BY StartLoadIs DEF IInv
<1>2. SameEditor(ws', ws) /\ ws'.req >= ws.req /\ ws'.req \in Nat
  BY <1>1, HooksAreTyped DEF SameEditor, NotesShape
<1>3. EditorOK(ws)' /\ ws'.overview = ws.overview /\ ws'.strays = ws.strays
  BY <1>2, HooksAreTyped, EditorKept DEF SameEditor
<1>4. Begun(i)
  BY DEF Begun
<1>5. TaskOK(i)'
  BY <1>1, <1>4, BegunIs DEF TaskOK, Begun
<1>. QED
  BY <1>1, <1>3, <1>4, <1>5

LEMMA CampaignOfTask ==
  ASSUME IInv, NEW i \in Tasks, Begun(i)
  PROVE  /\ task[i].campaign \in OrNone(Campaigns) /\ task[i].note \in OrNone(Notes)
         /\ page.shared => task[i].campaign = Shared
BY DEF IInv, WorkspaceTypes, TaskShape, TaskOK

LEMMA NoteWrittenKeeps ==
  ASSUME IInv, NEW i \in Tasks, NoteWritten(i)
  PROVE  IInv'
<1>. DEFINE u == NoSession(ws)
            v == [u EXCEPT !.browse = "notes"]
            w == IF task[i].op = "capture" /\ ~page.shared THEN v ELSE ws
<1>1. /\ task[i].pc = "served" /\ Begun(i) /\ StartLoad(i, w, task[i].campaign, task[i].note)
      /\ UNCHANGED <<sessionVars, camp, clicks, server>>
  BY DEF NoteWritten, Served, Begun
<1>2. u \in NotesShape /\ SameEditor(u, ws) /\ u.req = ws.req
  BY NoSessionIs, HooksAreTyped
<1>. HIDE DEF u
<1>3. v \in NotesShape /\ SameEditor(v, ws) /\ v.req = ws.req
  BY <1>2 DEF NotesShape, SameEditor
<1>. HIDE DEF v
<1>4. w \in NotesShape /\ SameEditor(w, ws) /\ w.req = ws.req
  BY <1>3, HooksAreTyped DEF SameEditor
<1>. HIDE DEF w
<1>5. /\ ws' \in NotesShape /\ EditorOK(ws)' /\ ws'.overview = ws.overview /\ ws'.strays = ws.strays
      /\ task' \in [Tasks -> TaskShape] /\ OnlyTask(i) /\ TaskOK(i)'
  BY <1>1, <1>4, CampaignOfTask, LoadBegins DEF sessionVars
<1>6. SessionTypes' /\ SessionInv'
  BY <1>1, <1>5, SessionOfTask DEF sessionVars
<1>. QED
  BY <1>1, <1>5, <1>6, TaskMoves, HooksAreTyped DEF sessionVars

LEMMA AppliedKeeps ==
  ASSUME IInv, NEW i \in Tasks, Applied(i)
  PROVE  IInv'
<1>1. /\ task[i].pc = "served" /\ Begun(i) /\ StartLoad(i, ws, task[i].campaign, task[i].note)
      /\ UNCHANGED <<sessionVars, clicks, server>>
      /\ camp' = [camp EXCEPT !.preview = task[i].pair, !.applied = TRUE]
  BY DEF Applied, Served, Begun
<1>2. SameEditor(ws, ws)
  BY DEF SameEditor
<1>3. /\ ws' \in NotesShape /\ EditorOK(ws)' /\ ws'.overview = ws.overview /\ ws'.strays = ws.strays
      /\ task' \in [Tasks -> TaskShape] /\ OnlyTask(i) /\ TaskOK(i)'
  BY <1>1, <1>2, CampaignOfTask, LoadBegins, HooksAreTyped DEF sessionVars
<1>4. SessionTypes' /\ SessionInv'
  BY <1>1, <1>3, SessionOfTask DEF sessionVars
<1>5. camp' \in CampaignShape /\ camp'.selected = camp.selected
  BY <1>1, HooksAreTyped DEF CampaignShape, TaskShape
<1>. QED
  BY <1>1, <1>3, <1>4, <1>5, TaskMoves, HooksAreTyped DEF sessionVars

(* A guest that has joined is shown the campaign of the link.              *)
LEMMA JoinedKeeps ==
  ASSUME IInv, NEW i \in Tasks, Joined(i)
  PROVE  IInv'
<1>. DEFINE w == [ws EXCEPT !.browse = "notes", !.session = None]
<1>1. /\ task[i].pc = "served" /\ Begun(i) /\ task[i].op = "join"
      /\ StartLoad(i, w, Shared, None)
      /\ UNCHANGED <<page, sess, issuer, clicks, server>>
      /\ camp' = [camp EXCEPT !.selected = Shared, !.campaigns = {Shared}]
      /\ stored' = [stored EXCEPT !.guest = issuer.guests]
      /\ guest' = [guest EXCEPT !.token = issuer.guests, !.shown = TRUE, !.member = TRUE]
  BY DEF Joined, Served, Begun, JoinAnswered
<1>2. page.shared
  BY <1>1 DEF IInv, TaskOK
<1>3. w \in NotesShape /\ SameEditor(w, ws) /\ w.req = ws.req
  BY HooksAreTyped DEF NotesShape, SameEditor, OrNone
<1>. HIDE DEF w
<1>4. None \in OrNone(Notes) /\ Shared \in OrNone(Campaigns)
  BY Numbers DEF OrNone
<1>5. /\ ws' \in NotesShape /\ EditorOK(ws)' /\ ws'.overview = ws.overview /\ ws'.strays = ws.strays
      /\ task' \in [Tasks -> TaskShape] /\ OnlyTask(i) /\ TaskOK(i)'
  BY <1>1, <1>3, <1>4, LoadBegins
<1>6. camp' \in CampaignShape /\ camp'.selected = Shared
  BY <1>1, <1>4, HooksAreTyped DEF CampaignShape
<1>7. task'[0].pc # "idle" => task[0].pc # "idle"
  BY <1>1, <1>5, Numbers DEF OnlyTask, Begun
<1>8. SessionTypes' /\ SessionInv'
  BY <1>1, <1>7 DEF IInv, SessionTypes, SessionInv, StoredShape, GuestShape, IssuerShape
<1>9. WorkspaceTypes'
  BY <1>1, <1>5, <1>6 DEF IInv, WorkspaceTypes
<1>10. ShownInv'
  BY <1>1, <1>2, <1>5, <1>6 DEF IInv, ShownInv
<1>. QED
  BY <1>1, <1>5, <1>8, <1>9, <1>10, Frame

LEMMA CampaignStepsKeep ==
  ASSUME IInv, NEW i \in Tasks, StarterNote(i) \/ CampaignSaved(i)
  PROVE  IInv'
<1>1. /\ task[i].pc = "served" /\ Begun(i) /\ task[i].op \in {"create", "edit"}
      /\ UNCHANGED <<sessionVars, ws, camp, clicks>>
  BY DEF StarterNote, CampaignSaved, Served, Begun
<1>2. ~page.shared
  BY <1>1 DEF IInv, TaskOK
<1>3. \/ server' = server /\ task' = [task EXCEPT ![i].pc = "campaigns"]
      \/ \E n \in Notes : /\ server' = [server EXCEPT !.home[n] = task[i].campaign]
                          /\ task' = [task EXCEPT ![i].note = n]
  BY DEF StarterNote, CampaignSaved, Unmade
<1>4. task[i] \in TaskShape /\ task \in [Tasks -> TaskShape] /\ server \in ServerShape
  BY DEF IInv, WorkspaceTypes
<1>5. server' \in ServerShape
  BY <1>3, <1>4 DEF ServerShape, TaskShape
<1>6. /\ task' \in [Tasks -> TaskShape] /\ OnlyTask(i)
      /\ task'[i].op = task[i].op /\ task'[i].pc \in {"served", "campaigns"}
  <2>1. CASE task' = [task EXCEPT ![i].pc = "campaigns"]
    <3>1. [task[i] EXCEPT !.pc = "campaigns"] \in TaskShape
      BY <1>4 DEF TaskShape
    <3>. QED
      BY <1>4, <2>1, <3>1 DEF TaskShape, OnlyTask
  <2>2. CASE \E n \in Notes : task' = [task EXCEPT ![i].note = n]
    <3>1. PICK n \in Notes : task' = [task EXCEPT ![i].note = n]
      BY <2>2
    <3>2. [task[i] EXCEPT !.note = n] \in TaskShape
      BY <1>4 DEF TaskShape, OrNone
    <3>. QED
      BY <1>1, <1>4, <3>1, <3>2 DEF TaskShape, OnlyTask
  <2>. QED
    BY <1>3, <2>1, <2>2
<1>7. TaskOK(i)'
  BY <1>1, <1>2, <1>6, BegunIs DEF TaskOK, Begun, sessionVars
<1>8. SessionTypes' /\ SessionInv'
  BY <1>1, <1>6, SessionOfTask DEF sessionVars
<1>9. ws' \in NotesShape /\ EditorOK(ws)' /\ ws'.overview = ws.overview /\ ws'.strays = ws.strays
  BY <1>1, HooksAreTyped
<1>. QED
  BY <1>1, <1>5, <1>6, <1>7, <1>8, <1>9, TaskMoves, HooksAreTyped DEF sessionVars

LEMMA ServerActsKeeps ==
  ASSUME IInv, NEW i \in Tasks, ServerActs(i)
  PROVE  IInv'
<1>1. task[i].pc = "call" /\ Begun(i) /\ UNCHANGED <<page, stored, sess, guest, ws, camp, clicks>>
  BY DEF ServerActs, Begun
<1>. DEFINE made == task[i].op = "capture" \/ (task[i].op = "save" /\ task[i].note = None)
<1>2. PICK n \in OrNone(Notes), c \in OrNone(Campaigns) :
        /\ task[i].op # "create" => c = task[i].campaign
        /\ server' = [server EXCEPT
             !.home = IF made THEN [@ EXCEPT ![n] = c]
                      ELSE IF task[i].op = "delete" THEN [@ EXCEPT ![task[i].note] = "gone"] ELSE @,
             !.campaigns = @ \cup {c},
             !.links = IF task[i].op = "link" THEN @ \cup {c}
                       ELSE IF task[i].op = "revoke" THEN @ \ {c} ELSE @]
        /\ task' = [task EXCEPT ![i].pc = "served", ![i].campaign = c,
                                ![i].note = IF made THEN n
                                            ELSE IF task[i].op = "delete" THEN None ELSE @]
  <2>1. Unmade \subseteq OrNone(Notes) /\ {None} \subseteq OrNone(Notes)
    BY DEF Unmade, OrNone
  <2>2. task[i].campaign \in OrNone(Campaigns) /\ Campaigns \subseteq OrNone(Campaigns)
    BY <1>1, CampaignOfTask DEF OrNone
  <2>. DEFINE new == IF made THEN Unmade ELSE {None}
              newCs == IF task[i].op = "create" THEN Campaigns \ server.campaigns
                       ELSE {task[i].campaign}
              P(n, c) ==
                /\ server' = [server EXCEPT
                     !.home = IF made THEN [@ EXCEPT ![n] = c]
                              ELSE IF task[i].op = "delete"
                                   THEN [@ EXCEPT ![task[i].note] = "gone"] ELSE @,
                     !.campaigns = @ \cup {c},
                     !.links = IF task[i].op = "link" THEN @ \cup {c}
                               ELSE IF task[i].op = "revoke" THEN @ \ {c} ELSE @]
                /\ task' = [task EXCEPT ![i].pc = "served", ![i].campaign = c,
                                        ![i].note = IF made THEN n
                                                    ELSE IF task[i].op = "delete" THEN None ELSE @]
  <2>3. \E n \in new, c \in newCs : P(n, c)
    BY Zenon DEF ServerActs
  <2>4. new \subseteq OrNone(Notes) /\ newCs \subseteq OrNone(Campaigns)
    BY <2>1, <2>2
  <2>5. \A c \in newCs : task[i].op # "create" => c = task[i].campaign
    OBVIOUS
  <2>. HIDE DEF new, newCs
  <2>6. \E n \in OrNone(Notes), c \in OrNone(Campaigns) :
           (task[i].op # "create" => c = task[i].campaign) /\ P(n, c)
    <3>. HIDE DEF P
    <3>. QED
      BY <2>3, <2>4, <2>5
  <2>. QED
    BY <2>6, Zenon
<1>3. task[i] \in TaskShape /\ task \in [Tasks -> TaskShape] /\ server \in ServerShape
  BY DEF IInv, WorkspaceTypes
<1>4. server' \in ServerShape
  <2>. DEFINE h == IF made THEN [server.home EXCEPT ![n] = c]
                   ELSE IF task[i].op = "delete" THEN [server.home EXCEPT ![task[i].note] = "gone"]
                   ELSE server.home
              l == IF task[i].op = "link" THEN server.links \cup {c}
                   ELSE IF task[i].op = "revoke" THEN server.links \ {c} ELSE server.links
  <2>1. server' = [server EXCEPT !.home = h, !.campaigns = server.campaigns \cup {c}, !.links = l]
    BY <1>2, Zenon
  <2>2. h \in [Notes -> OrNone(Campaigns) \cup {"unmade", "gone"}]
    BY <1>3 DEF ServerShape
  <2>3. l \in SUBSET OrNone(Campaigns) /\ server.campaigns \cup {c} \in SUBSET OrNone(Campaigns)
    BY <1>3 DEF ServerShape
  <2>. HIDE DEF h, l
  <2>. QED
    BY <1>3, <2>1, <2>2, <2>3 DEF ServerShape
<1>5. /\ task' \in [Tasks -> TaskShape] /\ OnlyTask(i)
      /\ task'[i].op = task[i].op /\ task'[i].pc = "served" /\ task'[i].campaign = c
  <2>. DEFINE k == IF made THEN n ELSE IF task[i].op = "delete" THEN None ELSE task[i].note
  <2>1. task' = [task EXCEPT ![i].pc = "served", ![i].campaign = c, ![i].note = k]
    BY <1>2, Zenon
  <2>2. k \in OrNone(Notes)
    BY <1>3 DEF TaskShape, OrNone
  <2>. HIDE DEF k
  <2>3. [task[i] EXCEPT !.pc = "served", !.campaign = c, !.note = k] \in TaskShape
    BY <1>3, <2>2 DEF TaskShape
  <2>. QED
    BY <1>3, <2>1, <2>3 DEF TaskShape, OnlyTask
<1>6. page.shared => c = Shared
  BY <1>1, <1>2 DEF IInv, TaskOK
<1>7. TaskOK(i)'
  BY <1>1, <1>5, <1>6, BegunIs DEF TaskOK, Begun
<1>8. issuer' \in IssuerShape
  <2>1. PICK m \in Nat : m = issuer.guests + 1
    BY DEF IInv, SessionTypes, IssuerShape
  <2>2. \/ issuer' = issuer
        \/ issuer' = [issuer EXCEPT !.guests = m, !.valid = @ \cup {m}]
        \/ issuer' = [issuer EXCEPT !.guests = m, !.valid = (@ \ {guest.token}) \cup {m}]
    BY <2>1 DEF ServerActs, MembershipMade, MembershipClaimed
  <2>. QED
    BY <2>2 DEF IInv, SessionTypes, IssuerShape
<1>9. task'[0].pc # "idle" => task[0].pc # "idle"
  BY <1>1, <1>5, Numbers DEF OnlyTask, Begun
<1>10. SessionTypes' /\ SessionInv'
  BY <1>1, <1>8, <1>9 DEF IInv, SessionTypes, SessionInv
<1>11. ws' \in NotesShape /\ EditorOK(ws)' /\ ws'.overview = ws.overview /\ ws'.strays = ws.strays
  BY <1>1, HooksAreTyped
<1>. QED
  BY <1>1, <1>4, <1>5, <1>7, <1>10, <1>11, TaskMoves, HooksAreTyped

-----------------------------------------------------------------------------
(* The theorems.                                                           *)

LEMMA InitOK == Init => IInv
<1>. SUFFICES ASSUME Init PROVE IInv
  OBVIOUS
<1>1. SessionTypes /\ SessionInv
  <2>1. \E tokens \in {0, 1}, g \in {0, 1}, editor \in BOOLEAN :
          /\ ~page.shared => g = 0 /\ editor
          /\ issuer = [issued |-> tokens, guests |-> g, valid |-> 1 .. g, editor |-> editor]
          /\ stored = [tokens |-> tokens, guest |-> g, campaign |-> None]
    BY DEF Init, SessionInit
  <2>2. page \in PageShape
    <3>. DEFINE F == {FALSE}
                O == {1}
    <3>1. page \in [shared: BOOLEAN, callback: F, leaving: F, loads: O]
      BY DEF Init, SessionInit
    <3>2. F \subseteq BOOLEAN /\ O \subseteq Nat
      OBVIOUS
    <3>. HIDE DEF F, O
    <3>. QED
      BY <3>1, <3>2 DEF PageShape
  <2>3. stored \in StoredShape /\ issuer \in IssuerShape
    BY <2>1 DEF StoredShape, IssuerShape, OrNone
  <2>4. sess = Opened /\ sess \in SessionShape /\ sess.token = 0 /\ sess.pc = "config"
    BY DEF Init, SessionInit, Opened, SessionShape
  <2>5. guest \in GuestShape /\ (guest.pc # "ready" => page.shared)
    <3>1. guest = Arrived(page.shared, stored.guest) /\ stored.guest \in Nat
      BY <2>1 DEF Init, SessionInit
    <3>. QED
      BY <3>1 DEF Arrived, GuestShape
  <2>6. task[0].pc = "idle"
    BY FreshIs, Numbers DEF Init, Ops
  <2>. QED
    BY <2>2, <2>3, <2>4, <2>5, <2>6 DEF SessionTypes, SessionInv
<1>2. /\ task \in [Tasks -> TaskShape]
      /\ \A i \in Tasks : task[i].op = "boot" /\ task[i].pc = "idle"
  BY FreshIs DEF Init, Ops
<1>3. server \in ServerShape
  BY NotesAssumption, SharedAssumption DEF Init, ServerShape, OrNone
<1>4. WorkspaceTypes
  BY <1>2, <1>3, Blanks, Numbers DEF Init, WorkspaceTypes
<1>5. EditorOK(ws) /\ ShownInv
  BY Blanks DEF Init, ShownInv
<1>6. \A i \in Tasks : TaskOK(i)
  BY <1>2 DEF TaskOK, Begun
<1>. QED
  BY <1>1, <1>4, <1>5, <1>6 DEF IInv

LEMMA SignInStepKeeps == ASSUME IInv, SignInStep PROVE IInv'
BY SessionStepsKeep, BootCampaignsKeeps, BootFailsKeeps, GuestLoadsKeeps, GuestMustJoinKeeps
   DEF SignInStep

LEMMA RefreshStepKeeps == ASSUME IInv, RefreshStep PROVE IInv'
<1>1. CASE RefreshBegins /\ UNCHANGED workspaceVars
  BY <1>1, SessionStepsKeep
<1>2. CASE \E t \in Tokens : RefreshAnswers(t) /\ UNCHANGED workspaceVars
  BY <1>2, RefreshAnswersKeeps
<1>3. CASE \E t \in Tokens : RefreshFails(t)
  BY <1>3, RefreshFailsKeeps
<1>. QED
  BY <1>1, <1>2, <1>3 DEF RefreshStep

LEMMA VisitStepKeeps == ASSUME IInv, VisitStep PROVE IInv'
<1>1. ASSUME SignIn PROVE IInv'
  <2>1. LeaveToSignIn /\ UNCHANGED workspaceVars
    BY <1>1 DEF SignIn
  <2>. QED
    BY <2>1, SessionStepsKeep
<1>. QED
  BY <1>1, LoadsKeep, LogoutKeeps DEF VisitStep

LEMMA ClickStepOK == ASSUME IInv, ClickStep PROVE IInv'
<1>1. CASE \/ \E c \in Campaigns : SelectCampaign(c)
           \/ RetryWorkspace \/ SaveNote \/ DeleteNote \/ QuickCapture
  BY <1>1, SelectCampaignKeeps, RetryWorkspaceKeeps, SaveNoteKeeps, DeleteNoteKeeps,
     QuickCaptureKeeps
<1>2. CASE \/ \E n \in Notes : SelectNote(n)
           \/ StartNote
           \/ \E mode \in {"notes", "sessions"} : OpenBrowser(mode)
           \/ \E s \in OrNone(Sessions) : BrowseShared(s)
  BY <1>2, SelectNoteKeeps, StartNoteKeeps, OpenBrowserKeeps, BrowseSharedKeeps
<1>3. CASE (\E s \in Sessions : SelectSession(s)) \/ OpenActivity
  BY <1>3, SelectSessionKeeps, OpenActivityKeeps
<1>4. CASE \/ \E form \in {"create", "edit"} : OpenForm(form)
           \/ CancelForm \/ (\E p \in Pairs : ChoosePair(p))
  BY <1>4, FormsKeep
<1>5. CASE \/ SaveCampaign \/ Preview \/ Apply
           \/ \E op \in {"link", "reveal", "revoke"} : ShareLink(op)
           \/ Join \/ LinkAccount
  BY <1>5, SaveCampaignKeeps, PreviewKeeps, ApplyKeeps, ShareLinkKeeps, JoinKeeps,
     LinkAccountKeeps
<1>. QED
  BY <1>1, <1>2, <1>3, <1>4, <1>5 DEF ClickStep

LEMMA TaskStepOK ==
  ASSUME IInv, NEW i \in Tasks, TaskStep(i) \/ ServerActs(i)
  PROVE  IInv'
<1>1. CASE LoadStep(i) \/ CampaignsAnswer(i) \/ CampaignsFail(i)
  BY <1>1, LoadAnswersKeeps, NamesAnswerKeeps, LoadEndsKeep, CampaignsAnswerKeeps,
     CampaignsFailKeeps DEF LoadStep
<1>2. CASE SessionAnswers(i) \/ ActivityAnswers(i) \/ FetchFails(i)
  BY <1>2, SessionAnswersKeeps, FetchesKeep
<1>3. CASE \/ NoteWritten(i) \/ StarterNote(i) \/ CampaignSaved(i) \/ Applied(i) \/ Joined(i)
           \/ Claimed(i)
  BY <1>3, NoteWrittenKeeps, CampaignStepsKeep, AppliedKeeps, JoinedKeeps, ClaimedKeeps
<1>4. CASE Previewed(i) \/ ShareLinkAnswers(i) \/ CallFails(i)
  BY <1>4, AnswersKeep
<1>5. CASE ServerActs(i)
  BY <1>5, ServerActsKeeps
<1>. QED
  BY <1>1, <1>2, <1>3, <1>4, <1>5 DEF TaskStep

LEMMA NextOK == IInv /\ [Next]_vars => IInv'
<1>. SUFFICES ASSUME IInv, [Next]_vars PROVE IInv'
  OBVIOUS
<1>1. CASE UNCHANGED vars
  <2>1. UNCHANGED sessionVars /\ UNCHANGED workspaceVars
    BY <1>1 DEF vars
  <2>2. SessionTypes' /\ SessionInv'
    BY <2>1, SameSession DEF sessionVars, workspaceVars
  <2>. QED
    BY <2>1, <2>2, SessionStep DEF sessionVars
<1>2. CASE EffectStep
  BY <1>2, FormsKeep
<1>. QED
  BY <1>1, <1>2, SignInStepKeeps, RefreshStepKeeps, VisitStepKeeps, ClickStepOK, TaskStepOK
     DEF Next

(* The invariant that the properties below rest on holds of every tab.     *)
THEOREM Invariance == Spec => []IInv
BY InitOK, NextOK, PTL DEF Spec

(* What localStorage would resume is the session on the screen: a refresh  *)
(* that was awaited at the sign-out leaves no tokens behind.               *)
THEOREM StoredTokensAreTheSessions == Spec => []StoredIsSession
<1>1. IInv => StoredIsSession
  BY DEF IInv, SessionInv, StoredIsSession, AuthReady, SignedIn
<1>. QED
  BY <1>1, Invariance, PTL

(* A save writes the note whose text was in the editor at the click, and   *)
(* the text is that of the note that is selected.                          *)
THEOREM SavesWhatIsEdited == Spec => []SavedWhereEdited
<1>1. IInv => SavedWhereEdited
  BY DEF IInv, EditorOK, TaskOK, SavedWhereEdited
<1>. QED
  BY <1>1, Invariance, PTL

(* The notes on the screen are the selected campaign's, unless what is     *)
(* shown is the answer to a save, a delete or a capture in another.        *)
THEOREM ScreenIsSelected == Spec => []ShowsSelected
<1>1. IInv => ShowsSelected
  BY ScreenIs DEF IInv, ShownInv, ShowsSelected
<1>. QED
  BY <1>1, Invariance, PTL

(* What is shown is the answer to the latest request, which is no older    *)
(* than the one that was shown.                                            *)
LEMMA ShownGrows == IInv /\ [Next]_vars => ws'.shown >= ws.shown \/ ws' = NoNotes
<1>. SUFFICES ASSUME IInv, [Next]_vars PROVE ws'.shown >= ws.shown \/ ws' = NoNotes
  OBVIOUS
<1>1. ws \in NotesShape /\ ws.shown \in Nat /\ ws.req \in Nat /\ ws.shown <= ws.req
  BY DEF IInv, WorkspaceTypes, NotesShape, EditorOK
<1>2. ASSUME ws' = ws \/ ws'.shown = ws.shown PROVE ws'.shown >= ws.shown
  BY <1>1, <1>2
<1>. DEFINE Same == ws'.shown = ws.shown
<1>3. ASSUME NEW pc, ClearSession(pc) PROVE Same
  BY <1>1, <1>3, WithoutNotesIs DEF ClearSession
<1>5. CASE SignInStep
  BY <1>1, <1>2, <1>3, <1>5
     DEF SignInStep, BootCampaigns, BootFails, GuestLoads, GuestMustJoin, workspaceVars, NotesShape
<1>6. CASE RefreshStep
  BY <1>2, <1>3, <1>6 DEF RefreshStep, RefreshFails, workspaceVars
<1>7. CASE VisitStep
  BY <1>2, <1>3, <1>7 DEF VisitStep, Reload, LeaveShared, Redirected, SignIn, Logout, Started,
     workspaceVars
<1>8. CASE ClickStep
  <2>1. CASE \/ \E c \in Campaigns : SelectCampaign(c)
             \/ StartNote \/ (\E mode \in {"notes", "sessions"} : OpenBrowser(mode))
             \/ OpenActivity \/ (\E s \in OrNone(Sessions) : BrowseShared(s))
    BY <1>1, <1>2, <2>1 DEF SelectCampaign, StartNote, OpenBrowser, OpenActivity, BrowseShared,
       Edits, NoSession, NoActivity, NotesShape
  <2>2. CASE \/ RetryWorkspace
             \/ (\E n \in Notes : SelectNote(n)) \/ (\E s \in Sessions : SelectSession(s))
    BY <1>1, <1>2, <2>2 DEF RetryWorkspace, SelectNote, SelectSession, Edits, NotesShape
  <2>3. CASE \/ SaveNote \/ DeleteNote \/ QuickCapture \/ CancelForm \/ SaveCampaign
             \/ (\E form \in {"create", "edit"} : OpenForm(form))
             \/ (\E p \in Pairs : ChoosePair(p))
    BY <1>2, <2>3 DEF SaveNote, DeleteNote, QuickCapture, CancelForm, SaveCampaign, OpenForm,
       ChoosePair
  <2>4. CASE \/ Preview \/ Apply \/ Join \/ LinkAccount
             \/ (\E op \in {"link", "reveal", "revoke"} : ShareLink(op))
    BY <1>2, <2>4 DEF Preview, Apply, Join, LinkAccount, ShareLink, workspaceVars
  <2>. QED
    BY <1>8, <2>1, <2>2, <2>3, <2>4 DEF ClickStep
<1>9. CASE EffectStep
  BY <1>2, <1>9 DEF EffectStep, RunEffect, SettingsAnswer, SettingsFail
<1>10. ASSUME NEW i \in Tasks, TaskStep(i) PROVE ws'.shown >= ws.shown
  <2>1. ASSUME NEW seen \in SUBSET Notes, NEW s \in OrNone(Sessions), NEW named \in SUBSET Notes,
               Begun(i), Current(i), ShowWorkspace(i, seen, s, named)
        PROVE  ws'.shown = ws.req
    <3>1. PICK n \in OrNone(Notes) :
             ws' = IF ActivityNext(i)
                   THEN [Shows(i, n, seen, s, named) EXCEPT !.entries = {}, !.activityTask = i]
                   ELSE Shows(i, n, seen, s, named)
      BY <2>1, ResolvedIs DEF ShowWorkspace
    <3>2. PICK v : v = Shows(i, n, seen, s, named)
      OBVIOUS
    <3>3. v \in NotesShape /\ v.shown = ws.req
      BY <2>1, <3>2, ShowsIs
    <3>4. ws' = v \/ ws' = [v EXCEPT !.entries = {}, !.activityTask = i]
      BY <3>1, <3>2
    <3>. QED
      BY <3>3, <3>4 DEF NotesShape
  <2>2. CASE LoadAnswers(i)
    <3>1. PICK seen \in SUBSET Notes : seen = NotesOf(task[i].campaign)
      BY NotesOfIs
    <3>2. Begun(i) /\ Current(i) /\ (UNCHANGED ws \/ ShowWorkspace(i, seen, None, {}))
      BY <2>2, <3>1 DEF LoadAnswers, Begun
    <3>3. None \in OrNone(Sessions) /\ {} \in SUBSET Notes
      BY DEF OrNone
    <3>. QED
      BY <1>1, <1>2, <2>1, <3>2, <3>3
  <2>3. CASE NamesAnswer(i)
    <3>1. PICK named \in SUBSET Notes :
             named = {n \in NotesOf(task[i].campaign) : SessionOf[n] = task[i].session}
      BY NotesOfIs
    <3>2. /\ Begun(i) /\ Current(i) /\ ShowWorkspace(i, task[i].seen, task[i].session, named)
          /\ task[i].seen \in SUBSET Notes /\ task[i].session \in OrNone(Sessions)
      BY <2>3, <3>1, HooksAreTyped DEF NamesAnswer, Begun, TaskShape
    <3>. QED
      BY <1>1, <2>1, <3>2
  <2>4. CASE LoadStale(i) \/ LoadFails(i) \/ CampaignsFail(i)
    BY <1>1, <1>2, <1>3, <2>4 DEF LoadStale, LoadFails, CampaignsFail, NotesShape
  <2>5. CASE SessionAnswers(i) \/ ActivityAnswers(i) \/ FetchFails(i)
    BY <1>1, <1>2, <2>5 DEF SessionAnswers, ActivityAnswers, FetchFails, NoSession, NoActivity,
       NotesShape
  <2>6. CASE CampaignsAnswer(i) \/ NoteWritten(i) \/ Applied(i) \/ Joined(i)
    BY <1>1, <1>2, <2>6 DEF CampaignsAnswer, NoteWritten, Applied, Joined, StartLoad, NoSession,
       NoActivity, NotesShape
  <2>7. CASE \/ StarterNote(i) \/ CampaignSaved(i) \/ Previewed(i) \/ ShareLinkAnswers(i)
             \/ Claimed(i) \/ CallFails(i)
    BY <1>2, <2>7 DEF StarterNote, CampaignSaved, Previewed, ShareLinkAnswers, Claimed, CallFails
  <2>. QED
    BY <1>10, <2>2, <2>3, <2>4, <2>5, <2>6, <2>7 DEF TaskStep, LoadStep
<1>11. ASSUME NEW i \in Tasks, ServerActs(i) PROVE ws'.shown >= ws.shown
  BY <1>2, <1>11 DEF ServerActs
<1>12. CASE UNCHANGED vars
  BY <1>2, <1>12 DEF vars, workspaceVars
<1>. QED
  BY <1>5, <1>6, <1>7, <1>8, <1>9, <1>10, <1>11, <1>12 DEF Next

(* What is shown is never replaced by the answer to an older request.      *)
THEOREM AnswersAreShownInOrder == Spec => NeverOlder
<1>1. IInv /\ [Next]_vars => [ws'.shown >= ws.shown \/ ws' = NoNotes]_vars
  BY ShownGrows
<1>. QED
  BY <1>1, Invariance, PTL DEF Spec, NeverOlder

-----------------------------------------------------------------------------
(* The operator portal's page, in Portals: the customer's page and the     *)
(* control plane leave what follows alone.                                 *)

(* A refresh is awaited under a token only, and only the bootstrap that    *)
(* found tokens waits for a first load: nothing else ends it.              *)
OperatorInv ==
    /\ refreshes \in Nat
    /\ ~token => refreshes = 0
    /\ boot \in {"load", "done"} /\ ~token => ~tokensStored
    /\ loads = [l \in Loaders |-> loads[l]]
    /\ loads["boot"].at # "idle" => boot = "load"

Fields == Texts \cup {NoText}

SearchShape == [typed: Fields, timer: SUBSET Fields, asked: SUBSET Fields, options: Fields,
                error: BOOLEAN, owner: BOOLEAN, late: SUBSET Fields]

(* What the timer will ask for, what the one request that is not aborted   *)
(* asks for once it has fired, and then the options belong to the text in  *)
(* the field or to the search that went on when the field was emptied.     *)
SearchOK(s) ==
    /\ s \in SearchShape
    /\ LET wanted == {s.typed} \cup s.late
       IN  /\ s.timer \subseteq wanted
           /\ s.timer = {} => s.asked \subseteq wanted
           /\ s.timer = {} /\ s.asked = {} /\ ~s.error => s.options \in wanted

(* A load that begins or ends is one of the three.                         *)
LEMMA LoadsAre ==
  ASSUME loads = [l \in Loaders |-> loads[l]], NEW l \in Loaders, NEW v,
         NEW new, new = [loads EXCEPT ![l] = v]
  PROVE  /\ new = [k \in Loaders |-> new[k]]
         /\ new[l] = v /\ \A k \in Loaders \ {l} : new[k] = loads[k]
OBVIOUS

(* The session of the page, step by step.                                  *)
LEMMA OperatorStep ==
  ASSUME OperatorInv, [OpNext]_opVars
  PROVE  OperatorInv'
<1>1. CASE BootstrapAuth
  <2>1. boot = "init" /\ loads["boot"].at = "idle" /\ "boot" \in Loaders
    BY <1>1 DEF BootstrapAuth, OperatorInv, Loaders
  <2>2. CASE boot' = "done" /\ ClearOperatorSession /\ UNCHANGED loads
    BY <2>1, <2>2 DEF ClearOperatorSession, OperatorInv
  <2>3. CASE token' /\ boot' = "load" /\ BeginLoad("boot") /\ UNCHANGED refreshes
    BY <2>1, <2>3, LoadsAre DEF BeginLoad, OperatorInv
  <2>4. CASE token' /\ boot' = "done" /\ UNCHANGED <<loads, refreshes>>
    BY <2>1, <2>4 DEF OperatorInv
  <2>. QED
    BY <1>1, <2>2, <2>3, <2>4 DEF BootstrapAuth
<1>2. CASE Refresh
  <2>1. PICK n \in Nat : n = refreshes
    BY DEF OperatorInv
  <2>2. refreshes' = n + 1 /\ token' /\ UNCHANGED <<boot, tokensStored, loads>>
    BY <1>2, <2>1 DEF Refresh, fleetVars
  <2>. QED
    BY <2>2 DEF OperatorInv
<1>3. CASE TokenRefreshAnswers
  <2>1. CASE ClearOperatorSession
    BY <1>3, <2>1 DEF TokenRefreshAnswers, ClearOperatorSession, OperatorInv
  <2>2. CASE token' /\ refreshes' \in {0, refreshes - 1}
    BY <1>3, <2>2 DEF TokenRefreshAnswers, OperatorInv
  <2>. QED
    BY <1>3, <2>1, <2>2 DEF TokenRefreshAnswers
<1>4. CASE HandleLogout
  BY <1>4 DEF HandleLogout, ClearOperatorSession, OperatorInv
<1>5. CASE RefreshFleet
  <2>1. BeginLoad("refresh") /\ UNCHANGED authVars /\ "refresh" \in Loaders /\ "boot" \in Loaders
    BY <1>5 DEF RefreshFleet, Loaders
  <2>. QED
    BY <2>1, LoadsAre DEF BeginLoad, authVars, OperatorInv
<1>6. ASSUME NEW l \in Loaders, StatusAnswers(l) PROVE OperatorInv'
  <2>1. loads["boot"].at = "idle" => l # "boot"
    BY <1>6 DEF StatusAnswers
  <2>2. UNCHANGED authVars /\ loads' = [loads EXCEPT ![l] = [at |-> "told", body |-> fleet]]
    BY <1>6 DEF StatusAnswers, FleetStatus
  <2>. QED
    BY <2>1, <2>2, LoadsAre DEF authVars, OperatorInv, Loaders
<1>7. ASSUME NEW l \in Loaders, LoadFleet(l) PROVE OperatorInv'
  <2>1. /\ loads[l].at # "idle" /\ loads' = [loads EXCEPT ![l] = NoLoad]
        /\ boot' = (IF l = "boot" THEN "done" ELSE boot)
        /\ UNCHANGED <<token, tokensStored, refreshes>>
    BY <1>7 DEF LoadFleet
  <2>2. NoLoad.at = "idle" /\ "boot" \in Loaders
    BY DEF NoLoad, Loaders
  <2>. QED
    BY <2>1, <2>2, LoadsAre DEF OperatorInv
<1>8. CASE MutationAnswers
  <2>1. UNCHANGED authVars /\ (BeginLoad("job") \/ UNCHANGED loads)
    BY <1>8 DEF MutationAnswers
  <2>2. "job" \in Loaders /\ "boot" \in Loaders
    BY DEF Loaders
  <2>. QED
    BY <2>1, <2>2, LoadsAre DEF BeginLoad, authVars, OperatorInv
<1>9. CASE UNCHANGED <<authVars, loads>>
  BY <1>9 DEF authVars, OperatorInv
<1>10. ASSUME \/ Tick \/ TickAnswers \/ TickShows \/ TickFails
              \/ OpenCompose \/ HandleCancelCompose \/ HandleStart \/ StartArrives
              \/ StartAnswers \/ StartShows
              \/ OpenAbort \/ HandleCancelAbort \/ HandleAbortConfirm \/ AbortArrives
              \/ AbortAnswers \/ AbortShows
       PROVE  UNCHANGED <<authVars, loads>>
  BY <1>10 DEF Tick, TickAnswers, TickShows, TickFails, OpenCompose, HandleCancelCompose,
     HandleStart, StartArrives, StartAnswers, StartShows, OpenAbort, HandleCancelAbort,
     HandleAbortConfirm, AbortArrives, AbortAnswers, AbortShows, fleetVars
<1>11. ASSUME \/ Type \/ HandleOwnerChange \/ RunOwnerSearch \/ OwnersFound
              \/ (\E kind \in {"provision", "upgrade", "deprovision"}, t \in DOMAIN fleet :
                     Open(kind, t))
              \/ Close \/ HandleConfirm \/ CreateTenant \/ PostMutation \/ UNCHANGED opVars
       PROVE  UNCHANGED <<authVars, loads>>
  BY <1>11 DEF Type, HandleOwnerChange, RunOwnerSearch, OwnersFound, Open, Close, HandleConfirm,
     CreateTenant, PostMutation, fleetVars, opVars
<1>. QED
  BY <1>1, <1>2, <1>3, <1>4, <1>5, <1>6, <1>7, <1>8, <1>9, <1>10, <1>11 DEF OpNext

(* The search of owners: a page that is left begins it anew, a draft that  *)
(* is emptied leaves what is under way to "late".                          *)
LEMMA SearchStep ==
  ASSUME SearchOK(search), [OpNext]_opVars
  PROVE  SearchOK(search')
<1>1. SearchOK(NoSearch)
  BY DEF SearchOK, SearchShape, NoSearch, Fields
<1>2. /\ search \in SearchShape
      /\ search.typed \in Fields /\ search.timer \in SUBSET Fields
      /\ search.asked \in SUBSET Fields /\ search.late \in SUBSET Fields
  BY DEF SearchOK, SearchShape
<1>3. CASE Type \/ HandleOwnerChange
  <2>1. PICK q \in Fields, o \in BOOLEAN :
           \/ search' = [search EXCEPT !.typed = q, !.timer = {q}, !.owner = o, !.late = {}]
           \/ search' = [search EXCEPT !.owner = TRUE]
    BY <1>3 DEF Type, HandleOwnerChange, Fields
  <2>2. CASE search' = [search EXCEPT !.typed = q, !.timer = {q}, !.owner = o, !.late = {}]
    BY <1>2, <2>2 DEF SearchOK, SearchShape
  <2>3. CASE search' = [search EXCEPT !.owner = TRUE]
    BY <1>2, <2>3 DEF SearchOK, SearchShape
  <2>. QED
    BY <2>1, <2>2, <2>3
<1>4. CASE RunOwnerSearch
  <2>1. PICK q \in search.timer :
           search' = IF q = NoText
                     THEN [search EXCEPT !.timer = {}, !.asked = {}, !.error = FALSE,
                               !.options = NoText]
                     ELSE [search EXCEPT !.timer = {}, !.asked = {q}, !.error = FALSE]
    BY <1>4 DEF RunOwnerSearch
  <2>2. q \in Fields /\ q \in {search.typed} \cup search.late /\ NoText \in Fields
    BY <1>2 DEF SearchOK, Fields
  <2>3. CASE search' = [search EXCEPT !.timer = {}, !.asked = {}, !.error = FALSE, !.options = NoText]
             /\ q = NoText
    BY <1>2, <2>2, <2>3 DEF SearchOK, SearchShape
  <2>4. CASE search' = [search EXCEPT !.timer = {}, !.asked = {q}, !.error = FALSE]
    BY <1>2, <2>2, <2>4 DEF SearchOK, SearchShape
  <2>. QED
    BY <2>1, <2>3, <2>4
<1>5. CASE OwnersFound
  <2>1. PICK q \in search.asked :
           \/ search' = [search EXCEPT !.asked = @ \ {q}, !.options = q]
           \/ search' = [search EXCEPT !.asked = @ \ {q}, !.options = NoText, !.error = TRUE]
    BY <1>5 DEF OwnersFound
  <2>2. PICK rest \in SUBSET Fields : rest = search.asked \ {q}
    BY <1>2
  <2>3. q \in Fields /\ NoText \in Fields
    BY <1>2 DEF Fields
  <2>4. CASE search' = [search EXCEPT !.asked = rest, !.options = q]
    BY <1>2, <2>2, <2>3, <2>4 DEF SearchOK, SearchShape
  <2>5. CASE search' = [search EXCEPT !.asked = rest, !.options = NoText, !.error = TRUE]
    BY <1>2, <2>2, <2>3, <2>5 DEF SearchOK, SearchShape
  <2>. QED
    BY <2>1, <2>2, <2>4, <2>5
<1>6. ASSUME NEW l \in Loaders, LoadFleet(l) PROVE SearchOK(search')
  <2>1. CloseDone \/ RemountDialogs
    BY <1>6 DEF LoadFleet
  <2>2. CASE CloseDone
    <3>1. CASE search' = search
      BY <3>1
    <3>2. PICK going \in SUBSET Fields :
             going = IF search.timer # {} THEN search.timer ELSE search.asked
      BY <1>2
    <3>3. CASE search' = [search EXCEPT !.typed = NoText, !.options = NoText, !.owner = FALSE,
                              !.late = going]
      BY <1>2, <3>2, <3>3 DEF SearchOK, SearchShape, Fields
    <3>. QED
      BY <2>2, <3>1, <3>2, <3>3 DEF CloseDone
  <2>3. CASE RemountDialogs
    BY <1>1, <2>3 DEF RemountDialogs
  <2>. QED
    BY <2>1, <2>2, <2>3
<1>7. CASE BootstrapAuth \/ TokenRefreshAnswers \/ HandleLogout
  BY <1>1, <1>7 DEF BootstrapAuth, TokenRefreshAnswers, HandleLogout, RemountDialogs
<1>8. CASE UNCHANGED search
  BY <1>8
<1>9. ASSUME \/ Refresh \/ RefreshFleet \/ (\E l \in Loaders : StatusAnswers(l))
             \/ Tick \/ TickAnswers \/ TickShows \/ TickFails
             \/ OpenCompose \/ HandleCancelCompose \/ HandleStart \/ StartArrives
             \/ StartAnswers \/ StartShows
             \/ OpenAbort \/ HandleCancelAbort \/ HandleAbortConfirm \/ AbortArrives
             \/ AbortAnswers \/ AbortShows
      PROVE  UNCHANGED search
  BY <1>9 DEF Refresh, RefreshFleet, StatusAnswers, Tick, TickAnswers, TickShows, TickFails,
     OpenCompose, HandleCancelCompose, HandleStart, StartArrives, StartAnswers, StartShows,
     OpenAbort, HandleCancelAbort, HandleAbortConfirm, AbortArrives, AbortAnswers, AbortShows
<1>10. ASSUME \/ (\E kind \in {"provision", "upgrade", "deprovision"}, t \in DOMAIN fleet :
                     Open(kind, t))
              \/ Close \/ HandleConfirm \/ CreateTenant \/ PostMutation \/ MutationAnswers
              \/ UNCHANGED opVars
       PROVE  UNCHANGED search
  BY <1>10 DEF Open, Close, HandleConfirm, CreateTenant, PostMutation, MutationAnswers, opVars
<1>. QED
  BY <1>3, <1>4, <1>5, <1>6, <1>7, <1>8, <1>9, <1>10 DEF OpNext

(* Signed out, no refresh is left that could bring the tokens back.        *)
LEMMA StaysOut ==
  ASSUME OperatorInv, [OpNext]_opVars
  PROVE  [(boot \in {"load", "done"} /\ ~token) => ~(token' \/ tokensStored')]_opVars
<1>. SUFFICES ASSUME OpNext, boot \in {"load", "done"}, ~token
              PROVE  ~(token' \/ tokensStored')
  OBVIOUS
<1>1. refreshes = 0 /\ ~tokensStored
  BY DEF OperatorInv
<1>2. ~(BootstrapAuth \/ TokenRefreshAnswers)
  BY <1>1 DEF BootstrapAuth, TokenRefreshAnswers
<1>3. token' = token /\ tokensStored' = tokensStored
  BY <1>2 DEF OpNext, Refresh, HandleLogout, RefreshFleet, StatusAnswers, LoadFleet, Tick,
     TickAnswers, TickShows, TickFails, OpenCompose, HandleCancelCompose, HandleStart,
     StartArrives, StartAnswers, StartShows, OpenAbort, HandleCancelAbort, HandleAbortConfirm,
     AbortArrives, AbortAnswers, AbortShows, Type, HandleOwnerChange, RunOwnerSearch,
     OwnersFound, Open, Close, HandleConfirm, CreateTenant, PostMutation, MutationAnswers,
     authVars
<1>. QED
  BY <1>1, <1>3

(* What the portals do to the operator's page is a step of that page.      *)
LEMMA PageSteps ==
  /\ PortalsInit => OperatorInv /\ SearchOK(search)
  /\ [PortalsNext]_portalVars => [OpNext]_opVars
<1>1. PortalsInit => OperatorInv /\ SearchOK(search)
  BY DEF PortalsInit, OpInit, OperatorInv, SearchOK, SearchShape, NoSearch, NoLoad,
     Loaders, Fields
<1>2. [PortalsNext]_portalVars => [OpNext]_opVars
  BY DEF PortalsNext, portalVars
<1>. QED
  BY <1>1, <1>2

(* The inductive invariant of the operator's page holds, whatever the      *)
(* control plane, other operators and customers do.                        *)
THEOREM OperatorInvariance == PortalsSpec => [](OperatorInv /\ SearchOK(search))
<1>1. OperatorInv /\ SearchOK(search) /\ [PortalsNext]_portalVars =>
          (OperatorInv /\ SearchOK(search))'
  BY PageSteps, OperatorStep, SearchStep
<1>. QED
  BY <1>1, PageSteps, PTL DEF PortalsSpec

(* Once the search has rested, the owners offered are those of the text in *)
(* the field, or of the search that was under way when a finished mutation *)
(* emptied the field: a slower answer to an older text replaces them in no *)
(* other case (runOwnerSearch, handleConfirm).                             *)
THEOREM OwnersAreOfTheText == PortalsSpec => []OptionsFollowText
<1>1. SearchOK(search) => OptionsFollowText
  BY DEF SearchOK, SearchShape, OptionsFollowText
<1>. QED
  BY <1>1, OperatorInvariance, PTL

(* The end of a session is final for this load of the operator's page.     *)
THEOREM SignedOutForGood == PortalsSpec => SignOutIsFinal
<1>1. OperatorInv /\ [PortalsNext]_portalVars =>
          [(boot \in {"load", "done"} /\ ~token) => ~(token' \/ tokensStored')]_opVars
  BY PageSteps, StaysOut
<1>. QED
  BY <1>1, OperatorInvariance, PTL DEF PortalsSpec, SignOutIsFinal

=============================================================================
