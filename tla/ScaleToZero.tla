---------------------------- MODULE ScaleToZero ----------------------------
(***************************************************************************)
(* Scale to zero, for ONE provisioned tenant: the activator in front of it *)
(* (its two watch caches, the coalesced wake, the fire-and-forget writes   *)
(* to the registry), the idle scaler's CronJob, the control plane's gate   *)
(* on PATCHing a tenant to sleeping, and the cluster they act on.          *)
(*                                                                         *)
(* A step runs from one await to the next.  Watch events reach the         *)
(* activator late; a stream may end and lose what it still held.           *)
(***************************************************************************)
EXTENDS Naturals, Sequences

CONSTANTS
    Clients,        \* browsers and API clients of this tenant
    Browsers,       \* those whose requests are navigations
    OperatorStates, \* states an operator may PATCH the tenant to
    OperatorScales, \* replica counts set by hand (kubectl scale)
    MaxLag,         \* bound: undelivered events of a watch stream
    MaxFaults       \* bound: failed calls, dead processes, operator calls

ASSUME BrowsersAssumption == Browsers \subseteq Clients
ASSUME OperatorAssumption ==
    /\ OperatorStates \subseteq {"ready", "maintenance", "sleeping"}
    /\ OperatorScales \subseteq 0 .. 1
ASSUME LagAssumption == MaxLag \in Nat \ {0} /\ MaxFaults \in Nat

VARIABLES
    pods,       \* the cluster: spec.replicas, and ready endpoint addresses
    watch,      \* per watch stream: open or not, events not yet delivered
    cache,      \* the activator's replicaCache and readyAddressCache
    registry,   \* the registry row's current and desired state
    act,        \* tenant_activity: seen_by_activator, last_request_at
    crowd,      \* does anybody want the tenant?
    req,        \* req[c]: what client c's request waits for
    wake,       \* the wake in wakeInProgress
    stamp,      \* a recordActivity in flight
    marking,    \* is a markReady in flight?
    scaler,     \* the idle scaler's next step
    oper,       \* the operator's PATCH in flight
    faults      \* bounded events so far

tasks == <<wake, stamp, marking>>
scaleVars == <<pods, watch, cache, registry, act, crowd, req, wake, stamp,
               marking, scaler, oper, faults>>

Kinds   == {"replicas", "ready"}
Counts  == 0 .. 1
Unknown == 2        \* no cache entry
RowStates == {"ready", "maintenance", "sleeping"}
Desired == {"ready", "deprovisioned"}

Activity == [seen: {"never", "seen"}, age: {"recent", "idle"},
             since: {"before", "after"}]
Stream   == [conn: {"open", "closed"},
             queue: UNION {[1 .. n -> Counts] : n \in 0 .. MaxLag}]
Request  == [pc: {"idle", "got", "held", "page", "peeked"}, val: Counts]
Wake     == [pc: {"none", "patch", "patched", "poll", "got"}, val: Counts]
ScalerPCs == {"idle", "check", "get", "patch", "update", "sync", "syncGet",
              "syncUpdate"}

Quiet  == [pc |-> "idle", val |-> 0]
NoWake == [pc |-> "none", val |-> 0]
Closed == [conn |-> "closed", queue |-> <<>>]

(* A tenant that has just been provisioned; the activator just started.    *)
ScaleInit ==
    /\ pods = [k \in Kinds |-> 1]
    /\ watch = [k \in Kinds |-> Closed]
    /\ cache = [k \in Kinds |-> Unknown]
    /\ registry = [state |-> "ready", desired |-> "ready"]
    /\ act = [seen |-> "never", age |-> "recent", since |-> "before"]
    /\ crowd = "away"
    /\ req = [c \in Clients |-> Quiet]
    /\ wake = NoWake /\ stamp = "none" /\ marking = FALSE
    /\ scaler = "idle" /\ oper = "none" /\ faults = 0

Fault == faults < MaxFaults /\ faults' = faults + 1

-----------------------------------------------------------------------------
(* The cluster.                                                            *)

(* The API server closes a stream whose reader is too far behind.          *)
Push(w, n) ==
    CASE w.conn = "closed"     -> w
      [] w.conn = "open" /\ Len(w.queue) < MaxLag ->
                                  [w EXCEPT !.queue = Append(@, n)]
      [] OTHER                 -> Closed

(* A patch that changes nothing makes no event.                            *)
SetReplicas(n) ==
    /\ pods' = [pods EXCEPT !["replicas"] = n]
    /\ watch' = IF pods["replicas"] = n THEN watch
                ELSE [watch EXCEPT !["replicas"] = Push(@, n)]

(* The pod becomes ready, or goes: an event of the endpoints, and one of   *)
(* the deployment, whose status changes.                                   *)
SetReady(n) ==
    /\ pods["ready"] # n
    /\ pods' = [pods EXCEPT !["ready"] = n]
    /\ watch' = [k \in Kinds |-> Push(watch[k], pods'[k])]

ClusterUnchanged ==
    UNCHANGED <<cache, registry, act, crowd, req, tasks, scaler, oper>>

PodReady == /\ pods["replicas"] = 1 /\ SetReady(1)
            /\ ClusterUnchanged /\ UNCHANGED faults

PodGone  == /\ pods["replicas"] = 0 /\ SetReady(0)
            /\ ClusterUnchanged /\ UNCHANGED faults

PodFails == /\ pods["replicas"] = 1 /\ SetReady(0)
            /\ Fault /\ ClusterUnchanged

-----------------------------------------------------------------------------
(* The activator's watches, runWatchLoop for each kind.                    *)

WatchUnchanged ==
    UNCHANGED <<pods, registry, act, crowd, req, tasks, scaler, oper, faults>>

(* Variant: the stream resumes where it ended.                             *)
WatchStartsResuming(k) ==
    /\ watch[k].conn = "closed"
    /\ watch' = [watch EXCEPT ![k] = [conn |-> "open", queue |-> <<>>]]
    /\ WatchUnchanged /\ UNCHANGED cache

(* A new stream begins with the current object.                            *)
WatchStarts(k) ==
    /\ watch[k].conn = "closed"
    /\ watch' = [watch EXCEPT ![k] = [conn |-> "open", queue |-> <<pods[k]>>]]
    /\ WatchUnchanged /\ UNCHANGED cache

(* The stream ends, at the server's timeout or broken; events on their way *)
(* are lost, the cache stays.                                              *)
WatchEnds(k) ==
    /\ watch[k].conn = "open"
    /\ watch' = [watch EXCEPT ![k] = Closed]
    /\ WatchUnchanged /\ UNCHANGED cache

(* handleDeploymentEvent, handleEndpointEvent                              *)
WatchEvent(k) ==
    /\ watch[k].queue # <<>>
    /\ cache' = [cache EXCEPT ![k] = Head(watch[k].queue)]
    /\ watch' = [watch EXCEPT ![k].queue = Tail(@)]
    /\ WatchUnchanged

-----------------------------------------------------------------------------
(* The coalesced wake.                                                     *)

(* ensureWake, from a request or a status poll: join the wake in progress, *)
(* or stamp activity and send the PATCH.                                   *)
EnsureWake ==
    IF wake.pc = "none"
      THEN wake' = [NoWake EXCEPT !.pc = "patch"] /\ stamp' = "pending"
      ELSE UNCHANGED <<wake, stamp>>

(* A request that cannot be held longer gets the interstitial page, or a   *)
(* warming 503.                                                            *)
Turned(c) == IF c \in Browsers THEN [Quiet EXCEPT !.pc = "page"] ELSE Quiet

Held == {c \in Clients : req[c].pc = "held"}

(* The wake's promise settles: the requests it held go on, on a ready one  *)
(* stamped and proxied.                                                    *)
Release(ready) ==
    /\ req' = [c \in Clients |->
                 IF c \notin Held THEN req[c]
                 ELSE IF ready THEN Quiet ELSE Turned(c)]
    /\ stamp' = IF ready /\ Held # {} THEN "pending" ELSE stamp
    /\ marking' = (marking \/ ready)

(* Variant: a failed wake stays in wakeInProgress.                         *)
SettleKeepingFailures(ready) ==
    /\ Release(ready)
    /\ wake' = IF ready THEN NoWake ELSE [NoWake EXCEPT !.pc = "failed"]

Settle(ready) == Release(ready) /\ wake' = NoWake

WakePatch ==
    /\ wake.pc = "patch"
    /\ SetReplicas(1)
    /\ wake' = [wake EXCEPT !.pc = "patched"]
    /\ UNCHANGED <<cache, registry, act, crowd, req, stamp, marking, scaler,
                   oper, faults>>

(* The PATCH is answered: the cache takes the value that was asked for.    *)
WakePatched ==
    /\ wake.pc = "patched"
    /\ cache' = [cache EXCEPT !["replicas"] = 1]
    /\ wake' = [wake EXCEPT !.pc = "poll"]
    /\ UNCHANGED <<pods, watch, registry, act, crowd, req, stamp, marking,
                   scaler, oper, faults>>

(* The PATCH fails, before or after it took effect.                        *)
WakePatchFails ==
    /\ wake.pc \in {"patch", "patched"}
    /\ Fault
    /\ Settle(FALSE)
    /\ UNCHANGED <<pods, watch, cache, registry, act, crowd, scaler, oper>>

WakeUnchanged ==
    UNCHANGED <<pods, watch, registry, act, crowd, scaler, oper, faults>>

(* waitForReadyEndpoint: the cache first, else one GET, which may fail and *)
(* is then tried again; until the cold-start budget is spent.              *)
WakePoll ==
    /\ wake.pc = "poll"
    /\ IF cache["ready"] = 1 THEN Settle(TRUE)
       ELSE /\ wake' = [pc |-> "got", val |-> pods["ready"]]
            /\ UNCHANGED <<req, stamp, marking>>
    /\ WakeUnchanged /\ UNCHANGED cache

WakeGot ==
    /\ wake.pc = "got"
    /\ cache' = [cache EXCEPT !["ready"] = wake.val]
    /\ IF wake.val = 1 THEN Settle(TRUE)
       ELSE /\ wake' = [NoWake EXCEPT !.pc = "poll"]
            /\ UNCHANGED <<req, stamp, marking>>
    /\ WakeUnchanged

WakeGetFails ==
    /\ wake.pc = "got"
    /\ wake' = [NoWake EXCEPT !.pc = "poll"]
    /\ WakeUnchanged /\ UNCHANGED <<cache, req, stamp, marking>>

WakeTimeout ==
    /\ wake.pc = "poll"
    /\ Settle(FALSE)
    /\ WakeUnchanged /\ UNCHANGED cache

Waking == \/ WakePatch \/ WakePatched \/ WakePatchFails
          \/ WakePoll  \/ WakeGot     \/ WakeGetFails \/ WakeTimeout

-----------------------------------------------------------------------------
(* handleRequest.                                                          *)

ClientUnchanged ==
    UNCHANGED <<pods, watch, registry, act, crowd, marking, scaler, oper>>

(* getReplicas has answered n: stamp and proxy, or hold for a wake.        *)
Route(c, n) ==
    IF n = 1
      THEN /\ req' = [req EXCEPT ![c] = Quiet]
           /\ stamp' = "pending"
           /\ UNCHANGED wake
      ELSE /\ req' = [req EXCEPT ![c] = [Quiet EXCEPT !.pc = "held"]]
           /\ EnsureWake

RequestArrives(c) ==
    /\ crowd = "here" /\ req[c].pc = "idle"
    /\ IF cache["replicas"] = Unknown
         THEN /\ req' = [req EXCEPT
                            ![c] = [pc |-> "got", val |-> pods["replicas"]]]
              /\ UNCHANGED <<wake, stamp>>
         ELSE Route(c, cache["replicas"])
    /\ ClientUnchanged /\ UNCHANGED <<cache, faults>>

RequestGetFails(c) ==
    /\ req[c].pc = "got"
    /\ Fault
    /\ req' = [req EXCEPT ![c] = Quiet]
    /\ ClientUnchanged /\ UNCHANGED <<cache, wake, stamp>>

RequestGot(c) ==
    /\ req[c].pc = "got"
    /\ cache' = [cache EXCEPT !["replicas"] = req[c].val]
    /\ Route(c, req[c].val)
    /\ ClientUnchanged /\ UNCHANGED faults

(* The grace window ends before the wake.                                  *)
GraceEnds(c) ==
    /\ req[c].pc = "held"
    /\ req' = [req EXCEPT ![c] = Turned(c)]
    /\ ClientUnchanged /\ UNCHANGED <<cache, wake, stamp, faults>>

(* The page's wake-status poll.  Ready makes it reload, not ready wakes.   *)
StatusAnswer(c, n) ==
    IF n = 1
      THEN req' = [req EXCEPT ![c] = Quiet] /\ UNCHANGED <<wake, stamp>>
      ELSE req' = [req EXCEPT ![c] = [Quiet EXCEPT !.pc = "page"]]
           /\ EnsureWake

PagePolls(c) ==
    /\ req[c].pc = "page"
    /\ IF cache["ready"] = Unknown
         THEN /\ req' = [req EXCEPT
                            ![c] = [pc |-> "peeked", val |-> pods["ready"]]]
              /\ UNCHANGED <<wake, stamp>>
         ELSE StatusAnswer(c, cache["ready"])
    /\ ClientUnchanged /\ UNCHANGED <<cache, faults>>

PagePeekFails(c) ==
    /\ req[c].pc = "peeked"
    /\ StatusAnswer(c, 0)
    /\ ClientUnchanged /\ UNCHANGED <<cache, faults>>

PagePeeked(c) ==
    /\ req[c].pc = "peeked"
    /\ cache' = [cache EXCEPT !["ready"] = req[c].val]
    /\ StatusAnswer(c, req[c].val)
    /\ ClientUnchanged /\ UNCHANGED faults

PageCloses(c) ==
    /\ req[c].pc = "page"
    /\ req' = [req EXCEPT ![c] = Quiet]
    /\ ClientUnchanged /\ UNCHANGED <<cache, wake, stamp, faults>>

Serving(c) ==
    \/ RequestArrives(c) \/ RequestGot(c) \/ RequestGetFails(c)
    \/ GraceEnds(c)      \/ PagePolls(c)  \/ PagePeeked(c)
    \/ PagePeekFails(c)

-----------------------------------------------------------------------------
(* The activator's writes to the registry, which nobody waits for.         *)

WriteUnchanged ==
    UNCHANGED <<pods, watch, cache, crowd, req, wake, scaler, oper>>

(* recordActivity; the scaler may hold an older last_request_at.           *)
Snapshot == {"check", "get", "patch"}

StampLands ==
    /\ stamp = "pending" /\ stamp' = "none"
    /\ act' = [seen |-> "seen", age |-> "recent",
               since |-> IF scaler \in Snapshot THEN "after" ELSE "before"]
    /\ WriteUnchanged /\ UNCHANGED <<registry, marking, faults>>

StampFails ==
    /\ stamp = "pending" /\ stamp' = "none"
    /\ Fault
    /\ WriteUnchanged /\ UNCHANGED <<act, registry, marking>>

(* markReady: an UPDATE of a sleeping row.                                 *)
MarkUpdate ==
    /\ marking /\ marking' = FALSE
    /\ registry' = IF registry.state = "sleeping" /\ registry.desired = "ready"
                THEN [registry EXCEPT !.state = "ready"] ELSE registry
    /\ WriteUnchanged /\ UNCHANGED <<act, stamp, faults>>

MarkFails ==
    /\ marking /\ marking' = FALSE
    /\ Fault
    /\ WriteUnchanged /\ UNCHANGED <<act, registry, stamp>>

Writing == StampLands \/ StampFails \/ MarkUpdate \/ MarkFails

ActivatorDies ==
    /\ Fault
    /\ watch' = [k \in Kinds |-> Closed]
    /\ cache' = [k \in Kinds |-> Unknown]
    /\ req' = [c \in Clients |-> Quiet]
    /\ wake' = NoWake /\ stamp' = "none" /\ marking' = FALSE
    /\ UNCHANGED <<pods, registry, act, crowd, scaler, oper>>

-----------------------------------------------------------------------------
(* The idle scaler.  The CronJob forbids a second run beside the first.    *)

ScalerUnchanged == UNCHANGED <<cache, crowd, req, tasks, oper>>

ScalerGoto(from, to) == scaler = from /\ scaler' = to

(* The scaler is done with its snapshot of last_request_at.                *)
ForgetSnapshot == act' = [act EXCEPT !.since = "before"]

(* Variant: tenants the activator never saw are eligible.                  *)
EligibleUnseen ==
    registry.state = "ready" /\ registry.desired = "ready" /\ act.age = "idle"

(* queryIdleEligibleTenants, with the snapshot of last_request_at.         *)
Eligible ==
    /\ registry.state = "ready" /\ registry.desired = "ready"
    /\ act.seen = "seen" /\ act.age = "idle"

ScalerSelect ==
    /\ ScalerGoto("idle", IF Eligible THEN "check" ELSE "sync")
    /\ ScalerUnchanged /\ UNCHANGED <<pods, watch, registry, act, faults>>

(* hasActivitySince                                                        *)
ScalerCheck ==
    /\ ScalerGoto("check", IF act.since = "after" THEN "sync" ELSE "get")
    /\ ForgetSnapshot
    /\ ScalerUnchanged /\ UNCHANGED <<pods, watch, registry, faults>>

ScalerGet ==
    /\ \/ /\ pods["replicas"] = 0 /\ ScalerGoto("get", "update")
          /\ ForgetSnapshot
       \/ pods["replicas"] = 1 /\ ScalerGoto("get", "patch") /\ UNCHANGED act
    /\ ScalerUnchanged /\ UNCHANGED <<pods, watch, registry, faults>>

ScalerPatch ==
    /\ ScalerGoto("patch", "update")
    /\ SetReplicas(0)
    /\ ForgetSnapshot
    /\ ScalerUnchanged /\ UNCHANGED <<registry, faults>>

ScalerUpdate ==
    /\ ScalerGoto("update", "sync")
    /\ registry' = IF registry.state = "ready" THEN [registry EXCEPT !.state = "sleeping"]
              ELSE registry
    /\ ScalerUnchanged /\ UNCHANGED <<pods, watch, act, faults>>

(* Sync back: sleeping tenants whose deployment has replicas.              *)
ScalerSync ==
    /\ ScalerGoto("sync", IF registry.state = "sleeping" /\ registry.desired = "ready"
                            THEN "syncGet" ELSE "idle")
    /\ ScalerUnchanged /\ UNCHANGED <<pods, watch, registry, act, faults>>

(* Variant: more than one replica counts as awake.                         *)
ScalerSyncGetMany ==
    /\ ScalerGoto("syncGet", IF pods["replicas"] > 1 THEN "syncUpdate"
                                                     ELSE "idle")
    /\ ScalerUnchanged /\ UNCHANGED <<pods, watch, registry, act, faults>>

ScalerSyncGet ==
    /\ ScalerGoto("syncGet", IF pods["replicas"] > 0 THEN "syncUpdate"
                                                     ELSE "idle")
    /\ ScalerUnchanged /\ UNCHANGED <<pods, watch, registry, act, faults>>

ScalerSyncUpdate ==
    /\ ScalerGoto("syncUpdate", "idle")
    /\ registry' = IF registry.state = "sleeping" THEN [registry EXCEPT !.state = "ready"]
              ELSE registry
    /\ ScalerUnchanged /\ UNCHANGED <<pods, watch, act, faults>>

(* A statement or a call fails: the scale-down goes on to the sync, the    *)
(* sync gives up.  Or the job's pod dies.                                  *)
ScalerFails ==
    /\ scaler # "idle"
    /\ Fault
    /\ scaler' \in IF scaler \in {"check", "get", "patch", "update"}
                     THEN {"sync", "idle"} ELSE {"idle"}
    /\ \/ scaler = "patch" /\ SetReplicas(0)
       \/ UNCHANGED <<pods, watch>>
    /\ ForgetSnapshot
    /\ ScalerUnchanged /\ UNCHANGED <<registry>>

Scaling == \/ ScalerSelect \/ ScalerCheck \/ ScalerGet \/ ScalerPatch
           \/ ScalerUpdate \/ ScalerSync \/ ScalerSyncGet \/ ScalerSyncUpdate
           \/ ScalerFails

-----------------------------------------------------------------------------
(* People and time.                                                        *)

PeopleUnchanged == UNCHANGED <<cache, req, tasks, scaler>>

(* PATCH .../state: the gate is read outside the write's transaction.      *)
HasBeenSeenByActivator == act.seen = "seen"

OperatorPatch ==
    /\ oper = "none" /\ Fault
    /\ \E s \in OperatorStates :
        /\ s = "sleeping" => HasBeenSeenByActivator
        /\ oper' = s
    /\ PeopleUnchanged /\ UNCHANGED <<pods, watch, registry, act, crowd>>

OperatorWrite ==
    /\ oper # "none" /\ oper' = "none"
    /\ registry' = [registry EXCEPT !.state = oper]
    /\ PeopleUnchanged /\ UNCHANGED <<pods, watch, act, crowd, faults>>

OperatorDesires ==
    /\ OperatorStates # {} /\ Fault
    /\ \E d \in Desired : registry' = [registry EXCEPT !.desired = d]
    /\ PeopleUnchanged /\ UNCHANGED <<pods, watch, act, crowd, oper>>

(* kubectl scale                                                           *)
OperatorScale ==
    /\ Fault
    /\ \E n \in OperatorScales : SetReplicas(n)
    /\ PeopleUnchanged /\ UNCHANGED <<registry, act, crowd, oper>>

Operator == OperatorPatch \/ OperatorWrite \/ OperatorDesires \/ OperatorScale

CrowdChanges ==
    /\ crowd' = IF crowd = "here" THEN "away" ELSE "here"
    /\ \A c \in Clients : req[c].pc \notin {"page", "peeked"}
    /\ PeopleUnchanged
    /\ UNCHANGED <<pods, watch, registry, act, oper, faults>>

(* The idle threshold passes with nobody about, longer than any call, any  *)
(* wake and any run of the scaler.                                         *)
AtRest == /\ \A c \in Clients : req[c].pc = "idle"
          /\ wake.pc = "none" /\ stamp = "none" /\ marking = FALSE
          /\ scaler = "idle" /\ oper = "none"

TimePasses ==
    /\ crowd = "away" /\ AtRest
    /\ act.age = "recent"
    /\ act' = [act EXCEPT !.age = "idle"]
    /\ PeopleUnchanged
    /\ UNCHANGED <<pods, watch, registry, crowd, oper, faults>>

-----------------------------------------------------------------------------
ScaleNext ==
    \/ PodReady \/ PodGone \/ PodFails
    \/ \E k \in Kinds : WatchStarts(k) \/ WatchEnds(k) \/ WatchEvent(k)
    \/ Waking
    \/ \E c \in Clients : Serving(c) \/ PageCloses(c)
    \/ Writing \/ ActivatorDies
    \/ Scaling
    \/ Operator \/ CrowdChanges \/ TimePasses

ScaleSpec == ScaleInit /\ [][ScaleNext]_scaleVars

(* Pods start and stop; calls settle and a wake's budget runs out; the     *)
(* CronJob runs every five minutes; who wants the tenant asks again; with  *)
(* nobody about, half an hour passes between two runs of the job.  A       *)
(* stream lives for minutes and the server ends it: it delivers again and  *)
(* again, but may break before any one event.                              *)
Fairness ==
    /\ WF_scaleVars(PodReady) /\ WF_scaleVars(PodGone)
    /\ \A k \in Kinds : /\ WF_scaleVars(WatchStarts(k)) /\ WF_scaleVars(WatchEnds(k))
                        /\ SF_scaleVars(WatchEvent(k))
    /\ WF_scaleVars(Waking) /\ SF_scaleVars(WakeTimeout)
    /\ \A c \in Clients : WF_scaleVars(Serving(c))
    /\ WF_scaleVars(StampLands) /\ WF_scaleVars(MarkUpdate)
    /\ WF_scaleVars(Scaling) /\ WF_scaleVars(OperatorWrite)
    /\ SF_scaleVars(TimePasses)

FairScaleSpec == ScaleSpec /\ Fairness

-----------------------------------------------------------------------------
(* Properties.                                                             *)

(* Every variable holds a value of its type.                               *)
ScaleTypeOK ==
    /\ pods \in [Kinds -> Counts]
    /\ watch \in [Kinds -> Stream]
    /\ cache \in [Kinds -> Counts \cup {Unknown}]
    /\ registry \in [state: RowStates, desired: Desired]
    /\ act \in Activity
    /\ crowd \in {"here", "away"}
    /\ req \in [Clients -> Request]
    /\ wake \in Wake
    /\ stamp \in {"none", "pending"}
    /\ marking \in BOOLEAN
    /\ scaler \in ScalerPCs
    /\ oper \in OperatorStates \cup {"none"}
    /\ faults \in 0 .. MaxFaults

(* Whoever is held waits for a wake that is in progress: the promise that  *)
(* a request joins settles with it, however wakes fail, time out and meet  *)
(* requests that come meanwhile (ensureWake's finally, handleRequest).     *)
HeldIsAwaited == Held # {} => wake.pc # "none"

(* Only a tenant the activator has seen, and so can wake, is put to sleep: *)
(* the scaler's query and the control plane's gate (app.ts:1484) read the  *)
(* flag long before the row is written.                                    *)
SleepingIsWakeable ==
    registry.state = "sleeping" \/ scaler \in {"get", "patch", "update"} =>
        act.seen = "seen"

(* What makes it inductive: the flag is set before anybody decides.        *)
Deciding == \/ registry.state = "sleeping" \/ oper = "sleeping"
            \/ scaler \in {"check", "get", "patch", "update"}
SeenInv  == /\ act \in Activity
            /\ registry \in [state: RowStates, desired: Desired]
            /\ oper \in OperatorStates \cup {"none"}
            /\ Deciding => act.seen = "seen"

(* A tenant somebody keeps asking for is served in the end, whatever the   *)
(* scaler does and however stale the activator's caches are                *)
(* (handleRequest, ensureWake, runWatchLoop).                              *)
WokenUp == crowd = "here" /\ pods["ready"] = 0 ~>
               pods["ready"] = 1 \/ crowd = "away"

(* Registry and deployment agree in the end: a tenant that is awake does   *)
(* not stay sleeping in the registry, one that is down and unused does not *)
(* stay ready (the scaler's two queries, markReady).                       *)
Managed == registry.desired = "ready" /\ act.seen = "seen"
RegistryFollows ==
    /\ registry.state = "sleeping" /\ pods["replicas"] = 1 ~>
           registry.state # "sleeping" \/ pods["replicas"] = 0 \/ ~Managed
    /\ registry.state = "ready" /\ pods["replicas"] = 0 ~>
           registry.state # "ready" \/ pods["replicas"] = 1 \/ ~Managed
           \/ crowd = "here"

(* When the cluster stops changing the activator's caches come to agree    *)
(* with it, though events were lost and answers came late.                 *)
CachesHeal ==
    \A k \in Kinds, n \in Counts :
        <>[](pods[k] = n) => <>[](cache[k] \in {n, Unknown})

=============================================================================
