----------------------------- MODULE ApiProcess -----------------------------
(***************************************************************************)
(* A tenant's API pods over its migrated database: boot and its schema     *)
(* check, the maintenance gate and the drain that answers the control      *)
(* plane, the SIGTERM shutdown; the browser's apiFetch that retries a      *)
(* gated write; and the operator's PATCH ready <-> maintenance, whose call *)
(* to the pod may time out after it took effect.                           *)
(*                                                                         *)
(* Each write is one apiFetch call.  Express runs the gate and the in-     *)
(* flight counter of a request in one tick, so both are one action.        *)
(***************************************************************************)
EXTENDS Migrations

CONSTANTS
    Pods,           \* the tenant Deployment's pods, over a rolling update
    NoPod,
    Expects,        \* Expects[p]: the files pod p's schema check needs
    Writes,         \* the users' write requests
    Attempts,       \* WAKE_RETRY_MAX_ATTEMPTS
    Patches,        \* the operator's PATCHes of the tenant's state
    Databases,      \* bound: databases a behaviour starts from
    MaxStops        \* bound: pods told to stop, or killed

ASSUME ApiAssumption ==
    /\ Expects \in [Pods -> 1 .. NumFiles]
    /\ NoPod \notin Pods
    /\ Attempts \in Nat
    /\ Databases \subseteq {"new", "migrated"}
    /\ MaxStops \in Nat

VARIABLES
    pod,        \* pod[p]: the process and its controlState
    write,      \* write[w]: the browser's fetch and the handler serving it
    patch,      \* patch[k]: a PATCH /state and the control call it makes
    row,        \* the registry row's current state
    active,     \* wake-retry-status: activeCount
    database,   \* bound: a behaviour with runners, or one with requests
    stops       \* bounded stops so far

apiVars == <<pod, write, patch, row, active, database, stops>>
vars    == <<migrationVars, apiVars>>

Phases == {"off", "up", "stopping", "closing"}
Pod    == [phase: Phases,
           gate: BOOLEAN,           \* maintenance.mode
           inflight: Nat,           \* inflightWrites
           quiet: BOOLEAN]          \* ghost: drained was answered, gate kept
Write  == [pc: {"idle", "wire", "busy", "sleep", "done"},
           at: Pods \cup {NoPod},   \* the pod whose handler has it
           open: BOOLEAN,           \* the response's connection
           settled: BOOLEAN,        \* settle() has run for this attempt
           tries: 0 .. Attempts,    \* attempts; retrying once there is one
           ran: 0 .. Attempts + 1]  \* ghost: handlers started for it
States == {"ready", "maintenance"}
Patch  == [pc: {"idle", "call", "acked", "done"},
           to: States,
           at: Pods \cup {NoPod},   \* the pod whose handler has the call
           job: {"none", "wire", "draining"}]  \* the call at the pod

Booted == [phase |-> "up", gate |-> FALSE, inflight |-> 0, quiet |-> FALSE]
Off    == [Booted EXCEPT !.phase = "off"]
Unsent == [pc |-> "idle", at |-> NoPod, open |-> FALSE, settled |-> TRUE,
           tries |-> 0, ran |-> 0]
Unasked == [pc |-> "idle", to |-> "ready", at |-> NoPod, job |-> "none"]

Up        == {p \in Pods : pod[p].phase = "up"}
Served(p) == {w \in Writes : write[w].at = p}
Open(p)   == {w \in Served(p) : write[w].open}
Calls(p)  == {k \in Patches : patch[k].at = p /\ patch[k].job # "none"}

TypeOK ==
    /\ MigrationsTypeOK
    /\ pod \in [Pods -> Pod]
    /\ write \in [Writes -> Write]
    /\ patch \in [Patches -> Patch]
    /\ row \in States
    /\ active \in Nat
    /\ database \in Databases
    /\ stops \in 0 .. MaxStops

(* A database that has all of its files, or one that has none.  Runners    *)
(* and requests share nothing but the schema check of a pod's boot, so a   *)
(* behaviour has the ones (a new database) or the others (a migrated one). *)
Init ==
    /\ database \in Databases
    /\ runner = [r \in Runners |-> Idle]
    /\ lock = NoRunner /\ crashes = 0
    /\ schema = IF database = "new" THEN <<>> ELSE [i \in Files |-> i]
    /\ ledger = IF database = "new" THEN {} ELSE Files
    /\ pod = [p \in Pods |-> Off]
    /\ write = [w \in Writes |-> Unsent]
    /\ patch = [k \in Patches |-> Unasked]
    /\ row = "ready"
    /\ active = 0
    /\ stops = 0

-----------------------------------------------------------------------------
(* The pod: boot and shutdown. *)

(* createRuntimeNoteStore verifies the schema and throws on what is        *)
(* missing; then listen().  Its data fix-ups are idempotent.               *)
Boot(p) ==
    /\ pod[p].phase = "off"
    /\ 1 .. Expects[p] \subseteq {schema[i] : i \in DOMAIN schema}
    /\ pod' = [pod EXCEPT ![p] = Booted]
    /\ UNCHANGED <<migrationVars, database, write, patch, row, active, stops>>

(* SIGTERM: /ready answers 503, and server.close() stops accepting. *)
Shutdown(p) ==
    /\ pod[p].phase = "up" /\ stops < MaxStops
    /\ pod' = [pod EXCEPT ![p].phase = "stopping"]
    /\ stops' = stops + 1
    /\ UNCHANGED <<migrationVars, database, write, patch, row, active>>

(* Variant: 'close' after 'finish' counts down again. *)
SettleTwice(w, p) == [p EXCEPT !.inflight = IF @ = 0 THEN 0 ELSE @ - 1]

(* The listeners' settle(): once per request, never below zero. *)
Settle(w, p) ==
    IF write[w].settled THEN p ELSE [p EXCEPT !.inflight = IF @ = 0 THEN 0 ELSE @ - 1]

(* What pod record p is once all of S's responses have closed. *)
SettleAll(S, p) ==
    LET n == Cardinality({w \in S : ~write[w].settled})
    IN  [p EXCEPT !.inflight = IF @ < n THEN 0 ELSE @ - n]

(* fetch rejects: the error goes to the caller, and finally ends the retry. *)
Rejected(w) == [write[w] EXCEPT !.pc = "done", !.tries = 0]
Retrying(S) == Cardinality({w \in S : write[w].tries > 0})

(* Variant: the resources close at once, the connections still open. *)
ServerClosedEarly(p) ==
    /\ pod[p].phase = "stopping"
    /\ pod' = [pod EXCEPT ![p].phase = "closing"]
    /\ UNCHANGED <<migrationVars, database, write, patch, row, active, stops>>

(* server.close() calls back once no connection is left: resources close. *)
ServerClosed(p) ==
    /\ pod[p].phase = "stopping"
    /\ Open(p) = {} /\ Calls(p) = {}
    /\ pod' = [pod EXCEPT ![p].phase = "closing"]
    /\ UNCHANGED <<migrationVars, database, write, patch, row, active, stops>>

(* The grace period is over: closeAllConnections(), then the resources.    *)
(* The handlers of the closed connections run on.                          *)
ForceShutdown(p) ==
    /\ pod[p].phase = "stopping"
    /\ pod' = [pod EXCEPT ![p] = SettleAll(Open(p), [@ EXCEPT !.phase = "closing"])]
    /\ write' = [w \in Writes |-> IF w \in Open(p)
                    THEN [Rejected(w) EXCEPT !.open = FALSE, !.settled = TRUE]
                    ELSE write[w]]
    /\ active' = active - Retrying(Open(p))
    /\ patch' = [k \in Patches |-> IF k \in Calls(p) /\ patch[k].pc = "call"
                    THEN [patch[k] EXCEPT !.pc = "done"] ELSE patch[k]]
    /\ UNCHANGED <<migrationVars, database, row, stops>>

(* The process is gone, with its flag, its counter and its handlers: it    *)
(* exits once closeResources ended or timed out, or it is killed.          *)
Gone(p) ==
    /\ pod' = [pod EXCEPT ![p] = Off]
    /\ write' = [w \in Writes |->
                    CASE w \in Open(p)   -> [Rejected(w) EXCEPT !.at = NoPod,
                                                !.open = FALSE, !.settled = TRUE]
                      [] w \in Served(p) \ Open(p) -> [write[w] EXCEPT !.at = NoPod]
                      [] OTHER           -> write[w]]
    /\ active' = active - Retrying(Open(p))
    /\ patch' = [k \in Patches |-> IF k \in Calls(p)
                    THEN [patch[k] EXCEPT !.at = NoPod, !.job = "none",
                            !.pc = IF @ = "call" THEN "done" ELSE @]
                    ELSE patch[k]]
    /\ UNCHANGED <<migrationVars, database, row>>

Exit(p) ==
    /\ pod[p].phase = "closing"
    /\ Gone(p)
    /\ UNCHANGED stops

Kill(p) ==
    /\ pod[p].phase # "off" /\ stops < MaxStops
    /\ Gone(p)
    /\ stops' = stops + 1

-----------------------------------------------------------------------------
(* One write: apiFetch in the browser, middleware and handler in the pod. *)

Fetch(w) ==
    /\ write[w].pc \in {"idle", "sleep"}
    /\ write' = [write EXCEPT ![w].pc = "wire"]
    /\ UNCHANGED <<migrationVars, database, pod, patch, row, active, stops>>

(* Variant: no bound on the attempts. *)
RefuseForever(w) ==
    /\ active' = IF write[w].tries = 0 THEN active + 1 ELSE active
    /\ write' = [write EXCEPT ![w].pc = "sleep", ![w].tries = 1]

(* A marked 503 (retryableDelayMs): apiFetch sleeps for Retry-After before  *)
(* it fetches again, unless the attempts are used up or the 90 seconds are *)
(* (at any moment); then the 503 goes to the caller.                       *)
Refuse(w) ==
    \/ /\ write[w].tries < Attempts
       /\ active' = IF write[w].tries = 0 THEN active + 1 ELSE active
       /\ write' = [write EXCEPT ![w].pc = "sleep", ![w].tries = @ + 1]
    \/ /\ active' = active - Retrying({w})
       /\ write' = [write EXCEPT ![w] = Rejected(w)]

(* The activator answers 503 warming: no pod has seen the request.  One   *)
(* may be up: the activator answers from what it last heard of the tenant. *)
Warming(w) ==
    /\ write[w].pc = "wire"
    /\ Refuse(w)
    /\ UNCHANGED <<migrationVars, pod, patch, row, database, stops>>

(* The request reaches a pod.  Gate shut: 503 tenant_in_maintenance.       *)
(* Otherwise it is counted, and its handler starts.                        *)
Receive(w, p) ==
    /\ write[w].pc = "wire" /\ p \in Up
    /\ \/ /\ pod[p].gate
          /\ Refuse(w)
          /\ UNCHANGED pod
       \/ /\ ~pod[p].gate
          /\ pod' = [pod EXCEPT ![p].inflight = @ + 1]
          /\ write' = [write EXCEPT ![w].pc = "busy", ![w].at = p,
                            ![w].open = TRUE, ![w].settled = FALSE,
                            ![w].ran = @ + 1]
          /\ UNCHANGED active
    /\ UNCHANGED <<migrationVars, database, patch, row, stops>>

(* The handler answers (2xx or an error without the marker).  'finish'     *)
(* settles; the client is handed the response.                             *)
Finish(w) ==
    /\ write[w].pc = "busy" /\ write[w].open
    /\ pod' = [pod EXCEPT ![write[w].at] = Settle(w, @)]
    /\ write' = [write EXCEPT ![w] = [Rejected(w) EXCEPT !.settled = TRUE]]
    /\ active' = active - Retrying({w})
    /\ UNCHANGED <<migrationVars, database, patch, row, stops>>

(* Variant: a lost connection is retried like a gated request. *)
CloseAndRetry(w) ==
    /\ write[w].open
    /\ pod' = [pod EXCEPT ![write[w].at] = Settle(w, @)]
    /\ write' = [write EXCEPT ![w].pc = IF @ = "busy" THEN "sleep" ELSE @,
                            ![w].open = FALSE, ![w].settled = TRUE,
                            ![w].at = NoPod]
    /\ UNCHANGED <<migrationVars, database, patch, row, active, stops>>

(* 'close' follows 'finish', or a client that aborted or lost its          *)
(* connection: it settles too, and the handler may still be running.       *)
Close(w) ==
    /\ write[w].open
    /\ pod' = [pod EXCEPT ![write[w].at] = Settle(w, @)]
    /\ write' = [write EXCEPT ![w] = [Rejected(w) EXCEPT !.open = FALSE,
                            !.settled = TRUE,
                            !.at = IF write[w].pc = "busy" THEN @ ELSE NoPod]]
    /\ active' = active - Retrying({w})
    /\ UNCHANGED <<migrationVars, database, patch, row, stops>>

(* A handler ends whose client is gone. *)
Abandoned(w) ==
    /\ write[w].at # NoPod /\ ~write[w].open
    /\ write' = [write EXCEPT ![w].at = NoPod]
    /\ UNCHANGED <<migrationVars, database, pod, patch, row, active, stops>>

(* fetch itself fails: nobody listens, or the request is lost. *)
Unreachable(w) ==
    /\ write[w].pc = "wire"
    /\ write' = [write EXCEPT ![w] = Rejected(w)]
    /\ active' = active - Retrying({w})
    /\ UNCHANGED <<migrationVars, pod, patch, row, database, stops>>

(* The caller's AbortSignal ends the sleep. *)
Abort(w) ==
    /\ write[w].pc = "sleep"
    /\ write' = [write EXCEPT ![w] = Rejected(w)]
    /\ active' = active - Retrying({w})
    /\ UNCHANGED <<migrationVars, pod, patch, row, database, stops>>

-----------------------------------------------------------------------------
(* PATCH /tenants/:id/state between ready and maintenance. *)

(* The handler read the row: a transition calls the tenant first, through  *)
(* its Service; any other target is written at once.                       *)
PatchState(k, to) ==
    /\ patch[k].pc = "idle"
    /\ patch' = [patch EXCEPT ![k] = IF row = to
                    THEN [@ EXCEPT !.pc = "acked", !.to = to]
                    ELSE [@ EXCEPT !.pc = "call", !.to = to, !.job = "wire"]]
    /\ UNCHANGED <<migrationVars, database, pod, write, row, active, stops>>

(* POST /_control/maintenance passes the gate.  Enable shuts it and waits  *)
(* for the counter; disable opens it and answers.                          *)
Control(k, p) ==
    /\ patch[k].job = "wire" /\ p \in Up
    /\ \/ /\ patch[k].to = "maintenance"
          /\ pod' = [pod EXCEPT ![p].gate = TRUE]
          /\ patch' = [patch EXCEPT ![k].job = "draining", ![k].at = p]
       \/ /\ patch[k].to = "ready"
          /\ pod' = [pod EXCEPT ![p].gate = FALSE, ![p].quiet = FALSE]
          /\ patch' = [patch EXCEPT ![k].job = "none",
                                    ![k].pc = IF @ = "call" THEN "acked" ELSE @]
    /\ UNCHANGED <<migrationVars, database, write, row, active, stops>>

(* waitForInflightWriteDrain saw the counter at zero, or its deadline; the *)
(* answer tells which.  (Another call may have opened the gate meanwhile.) *)
Drained(k) ==
    /\ patch[k].job = "draining"
    /\ LET p == patch[k].at
           drained == pod[p].inflight = 0
       IN  pod' = [pod EXCEPT ![p].quiet = @ \/ (drained /\ pod[p].gate)]
    /\ patch' = [patch EXCEPT ![k].job = "none", ![k].at = NoPod,
                              ![k].pc = IF @ = "call" THEN "acked" ELSE @]
    /\ UNCHANGED <<migrationVars, database, write, row, active, stops>>

(* Ten seconds without an answer, or nobody there: 502, the row is left.   *)
(* A call that is on its way still arrives.                                *)
ControlFails(k) ==
    /\ patch[k].pc = "call"
    /\ \/ patch' = [patch EXCEPT ![k].pc = "done"]
       \/ /\ patch[k].job = "wire"
          /\ patch' = [patch EXCEPT ![k].pc = "done", ![k].job = "none"]
    /\ UNCHANGED <<migrationVars, database, pod, write, row, active, stops>>

LostCall(k) ==
    /\ patch[k].pc = "done" /\ patch[k].job = "wire"
    /\ patch' = [patch EXCEPT ![k].job = "none"]
    /\ UNCHANGED <<migrationVars, database, pod, write, row, active, stops>>

(* updateTenantState. *)
UpdateRow(k) ==
    /\ patch[k].pc = "acked"
    /\ row' = patch[k].to
    /\ patch' = [patch EXCEPT ![k].pc = "done"]
    /\ UNCHANGED <<migrationVars, database, pod, write, active, stops>>

-----------------------------------------------------------------------------
WriteStep(w) ==
    \/ Fetch(w) \/ Warming(w) \/ (\E p \in Pods : Receive(w, p))
    \/ Finish(w) \/ Close(w) \/ Abandoned(w) \/ Unreachable(w)
    \/ Abort(w)

PatchStep(k) ==
    \/ (\E s \in States : PatchState(k, s)) \/ (\E p \in Pods : Control(k, p)) \/ Drained(k)
    \/ ControlFails(k) \/ LostCall(k) \/ UpdateRow(k)

StopStep(p) == ServerClosed(p) \/ ForceShutdown(p) \/ Exit(p)

Next ==
    \/ database = "new" /\ MigrationsNext /\ UNCHANGED apiVars
    \/ \E p \in Pods : Boot(p) \/ Shutdown(p) \/ Kill(p) \/ StopStep(p)
    \/ database = "migrated" /\ \E w \in Writes : WriteStep(w)
    \/ database = "migrated" /\ \E k \in Patches : PatchStep(k)

(* Postgres answers a runner or ends its session; timers fire; a handler   *)
(* answers, or its connection is lost.  Nobody need start a write, abort   *)
(* one, PATCH or stop a pod.                                               *)
Spec ==
    /\ Init /\ [][Next]_vars
    /\ \A r \in Runners : WF_vars(database = "new" /\ Advance(r) /\ UNCHANGED apiVars)
    /\ \A p \in Pods : WF_vars(StopStep(p))
    /\ \A w \in Writes : WF_vars(write[w].pc # "idle" /\ WriteStep(w))
    /\ \A k \in Patches : WF_vars(patch[k].pc # "idle" /\ PatchStep(k))

-----------------------------------------------------------------------------
(* Retrying is safe (api-fetch.ts): whatever gates, wakes, restarts and    *)
(* lost connections a write meets, at most one handler ever runs it.       *)
WrittenOnce == \A w \in Writes : write[w].ran <= 1

(* "Drained" means quiet: from the moment a pod tells the control plane    *)
(* that it is drained until its gate is opened again, no request it        *)
(* answers for is still writing.  (A handler whose client went away is no  *)
(* longer counted, and may be.)                                            *)
QuietWhileDrained ==
    \A p \in Pods : pod[p].quiet =>
        \A w \in Open(p) : write[w].pc # "busy"

(* A stopping pod closes its database pool only when no client waits for   *)
(* an answer any more: they have theirs, or the grace period is over.      *)
PoolOutlivesClients ==
    \A p \in Pods : pod[p].phase = "closing" =>
        \A w \in Open(p) : write[w].pc # "busy"

(* The "reconnecting" banner goes away, a pod told to stop is gone, and a  *)
(* runner gets through its files or gives up.                              *)
RetriesEnd == active > 0 ~> active = 0
StopsEnd   == \A p \in Pods : pod[p].phase = "stopping" ~> pod[p].phase = "off"
RunnersEnd == \A r \in Runners : runner[r].pc = "lock" ~> runner[r].pc \notin Live
EverythingEnds == RetriesEnd /\ StopsEnd /\ RunnersEnd

=============================================================================
