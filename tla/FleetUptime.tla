---------------------------- MODULE FleetUptime ----------------------------
(***************************************************************************)
(* The transition log of a tenant and the ready time that the fleet status *)
(* computes from it (getFleetUptimes).  A writer's transaction is stamped  *)
(* when it begins and writes once it has the tenant's row to itself, so    *)
(* that two writers may be stamped in one order and write in the other.    *)
(* The four queries of the report are taken as one read.                   *)
(***************************************************************************)
EXTENDS Integers, FiniteSets, Sequences, SequencesExt, FiniteSetsExt

CONSTANTS
    Writers,    \* transactions that change the tenant's state
    Window,     \* windowHours, in ticks of the clock
    MaxTime,    \* bound on the clock
    MaxWrites   \* bound on the transitions recorded

VARIABLES
    clock,      \* the database's clock
    row,        \* current_state
    log,        \* state_transitions: the position is the id
    tx,         \* the transaction of each writer
    settled     \* when the row was last written

vars == <<clock, row, log, tx, settled>>

\* The states that matter to the report: ready, and two that are not.
States == {"provisioning", "ready", "maintenance"}

\* A writer between transactions.
NoTx == [open |-> FALSE, at |-> 0, to |-> "ready"]

\* createTenant records a transition, too.
Init ==
    /\ clock = 0 /\ row = "provisioning" /\ settled = 0
    /\ log = <<[from |-> "provisioning", to |-> "provisioning", at |-> 0]>>
    /\ tx = [w \in Writers |-> NoTx]

Tick ==
    /\ clock < MaxTime /\ clock' = clock + 1
    /\ UNCHANGED <<row, log, tx, settled>>

\* BEGIN: from here on CURRENT_TIMESTAMP is fixed.
Begin(w, state) ==
    /\ ~tx[w].open
    /\ tx' = [tx EXCEPT ![w] = [open |-> TRUE, at |-> clock, to |-> state]]
    /\ UNCHANGED <<clock, row, log, settled>>

\* The row is locked, changed and recorded, and the transaction committed.
UpdateTenantState(w) ==
    /\ tx[w].open /\ Len(log) < MaxWrites
    /\ row' = tx[w].to
    /\ log' = Append(log, [from |-> row, to |-> tx[w].to, at |-> tx[w].at])
    /\ tx' = [tx EXCEPT ![w] = NoTx]
    /\ settled' = clock
    /\ UNCHANGED clock

Next ==
    \/ Tick
    \/ \E w \in Writers : UpdateTenantState(w) \/ \E s \in States : Begin(w, s)

Spec == Init /\ [][Next]_vars

-----------------------------------------------------------------------------
(* The report. *)

WindowStart == clock - Window

\* Query A: the transitions in the window by time, then id.
InWindow ==
    SetToSortSeq({i \in DOMAIN log : log[i].at >= WindowStart /\ log[i].at < clock},
                 LAMBDA i, j : log[i].at < log[j].at \/ (log[i].at = log[j].at /\ i < j))

\* Query C: the ids of the transitions before it.
Before == {i \in DOMAIN log : log[i].at < WindowStart}

StateAtWindowStart ==
    IF Before # {} THEN log[Max(Before)].to
    ELSE IF InWindow # <<>> THEN log[Head(InWindow)].from
    ELSE row

\* Interval k of the timeline follows the k-th transition in the window.
IntervalState(k) == IF k = 0 THEN StateAtWindowStart ELSE log[InWindow[k]].to
IntervalStart(k) == IF k = 0 THEN WindowStart ELSE log[InWindow[k]].at
IntervalEnd(k) == IF k = Len(InWindow) THEN clock ELSE IntervalStart(k + 1)

TotalReady ==
    MapThenSumSet(LAMBDA k : IntervalEnd(k) - IntervalStart(k),
                  {k \in 0 .. Len(InWindow) : IntervalState(k) = "ready"})

-----------------------------------------------------------------------------

\* "uptimePct is % of window spent in `ready` state" (getFleetUptimes), said
\* of the time since the tenant's state was last written: it counts when
\* the tenant is ready and does not when it is not.
UptimeIsReadyTime ==
    LET since == Max({settled, WindowStart})
    IN  IF row = "ready" THEN TotalReady >= clock - since
        ELSE TotalReady <= since - WindowStart

=============================================================================
