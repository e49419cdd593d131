--------------------------- MODULE ApiProcessProofs ---------------------------
(* Proofs about Migrations and ApiProcess, for any runners, pods, writes   *)
(* and PATCHes: the ledger tells the schema, a write runs at most once, a  *)
(* drained pod is quiet, and its pool outlives its clients.                *)
EXTENDS ApiProcess, FiniteSetTheorems, TLAPS

-----------------------------------------------------------------------------
(* The migration runner.  The session of a dead process goes on from where *)
(* the process was.                                                        *)
At(s)    == IF s.pc = "dead" THEN s.at ELSE s.pc
Stage(r) == At(runner[r])
Applied  == Len(schema)

(* From the moment it got the lock until it gave it back, the lock is      *)
(* still the session's: so one session at a time is past "lock".           *)
HoldsLock == \A r \in Runners : Stage(r) \in Live \ {"lock"} => lock = r

(* The pending list a session read is not stale: it is what the schema     *)
(* lacks, and after a COMMIT the file just applied too.                    *)
KnowsPending ==
    \A r \in Runners :
        /\ Stage(r) \in {"up", "open", "commit"} =>
               runner[r].todo = (Applied + 1) .. Needs[r]
        /\ Stage(r) \in {"open", "commit"} => Applied < Needs[r]
        /\ Stage(r) = "log" =>
               /\ runner[r].todo = Applied .. Needs[r]
               /\ Applied <= Needs[r] /\ Applied > 0

MigrationsInv == MigrationsTypeOK /\ LedgerIsSchema /\ HoldsLock /\ KnowsPending

LEMMA FirstOfInterval ==
  ASSUME NEW a \in Nat, NEW b \in Nat, a <= b
  PROVE  First(a .. b) = a
<1>1. a \in a .. b /\ \A g \in a .. b : a <= g
  OBVIOUS
<1>2. \A f \in a .. b : (\A g \in a .. b : f <= g) => f = a
  OBVIOUS
<1>. QED
  BY <1>1, <1>2 DEF First

LEMMA IdleRunner == Idle \in Runner
  BY MigrationsAssumption DEF Idle, Runner

(* One more file, the next one, is committed with its row.                 *)
LEMMA AppliedGrows ==
  ASSUME MigrationsTypeOK, LedgerIsSchema, Applied + 1 \in Files, Apply(Applied + 1)
  PROVE  /\ Len(schema') = Applied + 1
         /\ schema' \in Seq(Files) /\ ledger' \subseteq Files
         /\ schema' = [i \in 1 .. Len(schema') |-> i]
         /\ ledger' = 1 .. Len(schema')
<1>1. schema' = Append(schema, Applied + 1) /\ ledger' = ledger \cup {Applied + 1}
  BY DEF Apply
<1>2. schema \in Seq(Files) /\ Applied \in Nat /\ Applied + 1 \in Files
  BY DEF MigrationsTypeOK, Applied
<1>3. Len(schema') = Applied + 1 /\ schema' \in Seq(Files)
  BY <1>1, <1>2 DEF Applied
<1>4. \A i \in 1 .. Applied : schema'[i] = i
  BY <1>1, <1>2 DEF LedgerIsSchema, Applied
<1>5. schema'[Applied + 1] = Applied + 1
  BY <1>1, <1>2 DEF Applied
<1>6. schema' = [i \in 1 .. Len(schema') |-> schema'[i]]
  BY <1>3
<1>7. schema' = [i \in 1 .. Len(schema') |-> i]
  BY <1>2, <1>3, <1>4, <1>5, <1>6
<1>8. ledger' = 1 .. Len(schema')
  BY <1>1, <1>2, <1>3 DEF LedgerIsSchema, Applied
<1>. QED
  BY <1>2, <1>3, <1>7, <1>8, MigrationsAssumption DEF Files

LEMMA MigrationsStep ==
  ASSUME MigrationsInv, MigrationsNext
  PROVE  MigrationsInv'
<1>. USE MigrationsAssumption
<1> PICK r \in Runners : Advance(r) \/ FailFile(r) \/ Die(r) \/ Late(r) \/ Again(r)
  BY DEF MigrationsNext
<1>. DEFINE N == Needs[r]
<1>1. /\ runner \in [Runners -> Runner] /\ lock \in Runners \cup {NoRunner}
      /\ ledger = 1 .. Applied /\ Applied \in Nat /\ N \in 1 .. NumFiles
      /\ schema \in Seq(Files) /\ schema = [i \in 1 .. Applied |-> i]
      /\ runner[r] \in Runner
  BY DEF MigrationsInv, MigrationsTypeOK, LedgerIsSchema, Applied
<1>2. \A q \in Runners : Stage(q) \in Live \ {"lock"} => lock = q
  BY DEF MigrationsInv, HoldsLock
(* What is left to show of a step that leaves the schema alone.            *)
<1>3. ASSUME runner' = [runner EXCEPT ![r] = runner'[r]], runner'[r] \in Runner,
             UNCHANGED <<schema, ledger>>,
             lock' \in Runners \cup {NoRunner}, crashes' \in 0 .. MaxCrashes,
             Stage(r)' \in Live \ {"lock"} => lock' = r,
             \A q \in Runners \ {r} : lock = q => lock' = q,
             Stage(r)' \in {"up", "open", "commit"} => runner'[r].todo = (Applied + 1) .. N,
             Stage(r)' \in {"open", "commit"} => Applied < N,
             Stage(r)' = "log" =>
                 runner'[r].todo = Applied .. N /\ Applied <= N /\ Applied > 0
      PROVE  MigrationsInv'
  <2>1. Applied' = Applied
    BY <1>3 DEF Applied
  <2>2. \A q \in Runners \ {r} : Stage(q)' = Stage(q) /\ runner'[q] = runner[q]
    BY <1>1, <1>3 DEF Stage
  <2>3. HoldsLock'
    BY <1>2, <1>3, <2>2 DEF HoldsLock
  <2>4. KnowsPending'
    BY <1>3, <2>1, <2>2 DEF KnowsPending, MigrationsInv
  <2>5. runner' \in [Runners -> Runner]
    BY <1>1, <1>3
  <2>6. MigrationsTypeOK' /\ LedgerIsSchema'
    BY <1>1, <1>3, <2>5 DEF MigrationsTypeOK, MigrationsInv, LedgerIsSchema
  <2>. QED
    BY <2>3, <2>4, <2>6 DEF MigrationsInv
(* The same for a step that commits the next file.                         *)
<1>4. ASSUME runner' = [runner EXCEPT ![r] = runner'[r]], runner'[r] \in Runner,
             Stage(r) = "commit", Apply(Applied + 1), UNCHANGED <<lock, crashes>>,
             Stage(r)' = "log", runner'[r].todo = runner[r].todo
      PROVE  MigrationsInv'
  <2>1. Applied < N /\ lock = r /\ runner'[r].todo = (Applied + 1) .. N
    BY <1>2, <1>4 DEF MigrationsInv, KnowsPending, Live
  <2>2. Applied + 1 \in Files
    BY <1>1, <2>1 DEF Files
  <2>3. /\ Len(schema') = Applied + 1 /\ schema' \in Seq(Files) /\ ledger' \subseteq Files
        /\ schema' = [i \in 1 .. Len(schema') |-> i] /\ ledger' = 1 .. Len(schema')
    BY <1>4, <2>2, AppliedGrows DEF MigrationsInv
  <2>4. Applied' = Applied + 1
    BY <2>3 DEF Applied
  <2>5. \A q \in Runners \ {r} : Stage(q)' \notin Live \ {"lock"}
    BY <1>1, <1>2, <1>4, <2>1 DEF Stage
  <2>6. HoldsLock'
    BY <1>4, <2>1, <2>5 DEF HoldsLock
  <2>7. KnowsPending'
    BY <1>1, <1>4, <2>1, <2>4, <2>5 DEF KnowsPending, Live
  <2>8. runner' \in [Runners -> Runner]
    BY <1>1, <1>4
  <2>9. MigrationsTypeOK' /\ LedgerIsSchema'
    BY <1>1, <1>4, <2>3, <2>8 DEF MigrationsTypeOK, MigrationsInv, LedgerIsSchema
  <2>. QED
    BY <2>6, <2>7, <2>9 DEF MigrationsInv
(* Where the session was tells what it holds and knows.                    *)
<1>5. /\ Stage(r) \in Live \ {"lock"} => lock = r
      /\ Stage(r) \in {"up", "open", "commit"} => runner[r].todo = (Applied + 1) .. N
      /\ Stage(r) \in {"open", "commit"} => Applied < N
      /\ Stage(r) = "log" => runner[r].todo = Applied .. N /\ Applied <= N /\ Applied > 0
      /\ runner[r].pc # "dead" => Stage(r) = runner[r].pc
  BY <1>2 DEF MigrationsInv, KnowsPending, Stage, At
<1>6. crashes \in 0 .. MaxCrashes /\ (crashes < MaxCrashes => crashes + 1 \in 0 .. MaxCrashes)
  BY DEF MigrationsInv, MigrationsTypeOK
(* The runner's record becomes s.                                          *)
<1>. DEFINE Becomes(s) == runner' = [runner EXCEPT ![r] = s]
            to(pc) == [runner[r] EXCEPT !.pc = pc]
<1>7. \A s \in Runner : Becomes(s) =>
          /\ runner'[r] = s /\ runner' = [runner EXCEPT ![r] = runner'[r]]
          /\ runner'[r] \in Runner /\ Stage(r)' = At(s)
  BY <1>1 DEF Stage
<1>8. \A pc \in (Live \cup {"off", "ok", "failed"}) : Becomes(to(pc)) =>
          /\ runner' = [runner EXCEPT ![r] = runner'[r]]
          /\ runner'[r] \in Runner /\ Stage(r)' = pc /\ runner'[r].todo = runner[r].todo
  <2>1. TAKE pc \in (Live \cup {"off", "ok", "failed"})
  <2>2. to(pc) \in Runner /\ At(to(pc)) = pc /\ to(pc).todo = runner[r].todo
    BY <1>1 DEF Runner, At, Live
  <2>. QED
    BY <1>7, <2>2
<1>. HIDE DEF Becomes, to
<1>9. CASE Start(r)
  <2>1. Becomes(to("lock")) /\ UNCHANGED <<lock, ledger, schema, crashes>>
    BY <1>9 DEF Start, Becomes, to
  <2>. QED
    BY <1>1, <1>3, <1>6, <1>8, <2>1 DEF Live
<1>10. CASE TryLock(r)
  <2>1. CASE lock = NoRunner
    <3>1. lock' = r /\ Becomes(to("ledger")) /\ UNCHANGED <<ledger, schema, crashes>>
      BY <1>10, <2>1 DEF TryLock, Becomes, to
    <3>. QED
      BY <1>1, <1>3, <1>6, <1>8, <2>1, <3>1 DEF Live
  <2>2. CASE lock # NoRunner /\ runner[r].tries < MaxTries
    <3>. DEFINE s == [runner[r] EXCEPT !.tries = @ + 1]
    <3>1. Becomes(s) /\ UNCHANGED <<lock, ledger, schema, crashes>>
      BY <1>10, <2>2 DEF TryLock, Becomes, to
    <3>2. s \in Runner /\ s.pc = "lock"
      <4>1. runner[r].pc = "lock" /\ runner[r].tries + 1 \in 0 .. MaxTries
        BY <1>1, <1>10, <2>2 DEF Runner, TryLock
      <4>. QED
        BY <1>1, <4>1 DEF Runner
    <3>3. At(s) = "lock"
      BY <3>2 DEF At
    <3>. HIDE DEF s
    <3>4. /\ runner' = [runner EXCEPT ![r] = runner'[r]]
          /\ runner'[r] \in Runner /\ Stage(r)' = "lock"
      BY <1>7, <3>1, <3>2, <3>3
    <3>. QED
      BY <1>1, <1>3, <1>6, <3>1, <3>4
  <2>3. CASE lock # NoRunner /\ ~(runner[r].tries < MaxTries)
    <3>1. Becomes(to("failed")) /\ UNCHANGED <<lock, ledger, schema, crashes>>
      BY <1>10, <2>3 DEF TryLock, Becomes, to
    <3>. QED
      BY <1>1, <1>3, <1>6, <1>8, <3>1 DEF Live
  <2>. QED
    BY <2>1, <2>2, <2>3
<1>11. CASE EnsureLedger(r)
  <2>1. runner[r].pc = "ledger" /\ Becomes(to("list"))
        /\ UNCHANGED <<lock, ledger, schema, crashes>>
    BY <1>11 DEF EnsureLedger, Becomes, to
  <2>. QED
    BY <1>1, <1>3, <1>5, <1>6, <1>8, <2>1 DEF Live
<1>12. CASE ListPending(r)
  <2>. DEFINE s == [runner[r] EXCEPT !.todo = (1 .. N) \ ledger, !.pc = "up"]
  <2>1. runner[r].pc = "list" /\ Becomes(s)
        /\ UNCHANGED <<lock, ledger, schema, crashes>>
    BY <1>12 DEF ListPending, Becomes, to
  <2>2. (1 .. N) \ ledger = (Applied + 1) .. N /\ (1 .. N) \subseteq Files
    BY <1>1 DEF Files
  <2>3. s \in Runner /\ s.pc = "up" /\ s.todo = (Applied + 1) .. N
    BY <1>1, <2>2 DEF Runner, Live
  <2>4. At(s) = "up"
    BY <2>3 DEF At
  <2>. HIDE DEF s
  <2>. QED
    BY <1>1, <1>3, <1>7, <1>5, <1>6, <2>1, <2>3, <2>4 DEF Live
<1>13. CASE RunFile(r)
  <2>1. runner[r].pc = "up" /\ UNCHANGED <<lock, ledger, schema, crashes>>
    BY <1>13 DEF RunFile, Becomes, to
  <2>2. CASE runner[r].todo = {}
    <3>1. Becomes(to("unlock"))
      BY <1>13, <2>2 DEF RunFile, Becomes, to
    <3>. QED
      BY <1>1, <1>3, <1>5, <1>6, <1>8, <2>1, <3>1 DEF Live
  <2>3. CASE runner[r].todo # {}
    <3>1. Becomes(to("open"))
      BY <1>13, <2>3 DEF RunFile, Becomes, to
    <3>2. runner[r].todo = (Applied + 1) .. N
      BY <1>5, <2>1 DEF At
    <3>3. Applied < N
      BY <1>1, <2>3, <3>2
    <3>. QED
      BY <1>1, <1>3, <1>5, <1>6, <1>8, <2>1, <3>1, <3>2, <3>3 DEF Live
  <2>. QED
    BY <2>2, <2>3
<1>14. CASE FailFile(r)
  <2>. DEFINE s == [runner[r] EXCEPT !.pc = "unlock", !.failed = TRUE]
  <2>1. runner[r].pc = "open" /\ crashes < MaxCrashes /\ crashes' = crashes + 1
        /\ Becomes(s) /\ UNCHANGED <<lock, ledger, schema>>
    BY <1>14 DEF FailFile, Becomes, to
  <2>2. s \in Runner /\ At(s) = "unlock"
    BY <1>1 DEF Runner, Live, At
  <2>3. crashes' \in 0 .. MaxCrashes
    BY <1>6, <2>1
  <2>. HIDE DEF s
  <2>. QED
    BY <1>1, <1>3, <1>7, <1>5, <2>1, <2>2, <2>3 DEF Live
<1>15. CASE SendCommit(r)
  <2>1. runner[r].pc = "open" /\ Becomes(to("commit"))
        /\ UNCHANGED <<lock, ledger, schema, crashes>>
    BY <1>15 DEF SendCommit, Becomes, to
  <2>. QED
    BY <1>1, <1>3, <1>5, <1>6, <1>8, <2>1 DEF Live
<1>16. CASE Commit(r)
  <2>1. runner[r].pc = "commit" /\ Becomes(to("log"))
        /\ Apply(First(runner[r].todo)) /\ UNCHANGED <<lock, crashes>>
    BY <1>16 DEF Commit, Becomes, to
  <2>2. Stage(r) = "commit"
    BY <1>5, <2>1 DEF At
  <2>3. First(runner[r].todo) = Applied + 1
    BY <1>1, <1>5, <2>2, FirstOfInterval
  <2>. QED
    BY <1>4, <1>8, <2>1, <2>2, <2>3 DEF Live
<1>17. CASE LogFile(r)
  <2>. DEFINE s == [runner[r] EXCEPT !.todo = @ \ {First(@)}, !.pc = "up"]
  <2>1. runner[r].pc = "log" /\ Becomes(s)
        /\ ledger' = ledger \cup {First(runner[r].todo)} /\ UNCHANGED <<lock, schema, crashes>>
    BY <1>17 DEF LogFile, Becomes, to
  <2>2. /\ runner[r].todo = Applied .. N /\ Applied <= N /\ Applied > 0 /\ lock = r
    BY <1>5, <2>1 DEF At, Live
  <2>3. First(runner[r].todo) = Applied
    BY <1>1, <2>2, FirstOfInterval
  <2>4. ledger' = ledger /\ (Applied .. N) \ {Applied} = (Applied + 1) .. N
    BY <1>1, <2>1, <2>2, <2>3
  <2>5. s \in Runner /\ s.pc = "up" /\ s.todo = (Applied + 1) .. N
    BY <1>1, <2>2, <2>3, <2>4 DEF Runner, Live
  <2>6. At(s) = "up"
    BY <2>5 DEF At
  <2>. HIDE DEF s
  <2>. QED
    BY <1>1, <1>3, <1>7, <1>6, <2>1, <2>2, <2>4, <2>5, <2>6
<1>18. CASE Unlock(r)
  <2>1. runner[r].pc = "unlock" /\ lock' = NoRunner /\ UNCHANGED <<ledger, schema, crashes>>
        /\ \E pc \in {"failed", "ok"} : Becomes(to(pc))
    BY <1>18 DEF Unlock, Becomes, to
  <2>2. lock = r
    BY <1>5, <2>1 DEF At, Live
  <2>. QED
    BY <1>1, <1>3, <1>6, <1>8, <2>1, <2>2 DEF Live
<1>19. CASE SessionEnds(r)
  <2>1. Becomes(Idle) /\ UNCHANGED <<ledger, schema, crashes>>
        /\ lock' = IF lock = r THEN NoRunner ELSE lock
    BY <1>19 DEF SessionEnds, Becomes, to
  <2>2. At(Idle) = "off"
    BY DEF Idle, At
  <2>. QED
    BY <1>1, <1>3, <1>7, <1>6, <2>1, <2>2, IdleRunner DEF Live
<1>20. CASE Die(r)
  <2>. DEFINE s == [runner[r] EXCEPT !.at = runner[r].pc, !.pc = "dead"]
  <2>1. runner[r].pc \in Live /\ crashes < MaxCrashes /\ crashes' = crashes + 1
        /\ Becomes(s) /\ UNCHANGED <<lock, ledger, schema>>
    BY <1>20 DEF Die, Becomes, to
  <2>2. s \in Runner /\ At(s) = runner[r].pc /\ s.todo = runner[r].todo
    BY <1>1, <2>1 DEF Runner, At
  <2>3. Stage(r) = runner[r].pc
    BY <1>5, <2>1 DEF At, Live
  <2>4. crashes' \in 0 .. MaxCrashes
    BY <1>6, <2>1
  <2>. HIDE DEF s
  <2>. QED
    BY <1>1, <1>3, <1>7, <1>5, <2>1, <2>2, <2>3, <2>4
<1>21. CASE Late(r)
  <2>. DEFINE s(at) == [runner[r] EXCEPT !.at = at]
  <2>1. runner[r].pc = "dead" /\ UNCHANGED crashes /\ Stage(r) = runner[r].at
    BY <1>21 DEF Late, Stage, At
  <2>2. \A at \in Live : s(at) \in Runner /\ At(s(at)) = at /\ s(at).todo = runner[r].todo
    BY <1>1, <2>1 DEF Runner, At
  <2>3. CASE /\ runner[r].at = "commit" /\ Apply(First(runner[r].todo))
             /\ Becomes(s("log")) /\ UNCHANGED lock
    <3>0. Stage(r) = "commit"
      BY <2>1, <2>3
    <3>1. First(runner[r].todo) = Applied + 1
      BY <1>1, <1>5, <3>0, FirstOfInterval
    <3>2. s("log") \in Runner /\ At(s("log")) = "log" /\ s("log").todo = runner[r].todo
      BY <2>2 DEF Live
    <3>. HIDE DEF s
    <3>3. /\ runner' = [runner EXCEPT ![r] = runner'[r]] /\ runner'[r] \in Runner
          /\ Stage(r)' = "log" /\ runner'[r].todo = runner[r].todo
      BY <1>7, <2>3, <3>2
    <3>. QED
      BY <1>4, <2>1, <2>3, <3>0, <3>1, <3>3
  <2>4. CASE /\ lock = NoRunner /\ lock' = r /\ UNCHANGED <<schema, ledger>>
             /\ Becomes(s("ledger"))
    <3>1. s("ledger") \in Runner /\ At(s("ledger")) = "ledger"
      BY <2>2 DEF Live
    <3>. HIDE DEF s
    <3>2. /\ runner' = [runner EXCEPT ![r] = runner'[r]]
          /\ runner'[r] \in Runner /\ Stage(r)' = "ledger"
      BY <1>7, <2>4, <3>1
    <3>. QED
      BY <1>1, <1>3, <1>6, <2>1, <2>4, <3>2
  <2>. QED
    BY <2>3, <2>4, <1>21 DEF Late, Becomes
<1>22. CASE Again(r)
  <2>1. runner[r].pc = "failed" /\ crashes < MaxCrashes /\ crashes' = crashes + 1
        /\ Becomes(Idle) /\ UNCHANGED <<lock, ledger, schema>>
    BY <1>22 DEF Again, Becomes, to
  <2>2. At(Idle) = "off" /\ crashes' \in 0 .. MaxCrashes
    BY <1>6, <2>1 DEF Idle, At
  <2>. QED
    BY <1>1, <1>3, <1>7, <2>1, <2>2, IdleRunner DEF Live
<1>. QED
  BY <1>9, <1>10, <1>11, <1>12, <1>13, <1>14, <1>15, <1>16, <1>17, <1>18, <1>19, <1>20, <1>21, <1>22 DEF Advance

-----------------------------------------------------------------------------
(* The pods and the writes they answer.                                    *)

(* The requests a pod's inflightWrites counts, and the retrying ones.      *)
Counts(p, w) == write[w].at = p /\ write[w].open /\ ~write[w].settled
Counted(p)   == {w \in Writes : Counts(p, w)}
Retriers     == {w \in Writes : write[w].tries > 0}

CountInv ==
    \A p \in Pods : /\ IsFiniteSet(Counted(p))
                    /\ pod[p].inflight = Cardinality(Counted(p))

RetryInv == IsFiniteSet(Retriers) /\ active = Cardinality(Retriers)

(* A write no handler has been started for may be fetched again; the one   *)
(* whose handler runs for a waiting client is counted.                     *)
WriteOK(w) ==
    /\ write[w].ran <= 1
    /\ write[w].pc \in {"idle", "wire", "sleep"} =>
           write[w].ran = 0 /\ write[w].at = NoPod /\ ~write[w].open
    /\ write[w].pc = "busy" /\ write[w].open => ~write[w].settled
    /\ write[w].open => write[w].at \in Pods

(* A pod that said it is drained keeps its gate shut and counts nobody; a  *)
(* pod that is off serves nobody.                                          *)
PodOK(p) ==
    /\ pod[p].quiet => pod[p].gate /\ Counted(p) = {}
    /\ pod[p].phase = "off" => Served(p) = {}
    /\ pod[p].phase = "closing" => \A w \in Open(p) : write[w].pc # "busy"

ServingTypeOK == pod \in [Pods -> Pod] /\ write \in [Writes -> Write]

ServingInv ==
    /\ ServingTypeOK /\ CountInv /\ RetryInv
    /\ \A w \in Writes : WriteOK(w)
    /\ \A p \in Pods : PodOK(p)

(* A control call that drains does so at a pod.                            *)
PatchInv ==
    /\ patch \in [Patches -> Patch]
    /\ \A k \in Patches : patch[k].job = "draining" => patch[k].at \in Pods

RestOK == row \in States /\ database \in Databases /\ stops \in 0 .. MaxStops

IInv == MigrationsInv /\ ServingInv /\ PatchInv /\ RestOK

One(b) == IF b THEN 1 ELSE 0

LEMMA RetryingOne ==
  ASSUME NEW w \in Writes
  PROVE  Retrying({w}) = One(write[w].tries > 0)
<1>1. CASE write[w].tries > 0
  <2>1. {v \in {w} : write[v].tries > 0} = {w}
    BY <1>1
  <2>. QED
    BY <1>1, <2>1, FS_Singleton DEF Retrying, One
<1>2. CASE ~(write[w].tries > 0)
  <2>1. {v \in {w} : write[v].tries > 0} = {}
    BY <1>2
  <2>. QED
    BY <1>2, <2>1, FS_EmptySet DEF Retrying, One
<1>. QED
  BY <1>1, <1>2

(* The size of a set when one element comes, goes or stays.                *)
LEMMA OneElement ==
  ASSUME NEW S, NEW T, NEW x, IsFiniteSet(S), S \ {x} = T \ {x}
  PROVE  /\ IsFiniteSet(T) /\ Cardinality(S) \in Nat /\ Cardinality(T) \in Nat
         /\ Cardinality(T) + One(x \in S) = Cardinality(S) + One(x \in T)
         /\ x \in S => Cardinality(S) > 0
<1>. DEFINE R == S \ {x}
<1>1. IsFiniteSet(R) /\ Cardinality(R) \in Nat /\ x \notin R
  BY FS_RemoveElement, FS_CardinalityType
<1>2. /\ IsFiniteSet(R \cup {x})
      /\ Cardinality(R \cup {x}) = Cardinality(R) + 1
  BY <1>1, FS_AddElement
<1>3. Cardinality(S) = Cardinality(R) + One(x \in S)
  <2>1. CASE x \in S
    <3>1. S = R \cup {x}
      BY <2>1
    <3>. QED
      BY <1>1, <1>2, <2>1, <3>1 DEF One
  <2>2. CASE x \notin S
    <3>1. S = R
      BY <2>2
    <3>. HIDE DEF R
    <3>. QED
      BY <1>1, <2>2, <3>1 DEF One
  <2>. QED
    BY <2>1, <2>2
<1>4. IsFiniteSet(T) /\ Cardinality(T) = Cardinality(R) + One(x \in T)
  <2>1. CASE x \in T
    <3>1. T = R \cup {x}
      BY <2>1
    <3>. QED
      BY <1>1, <1>2, <2>1, <3>1 DEF One
  <2>2. CASE x \notin T
    <3>1. T = R
      BY <2>2
    <3>. QED
      BY <1>1, <2>2, <3>1 DEF One
  <2>. QED
    BY <2>1, <2>2
<1>. QED
  BY <1>1, <1>3, <1>4 DEF One

(* A step that changes one write, and counts it.                           *)
LEMMA CountStep ==
  ASSUME ServingInv, NEW w \in Writes, write' = [write EXCEPT ![w] = write'[w]],
         \A p \in Pods : pod'[p].inflight + One(Counts(p, w)) =
                         pod[p].inflight + One(Counts(p, w)'),
         pod' \in [Pods -> Pod]
  PROVE  CountInv'
<1> SUFFICES ASSUME NEW p \in Pods
             PROVE  /\ IsFiniteSet(Counted(p)')
                    /\ pod'[p].inflight = Cardinality(Counted(p)')
  BY DEF CountInv
<1>1. IsFiniteSet(Counted(p)) /\ pod[p].inflight = Cardinality(Counted(p))
  BY DEF ServingInv, CountInv
<1>2. Counted(p) \ {w} = Counted(p)' \ {w}
  BY DEF Counted, Counts, ServingInv, ServingTypeOK
<1>3. (w \in Counted(p) <=> Counts(p, w)) /\ (w \in Counted(p)' <=> Counts(p, w)')
  BY DEF Counted
<1>4. /\ IsFiniteSet(Counted(p)')
      /\ Cardinality(Counted(p)) \in Nat /\ Cardinality(Counted(p)') \in Nat
      /\ Cardinality(Counted(p)') + One(w \in Counted(p))
            = Cardinality(Counted(p)) + One(w \in Counted(p)')
  BY <1>1, <1>2, OneElement
<1>5. pod'[p].inflight \in Nat
  BY DEF Pod
<1>. QED
  BY <1>1, <1>3, <1>4, <1>5 DEF One

LEMMA RetryStep ==
  ASSUME ServingInv, NEW w \in Writes, write' = [write EXCEPT ![w] = write'[w]],
         active' = active - One(write[w].tries > 0) + One(write'[w].tries > 0)
  PROVE  RetryInv'
<1>1. IsFiniteSet(Retriers) /\ active = Cardinality(Retriers)
  BY DEF ServingInv, RetryInv
<1>2. Retriers \ {w} = Retriers' \ {w}
  BY DEF Retriers, ServingInv, ServingTypeOK
<1>3. (w \in Retriers <=> write[w].tries > 0) /\ (w \in Retriers' <=> write'[w].tries > 0)
  BY DEF Retriers
<1>4. /\ IsFiniteSet(Retriers')
      /\ Cardinality(Retriers) \in Nat /\ Cardinality(Retriers') \in Nat
      /\ Cardinality(Retriers') + One(w \in Retriers)
            = Cardinality(Retriers) + One(w \in Retriers')
  BY <1>1, <1>2, OneElement
<1>. QED
  BY <1>1, <1>3, <1>4 DEF RetryInv, One

(* What is left to show of a step that changes one write.                  *)
LEMMA WriteStepKeeps ==
  ASSUME ServingInv, NEW w \in Writes, write' = [write EXCEPT ![w] = write'[w]],
         write'[w] \in Write, WriteOK(w)',
         active' = active - One(write[w].tries > 0) + One(write'[w].tries > 0),
         pod' \in [Pods -> Pod],
         \A p \in Pods :
             /\ pod'[p].phase = pod[p].phase /\ pod'[p].gate = pod[p].gate
             /\ pod'[p].quiet = pod[p].quiet
             /\ pod'[p].inflight + One(Counts(p, w)) =
                    pod[p].inflight + One(Counts(p, w)')
             /\ Counts(p, w)' => Counts(p, w) \/ ~pod[p].gate
             /\ write'[w].at = p => write[w].at = p \/ pod[p].phase = "up"
             /\ write'[w].at = p /\ write'[w].open /\ write'[w].pc = "busy" =>
                    \/ write[w].at = p /\ write[w].open /\ write[w].pc = "busy"
                    \/ pod[p].phase = "up"
  PROVE  ServingInv'
<1>1. write \in [Writes -> Write] /\ \A v \in Writes \ {w} : write'[v] = write[v]
  BY DEF ServingInv, ServingTypeOK
<1>2. ServingTypeOK'
  BY <1>1 DEF ServingTypeOK
<1>3. CountInv' /\ RetryInv'
  BY CountStep, RetryStep
<1>4. \A v \in Writes : WriteOK(v)'
  BY <1>1 DEF ServingInv, WriteOK
<1>5. ASSUME NEW p \in Pods PROVE PodOK(p)'
  <2>1. PodOK(p)
    BY DEF ServingInv
  <2>2. ASSUME pod'[p].quiet PROVE pod'[p].gate /\ Counted(p)' = {}
    BY <1>1, <2>1, <2>2 DEF PodOK, Counted, Counts
  <2>3. ASSUME pod'[p].phase = "off" PROVE Served(p)' = {}
    BY <1>1, <2>1, <2>3 DEF PodOK, Served
  <2>4. ASSUME pod'[p].phase = "closing", NEW v \in Open(p)' PROVE write'[v].pc # "busy"
    BY <1>1, <2>1, <2>4 DEF PodOK, Open, Served
  <2>. QED
    BY <2>2, <2>3, <2>4 DEF PodOK
<1>. QED
  BY <1>2, <1>3, <1>4, <1>5 DEF ServingInv

(* What is left to show of a step that changes one pod.                    *)
LEMMA PodStepKeeps ==
  ASSUME ServingInv, NEW p \in Pods, UNCHANGED <<write, active>>,
         pod' = [pod EXCEPT ![p] = pod'[p]], pod'[p] \in Pod,
         pod'[p].inflight = pod[p].inflight \/ (Served(p) = {} /\ pod'[p].inflight = 0),
         pod'[p].quiet => pod'[p].gate /\ Counted(p) = {},
         pod'[p].phase = "off" => Served(p) = {},
         pod'[p].phase = "closing" => \A w \in Open(p) : write[w].pc # "busy"
  PROVE  ServingInv'
<1>1. pod' \in [Pods -> Pod] /\ \A q \in Pods \ {p} : pod'[q] = pod[q]
  BY DEF ServingInv, ServingTypeOK
<1>2. ServingTypeOK' /\ RetryInv' /\ \A w \in Writes : WriteOK(w)'
  BY <1>1 DEF ServingInv, ServingTypeOK, RetryInv, Retriers, WriteOK
<1>3. \A q \in Pods : Counted(q)' = Counted(q) /\ Served(q)' = Served(q) /\ Open(q)' = Open(q)
  BY DEF Counted, Counts, Served, Open
<1>4. Served(p) = {} => Counted(p) = {}
  BY DEF Counted, Counts, Served
<1>5. CountInv'
  BY <1>1, <1>3, <1>4, FS_EmptySet DEF ServingInv, CountInv
<1>6. \A q \in Pods : PodOK(q)'
  BY <1>1, <1>3 DEF ServingInv, PodOK
<1>. QED
  BY <1>2, <1>5, <1>6 DEF ServingInv

(* What is left to show of a step that closes all of a pod's connections.  *)
LEMMA ClosingKeeps ==
  ASSUME ServingInv, NEW p \in Pods, active' = active - Retrying(Open(p)),
         write' \in [Writes -> Write],
         \A w \in Writes \ Open(p) :
             /\ \/ write'[w] = write[w]
                \/ w \in Served(p) /\ write'[w] = [write[w] EXCEPT !.at = NoPod]
             /\ pod'[p].phase = "off" => write'[w].at # p,
         \A w \in Open(p) :
             /\ write'[w].pc = "done" /\ write'[w].tries = 0 /\ ~write'[w].open
             /\ write'[w].ran = write[w].ran
             /\ write'[w].at = IF pod'[p].phase = "off" THEN NoPod ELSE p,
         pod' = [pod EXCEPT ![p] = pod'[p]], pod'[p] \in Pod,
         pod'[p].inflight = 0,
         pod'[p].quiet => pod'[p].gate
  PROVE  ServingInv'
<1>. USE ApiAssumption
<1>1. /\ pod \in [Pods -> Pod] /\ write \in [Writes -> Write]
      /\ pod' \in [Pods -> Pod] /\ \A q \in Pods \ {p} : pod'[q] = pod[q]
  BY DEF ServingInv, ServingTypeOK
<1>2. Open(p) = {w \in Writes : write[w].at = p /\ write[w].open}
  BY DEF Open, Served
<1>3. \A w \in Writes : write'[w].open => w \notin Open(p)
  OBVIOUS
<1>4. \A w \in Writes \ Open(p) :
          /\ write'[w].pc = write[w].pc /\ write'[w].open = write[w].open
          /\ write'[w].settled = write[w].settled /\ write'[w].tries = write[w].tries
          /\ write'[w].ran = write[w].ran
          /\ write'[w].at = write[w].at \/ (write'[w].at = NoPod /\ write[w].at = p)
  <2>1. TAKE w \in Writes \ Open(p)
  <2>2. CASE write'[w] = write[w]
    BY <2>2
  <2>3. CASE w \in Served(p) /\ write'[w] = [write[w] EXCEPT !.at = NoPod]
    <3>1. write[w] \in Write /\ write[w].at = p
      BY <1>1, <2>3 DEF Served
    <3>. QED
      BY <2>3, <3>1 DEF Write
  <2>. QED
    BY <2>2, <2>3
<1>5. ASSUME NEW q \in Pods PROVE Counted(q)' = IF q = p THEN {} ELSE Counted(q)
  <2>1. \A w \in Writes : w \in Open(p) => ~Counts(q, w)' /\ (q # p => ~Counts(q, w))
    BY <1>2 DEF Counts
  <2>2. \A w \in Writes : w \notin Open(p) /\ q # p => (Counts(q, w)' <=> Counts(q, w))
    BY <1>4 DEF Counts
  <2>3. \A w \in Writes : w \notin Open(p) => ~Counts(p, w)'
    BY <1>2, <1>4 DEF Counts
  <2>. QED
    BY <2>1, <2>2, <2>3 DEF Counted
<1>6. CountInv'
  <2>1. SUFFICES ASSUME NEW q \in Pods
                 PROVE  /\ IsFiniteSet(Counted(q)')
                        /\ pod'[q].inflight = Cardinality(Counted(q)')
    BY DEF CountInv
  <2>2. CASE q = p
    <3>1. Counted(q)' = {}
      BY <1>5, <2>2
    <3>. QED
      BY <2>2, <3>1, FS_EmptySet
  <2>3. CASE q # p
    <3>1. Counted(q)' = Counted(q) /\ pod'[q] = pod[q]
      BY <1>1, <1>5, <2>3
    <3>. QED
      BY <3>1 DEF ServingInv, CountInv
  <2>. QED
    BY <2>2, <2>3
<1>7. RetryInv'
  <2>1. IsFiniteSet(Retriers) /\ active = Cardinality(Retriers)
    BY DEF ServingInv, RetryInv
  <2>2. Retriers' = Retriers \ Open(p)
    <3>1. \A w \in Writes : write'[w].tries > 0 <=> write[w].tries > 0 /\ w \notin Open(p)
      BY <1>4
    <3>. QED
      BY <3>1 DEF Retriers
  <2>3. Retriers \cap Open(p) = {w \in Open(p) : write[w].tries > 0}
    BY <1>2 DEF Retriers
  <2>4. Retrying(Open(p)) = Cardinality(Retriers \cap Open(p))
    BY <2>3 DEF Retrying
  <2>5. /\ IsFiniteSet(Retriers \ Open(p))
        /\ Cardinality(Retriers \ Open(p)) = Cardinality(Retriers) - Cardinality(Retriers \cap Open(p))
    BY <2>1, FS_Difference
  <2>. QED
    BY <2>1, <2>2, <2>4, <2>5 DEF RetryInv
<1>8. \A w \in Writes : WriteOK(w)'
  <2>1. SUFFICES ASSUME NEW w \in Writes PROVE WriteOK(w)'
    OBVIOUS
  <2>2. WriteOK(w)
    BY DEF ServingInv
  <2>3. CASE w \in Open(p)
    BY <2>2, <2>3 DEF WriteOK
  <2>4. CASE w \notin Open(p)
    BY <1>2, <1>4, <2>2, <2>4 DEF WriteOK
  <2>. QED
    BY <2>3, <2>4
<1>9. ASSUME NEW q \in Pods PROVE PodOK(q)'
  <2>1. PodOK(q)
    BY DEF ServingInv
  <2>2. pod'[q].quiet => pod'[q].gate /\ Counted(q)' = {}
    BY <1>1, <1>5, <2>1 DEF PodOK
  <2>3. pod'[q].phase = "off" => Served(q)' = {}
    BY <1>1, <1>2, <1>4, <2>1 DEF PodOK, Served
  <2>4. \A w \in Open(q)' : q # p /\ w \in Open(q) /\ write'[w].pc = write[w].pc
    BY <1>2, <1>3, <1>4 DEF Open, Served
  <2>. QED
    BY <1>1, <2>1, <2>2, <2>3, <2>4 DEF PodOK
<1>. QED
  BY <1>1, <1>6, <1>7, <1>8, <1>9 DEF ServingInv, ServingTypeOK

-----------------------------------------------------------------------------
(* One lemma per kind of step.                                             *)

LEMMA PodSteps ==
  ASSUME ServingInv, NEW p \in Pods, Boot(p) \/ Shutdown(p) \/ ServerClosed(p)
  PROVE  ServingInv'
<1>1. pod \in [Pods -> Pod] /\ pod[p] \in Pod /\ PodOK(p)
  BY DEF ServingInv, ServingTypeOK
<1>2. UNCHANGED <<write, active>>
  BY DEF Boot, Shutdown, ServerClosed
<1>3. CASE Boot(p)
  <2>1. pod' = [pod EXCEPT ![p] = Booted] /\ pod[p].phase = "off"
    BY <1>3 DEF Boot
  <2>2. pod'[p] = Booted /\ Served(p) = {}
    BY <1>1, <2>1 DEF PodOK
  <2>3. Booted \in Pod /\ Booted.inflight = 0 /\ Booted.phase = "up" /\ ~Booted.quiet
    BY DEF Booted, Pod, Phases
  <2>. QED
    BY <1>2, <2>1, <2>2, <2>3, PodStepKeeps
<1>4. ASSUME NEW to \in {"stopping", "closing"}, pod' = [pod EXCEPT ![p].phase = to],
             pod[p].phase \in {"up", "stopping"},
             to = "closing" => \A w \in Open(p) : write[w].pc # "busy"
      PROVE  ServingInv'
  <2>1. /\ pod' = [pod EXCEPT ![p] = pod'[p]] /\ pod'[p] \in Pod
        /\ pod'[p].inflight = pod[p].inflight /\ pod'[p].phase = to
        /\ pod'[p].quiet = pod[p].quiet /\ pod'[p].gate = pod[p].gate
    BY <1>1, <1>4 DEF Pod, Phases
  <2>. QED
    BY <1>1, <1>2, <1>4, <2>1, PodStepKeeps DEF PodOK
<1>5. CASE Shutdown(p)
  BY <1>4, <1>5 DEF Shutdown
<1>6. CASE ServerClosed(p)
  BY <1>4, <1>6 DEF ServerClosed
<1>. QED
  BY <1>3, <1>5, <1>6

LEMMA ForceShutdownStep ==
  ASSUME ServingInv, NEW p \in Pods, ForceShutdown(p)
  PROVE  ServingInv'
<1>1. /\ pod \in [Pods -> Pod] /\ pod[p] \in Pod /\ PodOK(p)
      /\ write \in [Writes -> Write] /\ CountInv
  BY DEF ServingInv, ServingTypeOK
<1>2. /\ active' = active - Retrying(Open(p))
      /\ pod' = [pod EXCEPT ![p] = SettleAll(Open(p), [pod[p] EXCEPT !.phase = "closing"])]
      /\ write' = [w \in Writes |-> IF w \in Open(p)
                      THEN [Rejected(w) EXCEPT !.open = FALSE, !.settled = TRUE]
                      ELSE write[w]]
  BY DEF ForceShutdown
<1>3. SettleAll(Open(p), [pod[p] EXCEPT !.phase = "closing"])
          = [pod[p] EXCEPT !.phase = "closing", !.inflight = 0]
  <2>1. {w \in Open(p) : ~write[w].settled} = Counted(p)
    BY DEF Counted, Counts, Open, Served
  <2>2. pod[p].inflight = Cardinality(Counted(p)) /\ pod[p].inflight \in Nat
    BY <1>1 DEF CountInv, Pod
  <2>. DEFINE c == [pod[p] EXCEPT !.phase = "closing"]
  <2>3. c.inflight = pod[p].inflight /\ c \in Pod
    BY <1>1 DEF Pod, Phases
  <2>4. SettleAll(Open(p), c) = [c EXCEPT !.inflight = 0]
    <3>. HIDE DEF c
    <3>1. SettleAll(Open(p), c) = [c EXCEPT !.inflight =
              IF @ < Cardinality(Counted(p)) THEN 0 ELSE @ - Cardinality(Counted(p))]
      BY <2>1 DEF SettleAll
    <3>. QED
      BY <2>2, <2>3, <3>1
  <2>. QED
    BY <1>1, <2>4 DEF Pod
<1>4. /\ pod' = [pod EXCEPT ![p] = pod'[p]] /\ pod'[p] \in Pod
      /\ pod'[p].inflight = 0 /\ pod'[p].phase = "closing"
      /\ pod'[p].quiet = pod[p].quiet /\ pod'[p].gate = pod[p].gate
  <2>. DEFINE c == [pod[p] EXCEPT !.phase = "closing", !.inflight = 0]
  <2>1. /\ c \in Pod /\ c.inflight = 0 /\ c.phase = "closing"
        /\ c.quiet = pod[p].quiet /\ c.gate = pod[p].gate
    BY <1>1 DEF Pod, Phases
  <2>2. pod' = [pod EXCEPT ![p] = c]
    BY <1>2, <1>3
  <2>. HIDE DEF c
  <2>. QED
    BY <1>1, <2>1, <2>2
<1>5. \A w \in Writes \ Open(p) : write'[w] = write[w]
  BY <1>2
<1>6. \A w \in Open(p) :
          /\ write'[w] \in Write
          /\ write'[w].pc = "done" /\ write'[w].tries = 0 /\ ~write'[w].open
          /\ write'[w].ran = write[w].ran /\ write'[w].at = p
  <2>1. TAKE w \in Open(p)
  <2>2. w \in Writes /\ write[w] \in Write /\ write[w].at = p
    BY <1>1 DEF Open, Served
  <2>3. write'[w] = [[write[w] EXCEPT !.pc = "done", !.tries = 0]
                        EXCEPT !.open = FALSE, !.settled = TRUE]
    BY <1>2, <2>2 DEF Rejected
  <2>4. write'[w] = [pc |-> "done", at |-> p, open |-> FALSE, settled |-> TRUE,
                     tries |-> 0, ran |-> write[w].ran]
    BY <2>2, <2>3 DEF Write
  <2>. QED
    BY <2>2, <2>4, ApiAssumption DEF Write
<1>7. write' \in [Writes -> Write]
  BY <1>1, <1>2, <1>5, <1>6
<1>. QED
  BY <1>1, <1>2, <1>4, <1>5, <1>6, <1>7, ClosingKeeps DEF PodOK

LEMMA GoneStep ==
  ASSUME ServingInv, NEW p \in Pods, Gone(p)
  PROVE  ServingInv'
<1>. USE ApiAssumption
<1>1. pod \in [Pods -> Pod] /\ write \in [Writes -> Write]
  BY DEF ServingInv, ServingTypeOK
<1>2. active' = active - Retrying(Open(p)) /\ pod' = [pod EXCEPT ![p] = Off]
  BY DEF Gone
<1>3. Off \in Pod /\ Off.inflight = 0 /\ ~Off.quiet /\ Off.phase = "off"
  BY DEF Off, Booted, Pod, Phases
<1>4. pod' = [pod EXCEPT ![p] = pod'[p]] /\ pod'[p] = Off
  BY <1>1, <1>2
<1>5. \A w \in Writes \ Open(p) :
          /\ write'[w] \in Write
          /\ \/ write'[w] = write[w]
             \/ w \in Served(p) /\ write'[w] = [write[w] EXCEPT !.at = NoPod]
          /\ write'[w].at # p
  <2>1. TAKE w \in Writes \ Open(p)
  <2>2. w \in Writes /\ write[w] \in Write
    BY <1>1
  <2>3. CASE w \in Served(p)
    <3>1. write'[w] = [write[w] EXCEPT !.at = NoPod]
      BY <2>2, <2>3 DEF Gone
    <3>. QED
      BY <2>2, <2>3, <3>1 DEF Write
  <2>4. CASE w \notin Served(p)
    <3>1. write'[w] = write[w]
      BY <2>2, <2>4 DEF Gone
    <3>. QED
      BY <2>2, <2>4, <3>1 DEF Served
  <2>. QED
    BY <2>3, <2>4
<1>6. \A w \in Open(p) :
          /\ write'[w] \in Write
          /\ write'[w].pc = "done" /\ write'[w].tries = 0 /\ ~write'[w].open
          /\ write'[w].ran = write[w].ran /\ write'[w].at = NoPod
  <2>1. TAKE w \in Open(p)
  <2>2. w \in Writes /\ write[w] \in Write
    BY <1>1 DEF Open, Served
  <2>3. write'[w] = [[write[w] EXCEPT !.pc = "done", !.tries = 0]
                        EXCEPT !.at = NoPod, !.open = FALSE, !.settled = TRUE]
    BY <2>2 DEF Rejected, Gone
  <2>4. write'[w] = [pc |-> "done", at |-> NoPod, open |-> FALSE, settled |-> TRUE,
                     tries |-> 0, ran |-> write[w].ran]
    BY <2>2, <2>3 DEF Write
  <2>. QED
    BY <2>2, <2>4 DEF Write
<1>7. write' \in [Writes -> Write]
  <2>1. \A w \in Writes : write'[w] \in Write
    BY <1>5, <1>6
  <2>2. DOMAIN write' = Writes /\ write' = [w \in DOMAIN write' |-> write'[w]]
    BY DEF Gone
  <2>. QED
    BY <2>1, <2>2
<1>. QED
  BY <1>1, <1>2, <1>3, <1>4, <1>5, <1>6, <1>7, ClosingKeeps

(* What is left to show of a step of a write that leaves the pods alone.   *)
LEMMA ClientStepKeeps ==
  ASSUME ServingInv, NEW w \in Writes, write' = [write EXCEPT ![w] = write'[w]],
         write'[w] \in Write, WriteOK(w)', UNCHANGED pod,
         active' = active - One(write[w].tries > 0) + One(write'[w].tries > 0),
         write'[w].open = write[w].open, write'[w].settled = write[w].settled,
         write'[w].at = write[w].at \/ (write'[w].at = NoPod /\ ~write[w].open),
         write'[w].pc = "busy" => write[w].pc = "busy"
  PROVE  ServingInv'
<1>1. pod \in [Pods -> Pod] /\ \A p \in Pods : pod[p].inflight \in Nat
  BY DEF ServingInv, ServingTypeOK, Pod
<1>2. \A p \in Pods : Counts(p, w)' = Counts(p, w)
  BY DEF Counts
<1>3. \A p \in Pods : write'[w].at = p => write[w].at = p
  BY ApiAssumption
<1>. QED
  BY <1>1, <1>2, <1>3, WriteStepKeeps

LEMMA RejectedFacts ==
  ASSUME NEW w \in Writes, write[w] \in Write
  PROVE  /\ Rejected(w) \in Write /\ Rejected(w).pc = "done" /\ Rejected(w).tries = 0
         /\ Rejected(w).at = write[w].at /\ Rejected(w).open = write[w].open
         /\ Rejected(w).settled = write[w].settled /\ Rejected(w).ran = write[w].ran
<1>. DEFINE x == write[w]
<1>1. Rejected(w) = [x EXCEPT !.pc = "done", !.tries = 0]
  BY DEF Rejected
<1>2. x \in Write
  OBVIOUS
<1>3. Rejected(w) = [pc |-> "done", at |-> x.at, open |-> x.open,
                    settled |-> x.settled, tries |-> 0, ran |-> x.ran]
  <2>. HIDE DEF x
  <2>. QED
    BY <1>1, <1>2 DEF Write
<1>4. 0 \in 0 .. Attempts
  BY ApiAssumption
<1>. QED
  BY <1>2, <1>3, <1>4 DEF Write

(* fetch rejects, of a write that no pod is serving.                       *)
LEMMA RejectKeeps ==
  ASSUME ServingInv, NEW w \in Writes, write[w].pc \in {"wire", "sleep"},
         write' = [write EXCEPT ![w] = Rejected(w)],
         active' = active - Retrying({w}), UNCHANGED pod
  PROVE  ServingInv'
<1>1. write \in [Writes -> Write] /\ write[w] \in Write /\ WriteOK(w) /\ active \in Nat
  BY FS_CardinalityType DEF ServingInv, ServingTypeOK, RetryInv
<1>2. write'[w] = Rejected(w)
  BY <1>1
<1>3. WriteOK(w)'
  BY <1>1, <1>2, RejectedFacts DEF WriteOK
<1>4. active' = active - One(write[w].tries > 0) + One(write'[w].tries > 0)
  BY <1>1, <1>2, RejectedFacts, RetryingOne DEF One
<1>. QED
  BY <1>1, <1>2, <1>3, <1>4, RejectedFacts, ClientStepKeeps

LEMMA RefuseKeeps ==
  ASSUME ServingInv, NEW w \in Writes, write[w].pc = "wire", Refuse(w), UNCHANGED pod
  PROVE  ServingInv'
<1>1. write \in [Writes -> Write] /\ write[w] \in Write /\ WriteOK(w) /\ active \in Nat
  BY FS_CardinalityType DEF ServingInv, ServingTypeOK, RetryInv
<1>2. CASE /\ write[w].tries < Attempts
           /\ active' = IF write[w].tries = 0 THEN active + 1 ELSE active
           /\ write' = [write EXCEPT ![w].pc = "sleep", ![w].tries = @ + 1]
  <2>1. write'[w] = [write[w] EXCEPT !.pc = "sleep", !.tries = @ + 1]
    BY <1>1, <1>2
  <2>2. write[w].tries \in Nat /\ write[w].tries + 1 \in 0 .. Attempts
    BY <1>1, <1>2, ApiAssumption DEF Write
  <2>3. /\ write'[w] \in Write /\ write'[w].pc = "sleep"
        /\ write'[w].tries = write[w].tries + 1 /\ write'[w].at = write[w].at
        /\ write'[w].open = write[w].open /\ write'[w].settled = write[w].settled
        /\ write'[w].ran = write[w].ran
    BY <1>1, <2>1, <2>2 DEF Write
  <2>4. write' = [write EXCEPT ![w] = write'[w]]
    BY <1>1, <1>2
  <2>5. WriteOK(w)'
    BY <1>1, <2>3 DEF WriteOK
  <2>6. active' = active - One(write[w].tries > 0) + One(write'[w].tries > 0)
    BY <1>1, <1>2, <2>2, <2>3 DEF One
  <2>. QED
    BY <2>3, <2>4, <2>5, <2>6, ClientStepKeeps
<1>3. CASE active' = active - Retrying({w}) /\ write' = [write EXCEPT ![w] = Rejected(w)]
  BY <1>3, RejectKeeps
<1>. QED
  BY <1>2, <1>3 DEF Refuse

(* The request leaves the browser, or the abandoned handler ends.          *)
LEMMA UncountedSteps ==
  ASSUME ServingInv, NEW w \in Writes, Fetch(w) \/ Abandoned(w)
  PROVE  ServingInv'
<1>1. write \in [Writes -> Write] /\ write[w] \in Write /\ WriteOK(w) /\ active \in Nat
  BY FS_CardinalityType DEF ServingInv, ServingTypeOK, RetryInv
<1>2. UNCHANGED <<pod, active>>
  BY DEF Fetch, Abandoned
<1>3. active' = active - One(write[w].tries > 0) + One(write[w].tries > 0)
  BY <1>1, <1>2 DEF One
<1>4. CASE Fetch(w)
  <2>1. write' = [write EXCEPT ![w] = write'[w]] /\ write'[w] = [write[w] EXCEPT !.pc = "wire"]
    BY <1>1, <1>4 DEF Fetch
  <2>2. /\ write'[w] \in Write /\ write'[w].pc = "wire" /\ write'[w].tries = write[w].tries
        /\ write'[w].at = write[w].at /\ write'[w].open = write[w].open
        /\ write'[w].settled = write[w].settled /\ write'[w].ran = write[w].ran
    BY <1>1, <2>1 DEF Write
  <2>3. WriteOK(w)'
    BY <1>1, <1>4, <2>2 DEF WriteOK, Fetch
  <2>. QED
    BY <1>2, <1>3, <2>1, <2>2, <2>3, ClientStepKeeps
<1>5. CASE Abandoned(w)
  <2>1. write' = [write EXCEPT ![w] = write'[w]] /\ write'[w] = [write[w] EXCEPT !.at = NoPod]
    BY <1>1, <1>5 DEF Abandoned
  <2>2. /\ write'[w] \in Write /\ write'[w].pc = write[w].pc /\ write'[w].tries = write[w].tries
        /\ write'[w].at = NoPod /\ write'[w].open = write[w].open
        /\ write'[w].settled = write[w].settled /\ write'[w].ran = write[w].ran
    BY <1>1, <2>1 DEF Write
  <2>3. WriteOK(w)' /\ ~write[w].open
    BY <1>1, <1>5, <2>2 DEF WriteOK, Abandoned
  <2>. QED
    BY <1>2, <1>3, <2>1, <2>2, <2>3, ClientStepKeeps
<1>. QED
  BY <1>4, <1>5

(* A pod that is up starts a handler: it counts the request.               *)
LEMMA ReceiveStep ==
  ASSUME ServingInv, NEW w \in Writes, NEW p \in Pods, Receive(w, p)
  PROVE  ServingInv'
<1>1. /\ write \in [Writes -> Write] /\ write[w] \in Write /\ WriteOK(w) /\ active \in Nat
      /\ pod \in [Pods -> Pod] /\ pod[p] \in Pod
      /\ write[w].pc = "wire" /\ pod[p].phase = "up"
  BY FS_CardinalityType DEF ServingInv, ServingTypeOK, RetryInv, Receive, Up
<1>2. CASE pod[p].gate
  BY <1>1, <1>2, RefuseKeeps DEF Receive
<1>3. CASE ~pod[p].gate
  <2>1. /\ pod' = [pod EXCEPT ![p].inflight = @ + 1] /\ active' = active
        /\ write' = [write EXCEPT ![w].pc = "busy", ![w].at = p, ![w].open = TRUE,
                                  ![w].settled = FALSE, ![w].ran = @ + 1]
    BY <1>3 DEF Receive
  <2>2. write'[w] = [write[w] EXCEPT !.pc = "busy", !.at = p, !.open = TRUE,
                                     !.settled = FALSE, !.ran = @ + 1]
    BY <1>1, <2>1
  <2>3. write[w].ran = 0 /\ ~write[w].open
    BY <1>1 DEF WriteOK
  <2>4. write'[w] = [pc |-> "busy", at |-> p, open |-> TRUE, settled |-> FALSE,
                     tries |-> write[w].tries, ran |-> 1]
    <3>1. write[w].ran + 1 = 1
      BY <2>3
    <3>. QED
      BY <1>1, <2>2, <3>1 DEF Write
  <2>5. write'[w] \in Write /\ WriteOK(w)'
    BY <1>1, <2>4, ApiAssumption DEF Write, WriteOK
  <2>6. write' = [write EXCEPT ![w] = write'[w]]
    BY <1>1, <2>1
  <2>7. active' = active - One(write[w].tries > 0) + One(write'[w].tries > 0)
    BY <1>1, <2>1, <2>4 DEF One
  <2>8. \A q \in Pods : ~Counts(q, w) /\ (Counts(q, w)' <=> q = p)
    BY <2>3, <2>4 DEF Counts
  <2>9. /\ pod' \in [Pods -> Pod]
        /\ \A q \in Pods : /\ pod'[q].phase = pod[q].phase /\ pod'[q].gate = pod[q].gate
                           /\ pod'[q].quiet = pod[q].quiet
                           /\ pod'[q].inflight = pod[q].inflight + One(q = p)
    <3>1. [pod[p] EXCEPT !.inflight = @ + 1] \in Pod
      BY <1>1 DEF Pod
    <3>2. \A q \in Pods : pod[q].inflight \in Nat /\ pod[q].inflight + 0 = pod[q].inflight
      BY <1>1 DEF Pod
    <3>. QED
      BY <1>1, <2>1, <3>1, <3>2 DEF Pod, One
  <2>10. \A q \in Pods : pod'[q].inflight + One(Counts(q, w)) =
                         pod[q].inflight + One(Counts(q, w)')
    BY <2>8, <2>9 DEF One, Pod
  <2>11. \A q \in Pods :
             /\ Counts(q, w)' => Counts(q, w) \/ ~pod[q].gate
             /\ write'[w].at = q => pod[q].phase = "up"
    BY <1>1, <1>3, <2>4, <2>8
  <2>. QED
    BY <2>5, <2>6, <2>7, <2>9, <2>10, <2>11, WriteStepKeeps
<1>. QED
  BY <1>2, <1>3

(* The listener of `finish` or `close` settles the request at its pod.     *)
LEMMA SettleKeeps ==
  ASSUME ServingInv, NEW w \in Writes, write[w].open, ~write'[w].open \/ write'[w].settled,
         write' = [write EXCEPT ![w] = write'[w]], write'[w] \in Write,
         write'[w].pc = "done", write'[w].tries = 0, write'[w].ran = write[w].ran,
         write'[w].open => write[w].open, write'[w].at \in {NoPod, write[w].at},
         write'[w].open => write'[w].at # NoPod,
         pod' = [pod EXCEPT ![write[w].at] = Settle(w, pod[write[w].at])],
         active' = active - Retrying({w})
  PROVE  ServingInv'
<1>. DEFINE q == write[w].at
<1>1. /\ pod \in [Pods -> Pod] /\ WriteOK(w) /\ active \in Nat /\ q \in Pods /\ CountInv
      /\ write[w].settled \in BOOLEAN
  BY FS_CardinalityType DEF ServingInv, ServingTypeOK, RetryInv, WriteOK, Write
<1>2. WriteOK(w)'
  BY <1>1 DEF WriteOK
<1>3. active' = active - One(write[w].tries > 0) + One(write'[w].tries > 0)
  BY <1>1, RetryingOne DEF One
<1>4. \A p \in Pods : ~Counts(p, w)' /\ (Counts(p, w) <=> p = q /\ ~write[w].settled)
  BY DEF Counts
<1>5. ~write[w].settled => pod[q].inflight > 0
  <2>1. SUFFICES ASSUME ~write[w].settled PROVE pod[q].inflight > 0
    OBVIOUS
  <2>2. w \in Counted(q)
    BY <1>1, <1>4, <2>1 DEF Counted
  <2>. QED
    BY <1>1, <2>2, OneElement DEF CountInv
<1>. DEFINE c == Settle(w, pod[q])
<1>6. pod[q] \in Pod /\ pod[q].inflight \in Nat
  BY <1>1 DEF Pod
<1>7. /\ c \in Pod /\ c.inflight = pod[q].inflight - One(~write[w].settled)
      /\ c.phase = pod[q].phase /\ c.gate = pod[q].gate /\ c.quiet = pod[q].quiet
  <2>1. CASE write[w].settled
    BY <1>6, <2>1 DEF Settle, One
  <2>2. CASE ~write[w].settled
    <3>1. c = [pod[q] EXCEPT !.inflight = pod[q].inflight - 1]
      BY <1>5, <1>6, <2>2 DEF Settle
    <3>2. pod[q].inflight - 1 \in Nat
      BY <1>5, <1>6, <2>2
    <3>. HIDE DEF c
    <3>. QED
      BY <1>6, <2>2, <3>1, <3>2 DEF Pod, One
  <2>. QED
    BY <1>1, <2>1, <2>2
<1>8. pod' = [pod EXCEPT ![q] = c]
  OBVIOUS
<1>. HIDE DEF c
<1>9. /\ pod' \in [Pods -> Pod]
      /\ \A p \in Pods : /\ pod'[p].phase = pod[p].phase /\ pod'[p].gate = pod[p].gate
                         /\ pod'[p].quiet = pod[p].quiet
                         /\ p # q => pod'[p].inflight = pod[p].inflight
      /\ pod'[q].inflight = pod[q].inflight - One(~write[w].settled)
  BY <1>1, <1>7, <1>8
<1>10. \A p \in Pods : pod'[p].inflight + One(Counts(p, w)) =
                       pod[p].inflight + One(Counts(p, w)')
  <2>1. TAKE p \in Pods
  <2>2. pod[p].inflight \in Nat
    BY <1>1 DEF Pod
  <2>3. CASE p = q
    BY <1>4, <1>9, <2>2, <2>3 DEF One
  <2>4. CASE p # q
    BY <1>4, <1>9, <2>2, <2>4 DEF One
  <2>. QED
    BY <2>3, <2>4
<1>11. \A p \in Pods : /\ write'[w].at = p => write[w].at = p
                       /\ Counts(p, w)' => Counts(p, w) \/ ~pod[p].gate
                       /\ write'[w].pc # "busy"
  BY <1>4, ApiAssumption
<1>. QED
  BY <1>2, <1>3, <1>9, <1>10, <1>11, WriteStepKeeps

LEMMA AnswerSteps ==
  ASSUME ServingInv, NEW w \in Writes, Finish(w) \/ Close(w)
  PROVE  ServingInv'
<1>1. /\ write \in [Writes -> Write] /\ write[w] \in Write /\ WriteOK(w)
      /\ write[w].open /\ write[w].at \in Pods
  BY DEF ServingInv, ServingTypeOK, WriteOK, Finish, Close
<1>2. /\ pod' = [pod EXCEPT ![write[w].at] = Settle(w, pod[write[w].at])]
      /\ active' = active - Retrying({w})
  BY DEF Finish, Close
<1>. DEFINE x == Rejected(w)
<1>3. /\ x \in Write /\ x.pc = "done" /\ x.tries = 0 /\ x.at = write[w].at
      /\ x.open = write[w].open /\ x.ran = write[w].ran
  BY <1>1, RejectedFacts
<1>. HIDE DEF x
<1>4. CASE Finish(w)
  <2>1. write' = [write EXCEPT ![w] = [x EXCEPT !.settled = TRUE]]
    BY <1>4 DEF Finish, x
  <2>2. write'[w] = [x EXCEPT !.settled = TRUE] /\ write' = [write EXCEPT ![w] = write'[w]]
    BY <1>1, <2>1
  <2>3. /\ write'[w] \in Write /\ write'[w].pc = "done" /\ write'[w].tries = 0
        /\ write'[w].at = write[w].at /\ write'[w].open = write[w].open
        /\ write'[w].ran = write[w].ran /\ write'[w].settled
    BY <1>3, <2>2 DEF Write
  <2>. QED
    BY <1>1, <1>2, <2>2, <2>3, ApiAssumption, SettleKeeps
<1>5. CASE Close(w)
  <2>. DEFINE to == IF write[w].pc = "busy" THEN write[w].at ELSE NoPod
  <2>1. write' = [write EXCEPT ![w] = [x EXCEPT !.open = FALSE, !.settled = TRUE, !.at = to]]
    BY <1>3, <1>5 DEF Close, x
  <2>2. /\ write'[w] = [x EXCEPT !.open = FALSE, !.settled = TRUE, !.at = to]
        /\ write' = [write EXCEPT ![w] = write'[w]] /\ to \in {NoPod, write[w].at}
    BY <1>1, <2>1
  <2>. HIDE DEF to
  <2>3. /\ write'[w] \in Write /\ write'[w].pc = "done" /\ write'[w].tries = 0
        /\ write'[w].at \in {NoPod, write[w].at} /\ ~write'[w].open
        /\ write'[w].ran = write[w].ran
    BY <1>1, <1>3, <2>2 DEF Write
  <2>. QED
    BY <1>1, <1>2, <2>2, <2>3, SettleKeeps
<1>. QED
  BY <1>4, <1>5

LEMMA WriteSteps ==
  ASSUME ServingInv, NEW w \in Writes, WriteStep(w)
  PROVE  ServingInv'
<1>1. CASE Fetch(w) \/ Abandoned(w)
  BY <1>1, UncountedSteps
<1>2. CASE Warming(w)
  BY <1>2, RefuseKeeps DEF Warming
<1>3. CASE \E p \in Pods : Receive(w, p)
  BY <1>3, ReceiveStep
<1>4. CASE Finish(w) \/ Close(w)
  BY <1>4, AnswerSteps
<1>5. CASE Unreachable(w) \/ Abort(w)
  BY <1>5, RejectKeeps DEF Unreachable, Abort
<1>. QED
  BY <1>1, <1>2, <1>3, <1>4, <1>5 DEF WriteStep

-----------------------------------------------------------------------------
(* The operator's PATCHes.                                                 *)

(* What a step does to a pod through a control call, or not at all.        *)
LEMMA ControlKeeps ==
  ASSUME ServingInv, NEW p \in Pods, NEW gate \in BOOLEAN, NEW quiet \in BOOLEAN,
         UNCHANGED <<write, active>>, quiet => gate /\ Counted(p) = {},
         pod' = [pod EXCEPT ![p].gate = gate, ![p].quiet = quiet]
  PROVE  ServingInv'
<1>1. pod \in [Pods -> Pod] /\ pod[p] \in Pod /\ PodOK(p)
  BY DEF ServingInv, ServingTypeOK
<1>2. pod' = [pod EXCEPT ![p] = pod'[p]] /\ pod'[p] = [pod[p] EXCEPT !.gate = gate, !.quiet = quiet]
  BY <1>1
<1>3. pod'[p] = [phase |-> pod[p].phase, gate |-> gate, inflight |-> pod[p].inflight,
                 quiet |-> quiet]
  BY <1>1, <1>2 DEF Pod
<1>4. pod'[p] \in Pod
  BY <1>1, <1>3 DEF Pod
<1>. QED
  BY <1>1, <1>2, <1>3, <1>4, PodStepKeeps DEF PodOK

LEMMA ServingUnchanged ==
  ASSUME ServingInv, UNCHANGED <<pod, write, active>>
  PROVE  ServingInv'
<1>1. \A p \in Pods : Counted(p)' = Counted(p) /\ Served(p)' = Served(p) /\ Open(p)' = Open(p)
  BY DEF Counted, Counts, Served, Open
<1>2. ServingTypeOK' /\ RetryInv' /\ \A w \in Writes : WriteOK(w)'
  BY DEF ServingInv, ServingTypeOK, RetryInv, Retriers, WriteOK
<1>3. CountInv' /\ \A p \in Pods : PodOK(p)'
  BY <1>1 DEF ServingInv, CountInv, PodOK
<1>. QED
  BY <1>2, <1>3 DEF ServingInv

(* A pod that saw its counter at zero counts nobody.                       *)
LEMMA DrainedStep ==
  ASSUME ServingInv, PatchInv, NEW k \in Patches, Drained(k)
  PROVE  ServingInv'
<1>. DEFINE p == patch[k].at
            quiet == pod[p].quiet \/ (pod[p].inflight = 0 /\ pod[p].gate)
<1>1. p \in Pods
  BY DEF Drained, PatchInv
<1>2. pod \in [Pods -> Pod] /\ pod[p] \in Pod /\ PodOK(p)
  BY <1>1 DEF ServingInv, ServingTypeOK
<1>3. IsFiniteSet(Counted(p)) /\ pod[p].inflight = Cardinality(Counted(p))
  BY <1>1 DEF ServingInv, CountInv
<1>4. quiet => pod[p].gate /\ Counted(p) = {}
  BY <1>2, <1>3, FS_EmptySet DEF PodOK
<1>5. pod[p].gate \in BOOLEAN /\ quiet \in BOOLEAN
  BY <1>2 DEF Pod
<1>6. pod' = [pod EXCEPT ![p].quiet = quiet] /\ UNCHANGED <<write, active>>
  BY DEF Drained
<1>7. pod' = [pod EXCEPT ![p].gate = pod[p].gate, ![p].quiet = quiet]
  BY <1>1, <1>2, <1>6 DEF Pod
<1>. HIDE DEF quiet
<1>. QED
  BY <1>1, <1>4, <1>5, <1>6, <1>7, ControlKeeps

LEMMA ControlStep ==
  ASSUME ServingInv, NEW k \in Patches, NEW p \in Pods, Control(k, p)
  PROVE  ServingInv'
<1>1. pod \in [Pods -> Pod] /\ pod[p] \in Pod /\ PodOK(p) /\ UNCHANGED <<write, active>>
  BY DEF ServingInv, ServingTypeOK, Control
<1>2. CASE pod' = [pod EXCEPT ![p].gate = TRUE]
  <2>1. pod' = [pod EXCEPT ![p].gate = TRUE, ![p].quiet = pod[p].quiet]
    BY <1>1, <1>2 DEF Pod
  <2>2. pod[p].quiet \in BOOLEAN /\ (pod[p].quiet => Counted(p) = {})
    BY <1>1 DEF Pod, PodOK
  <2>. QED
    BY <1>1, <2>1, <2>2, ControlKeeps
<1>3. CASE pod' = [pod EXCEPT ![p].gate = FALSE, ![p].quiet = FALSE]
  BY <1>1, <1>3, ControlKeeps
<1>. QED
  BY <1>2, <1>3 DEF Control

LEMMA PatchStepServes ==
  ASSUME ServingInv, PatchInv, NEW k \in Patches, PatchStep(k)
  PROVE  ServingInv'
<1>1. CASE \E p \in Pods : Control(k, p)
  BY <1>1, ControlStep
<1>2. CASE Drained(k)
  BY <1>2, DrainedStep
<1>3. CASE (\E s \in States : PatchState(k, s)) \/ ControlFails(k) \/ LostCall(k) \/ UpdateRow(k)
  BY <1>3, ServingUnchanged DEF PatchState, ControlFails, LostCall, UpdateRow
<1>. QED
  BY <1>1, <1>2, <1>3 DEF PatchStep

LEMMA PatchBecomes ==
  ASSUME PatchInv, NEW k \in Patches, patch' = [patch EXCEPT ![k] = patch'[k]],
         patch'[k] \in Patch, patch'[k].job = "draining" => patch'[k].at \in Pods
  PROVE  PatchInv'
BY DEF PatchInv

LEMMA DrainedKeepsPatches ==
  ASSUME PatchInv, NEW k \in Patches, Drained(k)
  PROVE  PatchInv'
<1>1. /\ patch \in [Patches -> Patch] /\ patch[k] \in Patch
      /\ patch[k].job = "draining" => patch[k].at \in Pods
  BY DEF PatchInv
<1>. DEFINE to == IF patch[k].pc = "call" THEN "acked" ELSE patch[k].pc
<1>2. /\ patch' = [patch EXCEPT ![k] = patch'[k]]
      /\ patch'[k] = [patch[k] EXCEPT !.job = "none", !.at = NoPod, !.pc = to]
  BY <1>1 DEF Drained, Patch
<1>3. to \in {"idle", "call", "acked", "done"}
  BY <1>1 DEF Patch
<1>. HIDE DEF to
<1>4. patch'[k] \in Patch /\ patch'[k].job = "none"
  BY <1>1, <1>2, <1>3 DEF Patch
<1>5. patch'[k].job = "draining" => patch'[k].at \in Pods
  BY <1>4
<1>6. patch' = [patch EXCEPT ![k] = patch'[k]]
  BY <1>2
<1>. QED
  BY <1>4, <1>5, <1>6, PatchBecomes

LEMMA CallsFail ==
  ASSUME PatchInv, NEW k \in Patches, ControlFails(k) \/ LostCall(k)
  PROVE  PatchInv'
<1>1. /\ patch \in [Patches -> Patch] /\ patch[k] \in Patch
      /\ patch[k].job = "draining" => patch[k].at \in Pods
  BY DEF PatchInv
<1>2. /\ patch' = [patch EXCEPT ![k] = patch'[k]]
      /\ \/ patch'[k] = [patch[k] EXCEPT !.pc = "done"]
         \/ patch'[k] = [patch[k] EXCEPT !.pc = "done", !.job = "none"]
         \/ patch'[k] = [patch[k] EXCEPT !.job = "none"]
  BY <1>1 DEF ControlFails, LostCall
<1>3. patch'[k] \in Patch /\ patch'[k].job \in {patch[k].job, "none"}
      /\ patch'[k].at = patch[k].at
  BY <1>1, <1>2 DEF Patch
<1>4. patch'[k].job = "draining" => patch'[k].at \in Pods
  BY <1>1, <1>3
<1>5. patch' = [patch EXCEPT ![k] = patch'[k]]
  BY <1>2
<1>. QED
  BY <1>3, <1>4, <1>5, PatchBecomes

LEMMA PatchStepKeeps ==
  ASSUME PatchInv, RestOK, NEW k \in Patches, PatchStep(k)
  PROVE  PatchInv' /\ RestOK'
<1>1. /\ patch \in [Patches -> Patch] /\ patch[k] \in Patch
      /\ patch[k].job = "draining" => patch[k].at \in Pods
  BY DEF PatchInv
<1>2. CASE UpdateRow(k)
  <2>1. /\ patch' = [patch EXCEPT ![k] = patch'[k]]
        /\ patch'[k] = [patch[k] EXCEPT !.pc = "done"]
    BY <1>1, <1>2 DEF UpdateRow
  <2>2. patch'[k] \in Patch /\ patch'[k].job = patch[k].job /\ patch'[k].at = patch[k].at
    BY <1>1, <2>1 DEF Patch
  <2>. QED
    BY <1>1, <1>2, <2>1, <2>2, PatchBecomes DEF UpdateRow, RestOK, Patch
<1>3. CASE ~UpdateRow(k)
  <2>1. RestOK'
    BY <1>3 DEF PatchStep, PatchState, Control, Drained, ControlFails, LostCall, RestOK
  <2>2. ASSUME NEW s \in States, PatchState(k, s) PROVE PatchInv'
    <3>1. /\ patch' = [patch EXCEPT ![k] = patch'[k]]
          /\ patch'[k] = IF row = s THEN [patch[k] EXCEPT !.pc = "acked", !.to = s]
                         ELSE [patch[k] EXCEPT !.pc = "call", !.to = s, !.job = "wire"]
      BY <1>1, <2>2 DEF PatchState
    <3>2. patch'[k] \in Patch /\ patch'[k].job \in {patch[k].job, "wire"}
          /\ patch'[k].at = patch[k].at
      BY <1>1, <3>1 DEF Patch
    <3>. QED
      BY <1>1, <3>1, <3>2, PatchBecomes
  <2>3. ASSUME NEW p \in Pods, Control(k, p) PROVE PatchInv'
    <3>1. CASE patch' = [patch EXCEPT ![k].job = "draining", ![k].at = p]
      <4>1. /\ patch' = [patch EXCEPT ![k] = patch'[k]]
            /\ patch'[k] = [patch[k] EXCEPT !.job = "draining", !.at = p]
        BY <1>1, <3>1
      <4>2. patch'[k] \in Patch /\ patch'[k].at = p
        BY <1>1, <4>1 DEF Patch
      <4>. QED
        BY <4>1, <4>2, PatchBecomes
    <3>2. CASE patch' = [patch EXCEPT ![k].job = "none",
                                      ![k].pc = IF @ = "call" THEN "acked" ELSE @]
      <4>. DEFINE to == IF patch[k].pc = "call" THEN "acked" ELSE patch[k].pc
      <4>1. /\ patch' = [patch EXCEPT ![k] = patch'[k]]
            /\ patch'[k] = [patch[k] EXCEPT !.job = "none", !.pc = to]
        BY <1>1, <3>2 DEF Patch
      <4>2. to \in {"idle", "call", "acked", "done"}
        BY <1>1 DEF Patch
      <4>. HIDE DEF to
      <4>3. patch'[k] \in Patch /\ patch'[k].job = "none"
        BY <1>1, <4>1, <4>2 DEF Patch
      <4>. QED
        BY <4>1, <4>3, PatchBecomes
    <3>. QED
      BY <2>3, <3>1, <3>2 DEF Control
  <2>4. ASSUME Drained(k) PROVE PatchInv'
    BY <2>4, DrainedKeepsPatches
  <2>5. ASSUME ControlFails(k) \/ LostCall(k) PROVE PatchInv'
    BY <2>5, CallsFail
  <2>. QED
    BY <1>3, <2>1, <2>2, <2>3, <2>4, <2>5 DEF PatchStep
<1>. QED
  BY <1>2, <1>3

(* The control calls of a pod that stops are cut off.                      *)
LEMMA CallsCut ==
  ASSUME PatchInv, NEW p \in Pods, ForceShutdown(p) \/ Gone(p)
  PROVE  PatchInv'
<1>1. \A k \in Patches : patch[k] \in Patch /\ (patch[k].job = "draining" => patch[k].at \in Pods)
  BY DEF PatchInv
<1>2. patch' = [k \in DOMAIN patch' |-> patch'[k]] /\ DOMAIN patch' = Patches
  BY DEF ForceShutdown, Gone
<1>3. ASSUME NEW k \in Patches
      PROVE  patch'[k] \in Patch /\ (patch'[k].job = "draining" => patch'[k].at \in Pods)
  <2>. DEFINE to == IF patch[k].pc = "call" THEN "done" ELSE patch[k].pc
  <2>1. \/ patch'[k] = patch[k]
        \/ patch'[k] = [patch[k] EXCEPT !.pc = "done"]
        \/ patch'[k] = [patch[k] EXCEPT !.at = NoPod, !.job = "none", !.pc = to]
    BY <1>1 DEF ForceShutdown, Gone, Patch
  <2>2. to \in {"idle", "call", "acked", "done"}
    BY <1>1 DEF Patch
  <2>. HIDE DEF to
  <2>3. \/ patch'[k] = patch[k]
        \/ patch'[k] \in Patch /\ patch'[k].job = patch[k].job /\ patch'[k].at = patch[k].at
        \/ patch'[k] \in Patch /\ patch'[k].job = "none"
    BY <1>1, <2>1, <2>2 DEF Patch
  <2>. QED
    BY <1>1, <2>3
<1>. QED
  BY <1>2, <1>3 DEF PatchInv

-----------------------------------------------------------------------------
LEMMA InitHolds == Init => IInv
<1> SUFFICES ASSUME Init PROVE IInv
  OBVIOUS
<1>. USE MigrationsAssumption, ApiAssumption
<1>1. MigrationsInv
  <2>1. Len(schema) \in {0, NumFiles} /\ schema \in Seq(Files)
        /\ schema = [i \in 1 .. Len(schema) |-> i] /\ ledger = 1 .. Len(schema)
    <3>1. CASE database = "new"
      <4>1. schema = << >> /\ ledger = {}
        BY <3>1 DEF Init
      <4>. QED
        BY <4>1
    <3>2. CASE database # "new"
      <4>1. schema = [i \in 1 .. NumFiles |-> i] /\ ledger = 1 .. NumFiles
        BY <3>2 DEF Init, Files
      <4>2. schema \in [1 .. NumFiles -> Files]
        BY <4>1 DEF Files
      <4>. QED
        BY <4>1, <4>2
    <3>. QED
      BY <3>1, <3>2
  <2>2. \A r \in Runners : runner[r] = Idle /\ Stage(r) = "off"
    BY DEF Init, Stage, At, Idle
  <2>3. MigrationsTypeOK
    BY <2>1, IdleRunner DEF Init, MigrationsTypeOK, Files
  <2>4. HoldsLock /\ KnowsPending
    BY <2>2 DEF HoldsLock, KnowsPending, Live
  <2>. QED
    BY <2>1, <2>3, <2>4 DEF MigrationsInv, LedgerIsSchema
<1>2. ServingInv
  <2>1. Off \in Pod /\ Off.inflight = 0 /\ ~Off.quiet /\ Off.phase = "off"
    BY DEF Off, Booted, Pod, Phases
  <2>2. Unsent \in Write
    <3>1. 0 \in 0 .. Attempts /\ 0 \in 0 .. Attempts + 1
      OBVIOUS
    <3>. QED
      BY <3>1 DEF Unsent, Write
  <2>3. \A w \in Writes : write[w] = Unsent
    BY DEF Init
  <2>4. Retriers = {} /\ \A p \in Pods : Counted(p) = {} /\ Served(p) = {} /\ Open(p) = {}
    BY <2>3 DEF Retriers, Counted, Counts, Served, Open, Unsent
  <2>5. ServingTypeOK
    BY <2>1, <2>2 DEF Init, ServingTypeOK
  <2>6. CountInv /\ RetryInv
    BY <2>1, <2>4, FS_EmptySet DEF Init, CountInv, RetryInv
  <2>7. \A w \in Writes : WriteOK(w)
    BY <2>3 DEF WriteOK, Unsent
  <2>8. \A p \in Pods : PodOK(p)
    BY <2>1, <2>4 DEF Init, PodOK
  <2>. QED
    BY <2>5, <2>6, <2>7, <2>8 DEF ServingInv
<1>3. PatchInv
  BY DEF Init, PatchInv, Unasked, Patch, States
<1>4. RestOK
  BY DEF Init, RestOK, States
<1>. QED
  BY <1>1, <1>2, <1>3, <1>4 DEF IInv

LEMMA RestKept ==
  ASSUME RestOK, UNCHANGED <<row, database>>,
         UNCHANGED stops \/ (stops < MaxStops /\ stops' = stops + 1)
  PROVE  RestOK'
BY ApiAssumption DEF RestOK

LEMMA PodStepsKeep ==
  ASSUME IInv, NEW p \in Pods, Boot(p) \/ Shutdown(p) \/ Kill(p) \/ StopStep(p)
  PROVE  IInv'
<1>1. ServingInv'
  BY PodSteps, ForceShutdownStep, GoneStep DEF IInv, StopStep, Exit, Kill
<1>2. PatchInv'
  <2>1. CASE Boot(p) \/ Shutdown(p) \/ ServerClosed(p)
    BY <2>1 DEF IInv, PatchInv, Boot, Shutdown, ServerClosed
  <2>2. CASE ForceShutdown(p) \/ Gone(p)
    BY <2>2, CallsCut DEF IInv
  <2>. QED
    BY <2>1, <2>2 DEF StopStep, Exit, Kill
<1>3. UNCHANGED <<migrationVars, row, database>>
  BY DEF Boot, Shutdown, ServerClosed, ForceShutdown, Gone, StopStep, Exit, Kill
<1>4. UNCHANGED stops \/ (stops < MaxStops /\ stops' = stops + 1)
  BY DEF Boot, Shutdown, ServerClosed, ForceShutdown, StopStep, Exit, Kill
<1>5. RestOK'
  BY <1>3, <1>4, RestKept DEF IInv
<1>6. MigrationsInv'
  BY <1>3 DEF IInv, MigrationsInv, migrationVars, MigrationsTypeOK, LedgerIsSchema,
              HoldsLock, KnowsPending, Stage, Applied
<1>. QED
  BY <1>1, <1>2, <1>5, <1>6 DEF IInv

LEMMA NextKeeps ==
  ASSUME IInv, [Next]_vars
  PROVE  IInv'
<1>1. CASE MigrationsNext /\ UNCHANGED apiVars
  <2>1. MigrationsInv'
    BY <1>1, MigrationsStep DEF IInv
  <2>2. ServingInv' /\ PatchInv' /\ RestOK'
    BY <1>1, ServingUnchanged DEF IInv, apiVars, PatchInv, RestOK
  <2>. QED
    BY <2>1, <2>2 DEF IInv
<1>2. ASSUME UNCHANGED migrationVars PROVE MigrationsInv'
  BY <1>2 DEF IInv, MigrationsInv, migrationVars, MigrationsTypeOK, LedgerIsSchema,
              HoldsLock, KnowsPending, Stage, Applied
<1>3. ASSUME NEW p \in Pods, Boot(p) \/ Shutdown(p) \/ Kill(p) \/ StopStep(p) PROVE IInv'
  BY <1>3, PodStepsKeep
<1>4. ASSUME NEW w \in Writes, WriteStep(w) PROVE IInv'
  <2>1. UNCHANGED <<migrationVars, patch, row, database, stops>>
    BY <1>4 DEF WriteStep, Fetch, Warming, Receive, Finish, Close, Abandoned, Unreachable, Abort
  <2>. QED
    BY <1>2, <1>4, <2>1, WriteSteps DEF IInv, PatchInv, RestOK
<1>5. ASSUME NEW k \in Patches, PatchStep(k) PROVE IInv'
  <2>1. UNCHANGED migrationVars
    BY <1>5 DEF PatchStep, PatchState, Control, Drained, ControlFails, LostCall, UpdateRow
  <2>. QED
    BY <1>2, <1>5, <2>1, PatchStepServes, PatchStepKeeps DEF IInv
<1>6. CASE UNCHANGED vars
  BY <1>2, <1>6, ServingUnchanged DEF vars, apiVars, IInv, PatchInv, RestOK
<1>. QED
  BY <1>1, <1>3, <1>4, <1>5, <1>6 DEF Next

(* The invariant the theorems below rest on.                               *)
THEOREM Invariance == Spec => []IInv
<1>1. Init => IInv
  BY InitHolds
<1>2. IInv /\ [Next]_vars => IInv'
  BY NextKeeps
<1>. QED
  BY <1>1, <1>2, PTL DEF Spec

(* Every variable has its type.                                            *)
THEOREM TypeCorrect == Spec => []TypeOK
<1>1. IInv => TypeOK
  BY FS_CardinalityType DEF IInv, TypeOK, MigrationsInv, ServingInv, ServingTypeOK,
                            PatchInv, RestOK, RetryInv
<1>. QED
  BY <1>1, Invariance, PTL

(* runMigrations: whichever processes raced for the lock, died inside a    *)
(* file or gave up, a file is in the ledger iff its SQL was committed, once *)
(* and in the files' order.                                                *)
THEOREM LedgerTellsSchema == Spec => []LedgerIsSchema
<1>1. IInv => LedgerIsSchema
  BY DEF IInv, MigrationsInv
<1>. QED
  BY <1>1, Invariance, PTL

(* apiFetch and the maintenance gate: a request that is retried after a    *)
(* marked 503 has had no handler, so no write runs twice.                  *)
THEOREM RetriesAreSafe == Spec => []WrittenOnce
<1>1. IInv => WrittenOnce
  BY DEF IInv, ServingInv, WriteOK, WrittenOnce
<1>. QED
  BY <1>1, Invariance, PTL

(* inflightWrites and waitForInflightWriteDrain: a pod that has answered   *)
(* `drained` runs no handler for a waiting client until its gate opens.    *)
THEOREM DrainedMeansQuiet == Spec => []QuietWhileDrained
<1>1. ASSUME IInv PROVE QuietWhileDrained
  <2>1. SUFFICES ASSUME NEW p \in Pods, pod[p].quiet, NEW w \in Open(p), write[w].pc = "busy"
                 PROVE FALSE
    BY DEF QuietWhileDrained
  <2>2. w \in Writes /\ write[w].at = p /\ write[w].open
    BY DEF Open, Served
  <2>3. w \in Counted(p)
    BY <1>1, <2>1, <2>2 DEF IInv, ServingInv, WriteOK, Counted, Counts
  <2>. QED
    BY <1>1, <2>1, <2>3 DEF IInv, ServingInv, PodOK
<1>. QED
  BY <1>1, Invariance, PTL

(* createShutdownController: the database pool of a pod is closed only     *)
(* once nobody waits for one of its answers.                               *)
THEOREM PoolClosesLast == Spec => []PoolOutlivesClients
<1>1. IInv => PoolOutlivesClients
  BY DEF IInv, ServingInv, PodOK, PoolOutlivesClients
<1>. QED
  BY <1>1, Invariance, PTL
=============================================================================
