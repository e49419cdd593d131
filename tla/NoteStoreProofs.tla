--------------------------- MODULE NoteStoreProofs ---------------------------
(* Proofs about NoteStore, for any notes, memberships and payloads, and    *)
(* any number of requests, consolidations and booting pods: references are *)
(* never orphaned and follow the notes, and a consolidation stands.        *)
EXTENDS NoteStore, TLAPS

USE DEF Writers

(* What a boot is about to insert leads between notes that exist: its keys *)
(* keep them from being deleted.                                           *)
NewIsStored == \A p \in Pods : KeyShared(p) \subseteq Stored

OrphanInv == NoOrphans /\ NewIsStored

(* A consolidation moves notes that existed, between two memberships.      *)
MergeInv ==
    /\ \A c \in Merges : merge[c].pc = "reassign" => merge[c].source # merge[c].target
    /\ \A n \in Notes, m \in Members : <<n, m>> \in merged => notes[n].at # "none"
    /\ AuthorsStayMerged

(* A body names notes that exist or did.                                   *)
Mentioned == \A n \in Stored : \A t \in Mentions(n) : notes[t].at # "none"

Targets(rows, n) == {r.target : r \in {s \in rows : s.source = n}}

Handled(p) == boot[p].read \ boot[p].todo

(* A sync deletes and inserts references of the notes it has handled.      *)
Tidy(p) ==
    /\ \A n \in boot[p].read : notes[n].at # "none"
    /\ boot[p].todo \subseteq boot[p].read
    /\ \A r \in boot[p].old \cup boot[p].new : r.source \in Handled(p)

(* What it knows of a note nobody else has written since, the references   *)
(* it is to insert, and what is left of those it does not delete.          *)
InStep(p) ==
    \A n \in Stored \ boot[p].late :
        /\ n \in boot[p].read => boot[p].mentions[n] = Mentions(n)
        /\ n \notin boot[p].read => n \notin raced
        /\ n \in Handled(p) =>
             /\ Targets(boot[p].new, n) = Mentions(n) \cap Stored
             /\ \A r \in refs : r.source = n => r \in boot[p].old \/ r.target \in Mentions(n)

SyncInv(p) == Syncing(p) => Tidy(p) /\ InStep(p)

RefInv == Mentioned /\ ReferencesFollowNotes /\ \A p \in Pods : SyncInv(p)

(* What the helpers build is of the type it should be.                     *)
LEMMA Defaults == AnyNote \in Notes /\ AnyMember \in Members
  BY NonEmptyAssumption DEF AnyNote, AnyMember

LEMMA EmptyType == \A at \in {"none", "stored", "deleted"} : Empty(at) \in Note
  BY Defaults DEF Empty, Note

LEMMA IdleType == \A pc \in {"idle", "write", "ended"} : Idle(pc) \in Request
  BY Defaults DEF Idle, Request

LEMMA NoMergeType == \A pc \in {"idle", "reassign", "ended"} : NoMerge(pc) \in Merge
  BY Defaults DEF NoMerge, Merge

LEMMA DownType == \A pc \in {"down", "sync", "up"} : Down(pc) \in Boot
  BY DEF Down, Boot

LEMMA RewrittenType ==
  ASSUME NEW r \in Note
  PROVE  /\ \A body, links \in SUBSET Notes, m \in Members :
               [r EXCEPT !.body = body, !.links = links, !.lastEditedBy = m] \in Note
         /\ \A m, k \in Members : [r EXCEPT !.createdBy = m, !.lastEditedBy = k] \in Note
  BY DEF Note

LEMMA RowsType ==
  \A n \in Notes, by \in Writers : \A targets \in SUBSET Notes :
      Rows(n, targets, by) \subseteq Reference
  BY DEF Rows, Reference

LEMMA BehindType ==
  ASSUME TypeOK, NEW p \in Pods, NEW S \in SUBSET Notes
  PROVE  Behind(p, S) \in Boot
<1>1. boot[p] \in Boot
  BY DEF TypeOK
<1>2. [boot[p] EXCEPT !.late = @ \cup S] \in Boot
  BY <1>1 DEF Boot
<1>. QED
  BY <1>1, <1>2 DEF Behind

LEMMA WrittenType ==
  ASSUME TypeOK, NEW n \in Notes, Written(n)
  PROVE  boot' \in [Pods -> Boot] /\ raced' \subseteq Notes
<1>1. \A p \in Pods : Behind(p, {n}) \in Boot
  BY BehindType
<1>. QED
  BY <1>1 DEF Written, TypeOK

LEMMA EndedType ==
  ASSUME TypeOK, NEW e, Ended(e)
  PROVE  request' \in [Editors -> Request]
  BY IdleType DEF Ended, TypeOK

LEMMA InitType == Init => TypeOK
<1> SUFFICES ASSUME Init PROVE TypeOK
  OBVIOUS
<1>1. notes \in [Notes -> Note]
  BY Defaults, PayloadsAssumption DEF Init, Note
<1>2. refs \subseteq Reference
  <2>1. \A n \in Stored : Rows(n, notes[n].body \cap Stored, Earlier) \subseteq Reference
    BY RowsType DEF Stored
  <2>. QED
    BY <2>1 DEF Init
<1>3. request \in [Editors -> Request]
  BY IdleType DEF Init
<1>4. merge \in [Merges -> Merge]
  BY NoMergeType DEF Init
<1>5. boot \in [Pods -> Boot]
  BY DownType DEF Init
<1>6. faults \in 0 .. MaxFaults
  <2>1. faults = 0
    BY DEF Init
  <2>. QED
    BY <2>1, MaxFaultsAssumption
<1>7. raced \subseteq Notes /\ merged \subseteq Notes \X Members
  BY DEF Init
<1>. QED
  BY <1>1, <1>2, <1>3, <1>4, <1>5, <1>6, <1>7 DEF TypeOK

LEMMA OpenType ==
  ASSUME TypeOK, NEW e \in Editors, NEW op \in {"create", "update", "delete"},
         NEW n \in Notes, NEW m \in Members, Open(e, op, n, m)
  PROVE  TypeOK'
<1>1. notes[n].links \in SUBSET Notes /\ notes[n].createdBy \in Members
  BY DEF TypeOK, Note
<1> DEFINE opened == [pc |-> "write", op |-> op, note |-> n, member |-> m,
                      links |-> IF op = "update" THEN notes[n].links ELSE {},
                      createdBy |-> IF op = "update" THEN notes[n].createdBy ELSE AnyMember]
<1>2. opened \in Request
  BY <1>1, Defaults DEF Request
<1>3. request' = [request EXCEPT ![e] = opened]
  BY DEF Open
<1>4. request' \in [Editors -> Request]
  BY <1>2, <1>3 DEF TypeOK
<1>. QED
  BY <1>4 DEF TypeOK, Open

LEMMA CreateNoteType ==
  ASSUME TypeOK, NEW e \in Editors, NEW n \in Notes,
         NEW body \in Payloads, NEW links \in Payloads, CreateNote(e, n, body, links)
  PROVE  TypeOK'
<1>1. body \in SUBSET Notes /\ links \in SUBSET Notes
  BY PayloadsAssumption
<1>2. request[e].member \in Members
  BY DEF TypeOK, Request
<1> DEFINE new == [at |-> "stored", body |-> body, links |-> links,
                   createdBy |-> request[e].member, lastEditedBy |-> request[e].member]
<1>3. new \in Note
  BY <1>1, <1>2 DEF Note
<1>4. notes' \in [Notes -> Note]
  BY <1>3 DEF CreateNote, TypeOK
<1>5. refs' \subseteq Reference
  BY <1>1, RowsType DEF CreateNote, TypeOK
<1>6. request' \in [Editors -> Request]
  BY EndedType DEF CreateNote
<1>. QED
  BY <1>4, <1>5, <1>6 DEF TypeOK, CreateNote

LEMMA UpdateNoteType ==
  ASSUME TypeOK, NEW e \in Editors, NEW body \in Payloads, NEW given \in Payloads,
         NEW keep \in BOOLEAN, UpdateNote(e, body, keep, given)
  PROVE  TypeOK'
<1> DEFINE n     == request[e].note
           links == IF keep THEN request[e].links ELSE given
<1>1. /\ n \in Notes /\ request[e].member \in Members
      /\ body \in SUBSET Notes /\ links \in SUBSET Notes
  BY PayloadsAssumption DEF TypeOK, Request
<1> HIDE DEF n, links
<1>2. [notes[n] EXCEPT !.body = body, !.links = links,
                       !.lastEditedBy = request[e].member] \in Note
  <2>1. notes[n] \in Note
    BY <1>1 DEF TypeOK
  <2>. QED
    BY <1>1, <2>1, RewrittenType
<1>3. notes' \in [Notes -> Note]
  <2>1. notes' = [notes EXCEPT ![n].body = body, ![n].links = links,
                               ![n].lastEditedBy = request[e].member]
    BY DEF UpdateNote, n, links
  <2>. QED
    BY <1>1, <1>2, <2>1 DEF TypeOK
<1>4. refs' \subseteq Reference
  <2>1. refs' = Replaced(n, body \cup links, e)
    BY DEF UpdateNote, n, links
  <2>2. Rows(n, body \cup links, e) \subseteq Reference
    BY <1>1, RowsType
  <2>. QED
    BY <2>1, <2>2 DEF Replaced, TypeOK
<1>5. boot' \in [Pods -> Boot] /\ raced' \subseteq Notes
  BY <1>1, WrittenType DEF UpdateNote, n
<1>6. request' \in [Editors -> Request]
  BY EndedType DEF UpdateNote
<1>. QED
  BY <1>3, <1>4, <1>5, <1>6 DEF TypeOK, UpdateNote

LEMMA DeleteNoteType ==
  ASSUME TypeOK, NEW e \in Editors, DeleteNote(e)
  PROVE  TypeOK'
<1>1. request[e].note \in Notes
  BY DEF TypeOK, Request
<1>2. notes' \in [Notes -> Note]
  BY <1>1, EmptyType DEF TypeOK, DeleteNote
<1>3. request' \in [Editors -> Request]
  BY EndedType DEF DeleteNote
<1>. QED
  BY <1>2, <1>3 DEF TypeOK, DeleteNote

LEMMA ReassignType ==
  ASSUME TypeOK, NEW c \in Merges, Reassign(c)
  PROVE  TypeOK'
<1>1. merge[c] \in Merge
  BY DEF TypeOK
<1>2. \A n \in Notes : Reassigned(n, c) \in Note
  <2> TAKE n \in Notes
  <2>1. notes[n] \in Note
    BY DEF TypeOK
  <2>2. Moved(notes[n].createdBy, c) \in Members /\ Moved(notes[n].lastEditedBy, c) \in Members
    BY <1>1, <2>1 DEF Moved, Merge, Note
  <2>. QED
    BY <2>1, <2>2, RewrittenType DEF Reassigned
<1>3. notes' \in [Notes -> Note]
  BY <1>2 DEF TypeOK, Reassign
<1>4. merge' \in [Merges -> Merge]
  BY NoMergeType DEF TypeOK, Reassign, MergeEnded
<1>5. merged' \subseteq Notes \X Members
  BY <1>1 DEF TypeOK, Reassign, Merge
<1>. QED
  BY <1>3, <1>4, <1>5 DEF TypeOK, Reassign

LEMMA ConsolidateType ==
  ASSUME TypeOK, NEW c \in Merges, NEW source \in Members, NEW target \in Members,
         Consolidate(c, source, target)
  PROVE  TypeOK'
<1>1. Stored \subseteq Notes
  BY DEF Stored
<1>2. [pc |-> "reassign", source |-> source, target |-> target, seen |-> Stored] \in Merge
  BY <1>1 DEF Merge
<1>. QED
  BY <1>2 DEF TypeOK, Consolidate

LEMMA ReadAllNotesType ==
  ASSUME TypeOK, NEW p \in Pods, ReadAllNotes(p)
  PROVE  TypeOK'
<1> DEFINE f  == [n \in Notes |-> IF n \in Stored THEN Mentions(n) ELSE {}]
           b  == [Down("sync") EXCEPT !.read = Stored, !.todo = Stored, !.mentions = f]
<1>1. f \in [Notes -> SUBSET Notes]
  <2>1. \A n \in Notes : Mentions(n) \in SUBSET Notes
    BY DEF Mentions, TypeOK, Note
  <2>. QED
    BY <2>1
<1>2. Stored \subseteq Notes
  BY DEF Stored
<1>3. b \in Boot
  <2> HIDE DEF f
  <2>. QED
    BY <1>1, <1>2 DEF Boot, Down
<1>4. boot' = [boot EXCEPT ![p] = b]
  BY DEF ReadAllNotes
<1>5. boot' \in [Pods -> Boot]
  <2> HIDE DEF b
  <2>. QED
    BY <1>3, <1>4 DEF TypeOK
<1>. QED
  BY <1>5 DEF TypeOK, ReadAllNotes

LEMMA SyncNoteType ==
  ASSUME TypeOK, NEW p \in Pods, NEW n \in Notes, SyncNote(p, n)
  PROVE  TypeOK'
<1> DEFINE old == {r \in refs : r.source = n}
           new == Rows(n, SyncTargets(p, n), p)
<1>1. old \subseteq Reference
  BY DEF TypeOK
<1>2. new \subseteq Reference
  <2>1. SyncTargets(p, n) \in SUBSET Notes
    BY DEF SyncTargets, Stored
  <2>. QED
    BY <2>1, RowsType
<1>3. boot' = [boot EXCEPT ![p].todo = @ \ {n}, ![p].old = @ \cup old, ![p].new = @ \cup new]
  BY DEF SyncNote
<1>4. [boot[p] EXCEPT !.todo = @ \ {n}, !.old = @ \cup old, !.new = @ \cup new] \in Boot
  <2> HIDE DEF old, new
  <2>. QED
    BY <1>1, <1>2 DEF TypeOK, Boot
<1>5. boot' \in [Pods -> Boot]
  <2> HIDE DEF old, new
  <2>. QED
    BY <1>3, <1>4 DEF TypeOK
<1>. QED
  BY <1>5 DEF TypeOK, SyncNote

LEMMA SyncCommitsType ==
  ASSUME TypeOK, NEW p \in Pods, SyncCommits(p)
  PROVE  TypeOK'
<1>1. boot[p] \in Boot
  BY DEF TypeOK
<1>2. boot[p].late \in SUBSET Notes /\ boot[p].new \subseteq Reference
  BY <1>1 DEF Boot
<1>3. \A q \in Pods : Behind(q, boot[p].late) \in Boot
  BY <1>2, BehindType
<1>4. boot' \in [Pods -> Boot]
  BY <1>3, DownType DEF SyncCommits
<1>5. refs' \subseteq Reference /\ raced' \subseteq Notes
  BY <1>2 DEF SyncCommits, TypeOK
<1>. QED
  BY <1>4, <1>5 DEF TypeOK, SyncCommits

LEMMA BootInterruptedType ==
  ASSUME TypeOK, NEW p \in Pods, BootInterrupted(p)
  PROVE  TypeOK'
<1>1. boot' \in [Pods -> Boot]
  BY DownType DEF TypeOK, BootInterrupted
<1>2. faults' \in 0 .. MaxFaults
  BY MaxFaultsAssumption DEF TypeOK, BootInterrupted
<1>. QED
  BY <1>1, <1>2 DEF TypeOK, BootInterrupted

LEMMA StepType == TypeOK /\ [Next]_vars => TypeOK'
<1> SUFFICES ASSUME TypeOK, [Next]_vars PROVE TypeOK'
  OBVIOUS
<1>1. ASSUME NEW e \in Editors, EditStep(e) PROVE TypeOK'
  <2>1. CASE UpdateNothing(e) \/ RequestFails(e)
    BY <2>1, EndedType DEF UpdateNothing, RequestFails, TypeOK
  <2>. QED
    BY <1>1, <2>1, OpenType, CreateNoteType, UpdateNoteType, DeleteNoteType DEF EditStep
<1>2. ASSUME NEW c \in Merges, MergeStep(c) PROVE TypeOK'
  <2>1. CASE ConsolidateFails(c)
    BY <2>1, NoMergeType DEF ConsolidateFails, MergeEnded, TypeOK
  <2>. QED
    BY <1>2, <2>1, ConsolidateType, ReassignType DEF MergeStep
<1>3. ASSUME NEW p \in Pods, SyncStep(p) PROVE TypeOK'
  <2>1. ASSUME NEW n \in Notes, SyncNoteThrows(p, n) PROVE TypeOK'
    BY <2>1, DownType DEF SyncNoteThrows, TypeOK
  <2>. QED
    BY <1>3, <2>1, ReadAllNotesType, SyncNoteType, SyncCommitsType DEF SyncStep
<1>4. CASE UNCHANGED vars
  BY <1>4 DEF vars, TypeOK
<1>. QED
  BY <1>1, <1>2, <1>3, <1>4, BootInterruptedType DEF Next

(* Every variable keeps its type.                                          *)
THEOREM TypeCorrect == Spec => []TypeOK
<1>. QED
  BY InitType, StepType, PTL DEF Spec

-----------------------------------------------------------------------------
(* References lead between notes that exist.                               *)

LEMMA BehindKeepsRows ==
  ASSUME TypeOK, NEW p \in Pods, NEW S
  PROVE  /\ Behind(p, S).new = boot[p].new /\ Behind(p, S).old = boot[p].old
         /\ Behind(p, S).todo = boot[p].todo /\ Behind(p, S).pc = boot[p].pc
         /\ Behind(p, S).read = boot[p].read /\ Behind(p, S).mentions = boot[p].mentions
         /\ Syncing(p) => Behind(p, S).late = boot[p].late \cup S
<1>1. boot[p] \in Boot
  BY DEF TypeOK
<1>. QED
  BY <1>1 DEF Behind, Boot

(* Nothing that is stored goes, nothing is inserted: the steps that leave  *)
(* references alone.                                                       *)
LEMMA OrphanFrame ==
  ASSUME OrphanInv, refs' = refs, Stored \subseteq Stored',
         \A p \in Pods : boot[p]'.new \subseteq boot[p].new
  PROVE  OrphanInv'
  BY DEF OrphanInv, NoOrphans, NewIsStored, KeyShared

LEMMA OrphanInit == Init => OrphanInv
<1> SUFFICES ASSUME Init PROVE OrphanInv
  OBVIOUS
<1>1. NoOrphans
  BY DEF Init, NoOrphans, Rows
<1>2. NewIsStored
  BY DEF Init, NewIsStored, KeyShared, Down
<1>. QED
  BY <1>1, <1>2 DEF OrphanInv

LEMMA CreateNoteStored ==
  ASSUME TypeOK, NEW e \in Editors, NEW n \in Notes,
         NEW body \in Payloads, NEW links \in Payloads, CreateNote(e, n, body, links)
  PROVE  /\ Stored' = Stored \cup {n} /\ n \notin Stored
         /\ Mentions(n)' = body \cup links
         /\ \A k \in Notes \ {n} : Mentions(k)' = Mentions(k)
  BY DEF TypeOK, CreateNote, Stored, Mentions

LEMMA UpdateNoteStored ==
  ASSUME TypeOK, NEW e \in Editors, NEW body \in Payloads, NEW given \in Payloads,
         NEW keep \in BOOLEAN, UpdateNote(e, body, keep, given)
  PROVE  \E n \in Stored, T \in SUBSET Stored :
            /\ Stored' = Stored /\ Written(n)
            /\ refs' = Replaced(n, T, e)
            /\ Mentions(n)' = T
            /\ \A k \in Notes \ {n} : Mentions(k)' = Mentions(k)
<1>1. PICK n \in Stored, links \in SUBSET Notes :
        /\ body \cup links \in SUBSET Stored /\ Written(n)
        /\ refs' = Replaced(n, body \cup links, e)
        /\ notes' = [notes EXCEPT ![n].body = body, ![n].links = links,
                                  ![n].lastEditedBy = request[e].member]
  <2> DEFINE given2 == IF keep THEN request[e].links ELSE given
  <2>1. given2 \in SUBSET Notes
    BY PayloadsAssumption DEF TypeOK, Request
  <2>. QED
    BY <2>1 DEF UpdateNote, Valid
<1>2. n \in Notes
  BY <1>1 DEF Stored
<1>3. notes[n] \in Note
  BY <1>2 DEF TypeOK
<1>4. notes[n]' = [notes[n] EXCEPT !.body = body, !.links = links,
                                   !.lastEditedBy = request[e].member]
  BY <1>1, <1>2 DEF TypeOK
<1>5. notes[n]'.at = notes[n].at /\ notes[n]'.body = body /\ notes[n]'.links = links
  BY <1>3, <1>4 DEF Note
<1>6. \A k \in Notes \ {n} : notes[k]' = notes[k]
  BY <1>1, <1>2 DEF TypeOK
<1>7. Stored' = Stored
  BY <1>5, <1>6 DEF Stored
<1>8. Mentions(n)' = body \cup links /\ \A k \in Notes \ {n} : Mentions(k)' = Mentions(k)
  BY <1>5, <1>6 DEF Mentions
<1>9. \E T \in SUBSET Stored : /\ refs' = Replaced(n, T, e) /\ Mentions(n)' = T
  BY <1>1, <1>8
<1>. QED
  BY <1>1, <1>7, <1>8, <1>9

LEMMA DeleteNoteStored ==
  ASSUME TypeOK, NEW e \in Editors, DeleteNote(e)
  PROVE  \E n \in Notes :
            /\ Stored' = Stored \ {n}
            /\ \A p \in Pods : n \notin KeyShared(p)
            /\ refs' = {r \in refs : r.source # n /\ r.target # n}
            /\ \A k \in Notes \ {n} : notes[k]' = notes[k]
<1> DEFINE n == request[e].note
<1>1. n \in Notes
  BY DEF TypeOK, Request
<1>2. notes' = [notes EXCEPT ![n] = IF @.at = "stored" THEN Empty("deleted") ELSE @]
  BY DEF DeleteNote
<1>3. Stored' = Stored \ {n}
  BY <1>1, <1>2 DEF TypeOK, Stored, Empty
<1>. QED
  BY <1>1, <1>2, <1>3 DEF DeleteNote, TypeOK

LEMMA ReassignStored ==
  ASSUME TypeOK, NEW c \in Merges, Reassign(c)
  PROVE  /\ Stored' = Stored /\ \A k \in Notes : Mentions(k)' = Mentions(k)
         /\ \A k \in Notes : notes[k]'.at = notes[k].at
<1>1. \A k \in Notes : /\ Reassigned(k, c).at = notes[k].at
                         /\ Reassigned(k, c).body = notes[k].body
                         /\ Reassigned(k, c).links = notes[k].links
  BY DEF TypeOK, Note, Reassigned
<1>2. \A k \in Notes : notes[k]' \in {notes[k], Reassigned(k, c)}
  BY DEF Reassign
<1>. QED
  BY <1>1, <1>2 DEF Stored, Mentions

LEMMA CreateNoteOrphans ==
  ASSUME TypeOK, OrphanInv, NEW e \in Editors, NEW n \in Notes,
         NEW body \in Payloads, NEW links \in Payloads, CreateNote(e, n, body, links)
  PROVE  OrphanInv'
<1>1. Stored' = Stored \cup {n}
  BY CreateNoteStored
<1>2. refs' = refs \cup Rows(n, body \cup links, e) /\ body \cup links \subseteq Stored /\ boot' = boot
  BY DEF CreateNote, Valid
<1>. QED
  BY <1>1, <1>2 DEF OrphanInv, NoOrphans, NewIsStored, KeyShared, Rows

LEMMA UpdateNoteOrphans ==
  ASSUME TypeOK, OrphanInv, NEW e \in Editors, NEW body \in Payloads, NEW given \in Payloads,
         NEW keep \in BOOLEAN, UpdateNote(e, body, keep, given)
  PROVE  OrphanInv'
<1>1. PICK n \in Stored, T \in SUBSET Stored :
        Stored' = Stored /\ Written(n) /\ refs' = Replaced(n, T, e)
  BY UpdateNoteStored
<1>2. NoOrphans'
  BY <1>1 DEF OrphanInv, NoOrphans, Replaced, Rows
<1>3. \A p \in Pods : boot[p]'.new = boot[p].new
  BY <1>1, BehindKeepsRows DEF Written
<1>. QED
  BY <1>1, <1>2, <1>3 DEF OrphanInv, NewIsStored, KeyShared

LEMMA DeleteNoteOrphans ==
  ASSUME TypeOK, OrphanInv, NEW e \in Editors, DeleteNote(e)
  PROVE  OrphanInv'
<1>1. PICK n \in Notes : /\ Stored' = Stored \ {n}
                         /\ \A p \in Pods : n \notin KeyShared(p)
                         /\ refs' = {r \in refs : r.source # n /\ r.target # n}
  BY DeleteNoteStored
<1>2. NoOrphans'
  BY <1>1 DEF OrphanInv, NoOrphans
<1>3. boot' = boot
  BY DEF DeleteNote
<1>. QED
  BY <1>1, <1>2, <1>3 DEF OrphanInv, NewIsStored, KeyShared

LEMMA SyncNoteOrphans ==
  ASSUME TypeOK, OrphanInv, NEW p \in Pods, NEW n \in Notes, SyncNote(p, n)
  PROVE  OrphanInv'
<1>1. /\ \A q \in Pods \ {p} : boot[q]'.new = boot[q].new
      /\ boot[p]'.new = boot[p].new \cup Rows(n, SyncTargets(p, n), p)
  BY DEF SyncNote, TypeOK, Boot
<1>2. Stored' = Stored /\ refs' = refs
  BY DEF SyncNote, Stored
<1>3. Rows(n, SyncTargets(p, n), p) # {} => n \in Stored
  BY DEF Rows, SyncNote, SyncThrows
<1>4. SyncTargets(p, n) \subseteq Stored
  BY DEF SyncTargets
<1>5. \A r \in Rows(n, SyncTargets(p, n), p) : r.source \in Stored /\ r.target \in Stored
  BY <1>3, <1>4 DEF Rows
<1>. QED
  BY <1>1, <1>2, <1>5 DEF OrphanInv, NoOrphans, NewIsStored, KeyShared

LEMMA SyncCommitsOrphans ==
  ASSUME TypeOK, OrphanInv, NEW p \in Pods, SyncCommits(p)
  PROVE  OrphanInv'
<1>1. refs' = (refs \ boot[p].old) \cup boot[p].new /\ Stored' = Stored
  BY DEF SyncCommits, Stored
<1>2. NoOrphans'
  BY <1>1 DEF OrphanInv, NoOrphans, NewIsStored, KeyShared
<1>3. \A q \in Pods : boot[q]'.new \subseteq boot[q].new
  BY BehindKeepsRows DEF SyncCommits, Down
<1>. QED
  BY <1>1, <1>2, <1>3 DEF OrphanInv, NewIsStored, KeyShared

(* A boot that starts, or is rolled back, holds no key.                    *)
LEMMA BootOrphans ==
  ASSUME TypeOK, OrphanInv, NEW p \in Pods, UNCHANGED <<notes, refs>>,
         NEW b \in Boot, b.new = {}, boot' = [boot EXCEPT ![p] = b]
  PROVE  OrphanInv'
<1>1. \A q \in Pods : boot[q]'.new \subseteq boot[q].new
  BY DEF TypeOK
<1>. QED
  BY <1>1, OrphanFrame DEF Stored

LEMMA StepOrphans == TypeOK /\ OrphanInv /\ [Next]_vars => OrphanInv'
<1> SUFFICES ASSUME TypeOK, OrphanInv, [Next]_vars PROVE OrphanInv'
  OBVIOUS
<1>1. CASE UNCHANGED <<notes, refs, boot>>
  BY <1>1 DEF OrphanInv, NoOrphans, NewIsStored, KeyShared, Stored
<1>2. ASSUME NEW e \in Editors, EditStep(e) PROVE OrphanInv'
  <2>1. ASSUME NEW op, NEW n, NEW m, Open(e, op, n, m) PROVE OrphanInv'
    BY <1>1, <2>1 DEF Open
  <2>. QED
    BY <1>1, <1>2, <2>1, CreateNoteOrphans, UpdateNoteOrphans, DeleteNoteOrphans
      DEF EditStep, UpdateNothing, RequestFails
<1>3. ASSUME NEW c \in Merges, MergeStep(c) PROVE OrphanInv'
  <2>1. CASE Reassign(c)
    BY <2>1, ReassignStored, OrphanFrame DEF Reassign
  <2>. QED
    BY <1>1, <1>3, <2>1 DEF MergeStep, Consolidate, ConsolidateFails
<1>4. ASSUME NEW p \in Pods, SyncStep(p) \/ BootInterrupted(p) PROVE OrphanInv'
  <2>1. CASE ReadAllNotes(p)
    <3>1. boot[p]' \in Boot
      BY <2>1, ReadAllNotesType DEF TypeOK
    <3>2. boot[p]'.new = {} /\ boot' = [boot EXCEPT ![p] = boot[p]']
      BY <2>1 DEF ReadAllNotes, Down, TypeOK
    <3>. QED
      BY <2>1, <3>1, <3>2 DEF OrphanInv, NoOrphans, NewIsStored, KeyShared, Stored, ReadAllNotes, TypeOK
  <2>2. ASSUME NEW pc \in {"down", "up"}, UNCHANGED <<notes, refs>>,
               boot' = [boot EXCEPT ![p] = Down(pc)]
        PROVE  OrphanInv'
    <3>1. Down(pc) \in Boot /\ Down(pc).new = {}
      BY DownType DEF Down
    <3>. QED
      BY <2>2, <3>1, BootOrphans
  <2>. QED
    BY <1>4, <2>1, <2>2, SyncNoteOrphans, SyncCommitsOrphans
      DEF SyncStep, SyncNoteThrows, BootInterrupted
<1>. QED
  BY <1>1, <1>2, <1>3, <1>4 DEF Next, vars

(* No reference is orphaned, whichever delete overlapped the edit or the   *)
(* boot that inserted it.                                                  *)
THEOREM NoReferenceIsOrphaned == Spec => []NoOrphans
<1>1. TypeOK /\ OrphanInv /\ [Next]_vars => (TypeOK /\ OrphanInv)'
  BY StepType, StepOrphans
<1>2. Init => TypeOK /\ OrphanInv
  BY InitType, OrphanInit
<1>3. OrphanInv => NoOrphans
  BY DEF OrphanInv
<1>. QED
  BY <1>1, <1>2, <1>3, PTL DEF Spec

-----------------------------------------------------------------------------
(* A consolidation stands.                                                 *)

LEMMA MergeFrame ==
  ASSUME MergeInv, UNCHANGED <<merge, merged>>,
         \A n \in Notes : notes[n].at # "none" => notes[n]'.at # "none",
         \A n \in Notes : n \in Stored' /\ notes[n].at # "none" =>
                n \in Stored /\ notes[n]'.createdBy = notes[n].createdBy
  PROVE  MergeInv'
  BY DEF MergeInv, AuthorsStayMerged, Stored

LEMMA ReassignMerges ==
  ASSUME TypeOK, MergeInv, NEW c \in Merges, Reassign(c)
  PROVE  MergeInv'
<1>1. /\ \A n \in Notes : notes[n]'.at = notes[n].at
      /\ Stored' = Stored
  BY ReassignStored
<1>2. merged' = (merged \ (merge[c].seen \X {merge[c].target}))
                     \cup ((merge[c].seen \cap Stored) \X {merge[c].source})
  BY DEF Reassign
<1>3. merge[c].source # merge[c].target
  BY DEF MergeInv, Reassign
<1>4. \A n \in Notes, m \in Members : <<n, m>> \in merged' => notes[n]'.at # "none"
  BY <1>1, <1>2 DEF MergeInv, Stored
<1>5. ASSUME NEW n \in Stored, NEW m \in Members, <<n, m>> \in merged'
      PROVE  notes[n]'.createdBy # m
  <2>1. n \in Notes
    BY DEF Stored
  <2>2. CASE n \in merge[c].seen
    <3>1. notes[n]' = Reassigned(n, c)
      BY <2>1, <2>2, <1>5 DEF Reassign
    <3>2. notes[n]'.createdBy = Moved(notes[n].createdBy, c)
      BY <3>1, <2>1 DEF Reassigned, TypeOK, Note
    <3>3. m = merge[c].source \/ (<<n, m>> \in merged /\ m # merge[c].target)
      BY <1>2, <1>5, <2>2
    <3>. QED
      BY <3>2, <3>3, <1>3, <2>1 DEF Moved, MergeInv, AuthorsStayMerged
  <2>3. CASE n \notin merge[c].seen
    <3>1. notes[n]' = notes[n] /\ <<n, m>> \in merged
      BY <1>2, <1>5, <2>1, <2>3 DEF Reassign
    <3>. QED
      BY <3>1 DEF MergeInv, AuthorsStayMerged
  <2>. QED
    BY <2>2, <2>3
<1>6. \A d \in Merges : merge[d]'.pc = "reassign" => merge[d]'.source # merge[d]'.target
  BY DEF Reassign, MergeEnded, NoMerge, TypeOK, MergeInv
<1>. QED
  BY <1>1, <1>4, <1>5, <1>6 DEF MergeInv, AuthorsStayMerged

LEMMA StepMerges == TypeOK /\ MergeInv /\ [Next]_vars => MergeInv'
<1> SUFFICES ASSUME TypeOK, MergeInv, [Next]_vars PROVE MergeInv'
  OBVIOUS
<1>1. CASE UNCHANGED <<notes, merge, merged>>
  BY <1>1, MergeFrame DEF Stored
<1>2. ASSUME NEW e \in Editors, EditStep(e) PROVE MergeInv'
  <2>1. ASSUME NEW op, NEW n, NEW m, Open(e, op, n, m) PROVE MergeInv'
    BY <1>1, <2>1 DEF Open
  <2>2. ASSUME NEW n \in Notes, NEW body, NEW links, CreateNote(e, n, body, links) PROVE MergeInv'
    BY <2>2, MergeFrame DEF CreateNote, TypeOK, Stored
  <2>3. ASSUME NEW body, NEW given, NEW keep, UpdateNote(e, body, keep, given) PROVE MergeInv'
    <3>1. \A k \in Notes : notes[k]'.at = notes[k].at /\ notes[k]'.createdBy = notes[k].createdBy
      BY <2>3 DEF UpdateNote, TypeOK, Note
    <3>. QED
      BY <2>3, <3>1, MergeFrame DEF UpdateNote, Stored
  <2>4. CASE DeleteNote(e)
    BY <2>4, MergeFrame DEF DeleteNote, TypeOK, Stored, Empty
  <2>. QED
    BY <1>1, <1>2, <2>1, <2>2, <2>3, <2>4 DEF EditStep, UpdateNothing, RequestFails
<1>3. ASSUME NEW c \in Merges, MergeStep(c) PROVE MergeInv'
  <2>1. ASSUME NEW source, NEW target, Consolidate(c, source, target) PROVE MergeInv'
    BY <2>1 DEF Consolidate, MergeInv, AuthorsStayMerged, Stored, TypeOK
  <2>2. CASE ConsolidateFails(c)
    BY <2>2 DEF ConsolidateFails, MergeEnded, NoMerge, MergeInv, AuthorsStayMerged, Stored, TypeOK
  <2>. QED
    BY <1>3, <2>1, <2>2, ReassignMerges DEF MergeStep
<1>4. ASSUME NEW p \in Pods, SyncStep(p) \/ BootInterrupted(p) PROVE MergeInv'
  BY <1>1, <1>4 DEF SyncStep, ReadAllNotes, SyncNote, SyncNoteThrows, SyncCommits, BootInterrupted
<1>. QED
  BY <1>1, <1>2, <1>3, <1>4 DEF Next, vars

(* No edit, and no delete, gives back an authorship a consolidation moved. *)
THEOREM MergedAuthorsStay == Spec => []AuthorsStayMerged
<1>1. TypeOK /\ MergeInv /\ [Next]_vars => (TypeOK /\ MergeInv)'
  BY StepType, StepMerges
<1>2. Init => TypeOK /\ MergeInv
  <2> SUFFICES ASSUME Init PROVE TypeOK /\ MergeInv
    OBVIOUS
  <2>1. merged = {}
    BY DEF Init
  <2>2. \A c \in Merges : merge[c].pc = "idle"
    BY DEF Init, NoMerge
  <2>3. AuthorsStayMerged
    BY <2>1 DEF AuthorsStayMerged
  <2>. QED
    BY <2>1, <2>2, <2>3, InitType DEF MergeInv
<1>3. MergeInv => AuthorsStayMerged
  BY DEF MergeInv
<1>. QED
  BY <1>1, <1>2, <1>3, PTL DEF Spec

-----------------------------------------------------------------------------
(* References follow the notes.                                            *)

(* A step that leaves the notes' mentions and the references alone.        *)
LEMMA RefFrame ==
  ASSUME RefInv, refs' = refs, raced' = raced, Stored' = Stored,
         \A n \in Notes : Mentions(n)' = Mentions(n) /\ notes[n]'.at = notes[n].at,
         \A p \in Pods : SyncInv(p)', TypeOK
  PROVE  RefInv'
<1>1. Mentioned'
  BY DEF RefInv, Mentioned, Stored, Mentions, TypeOK, Note
<1>2. ReferencesFollowNotes'
  BY DEF RefInv, ReferencesFollowNotes, LinkedNoteIds, Stored
<1>. QED
  BY <1>1, <1>2 DEF RefInv

LEMMA SyncFrame ==
  ASSUME TypeOK, NEW p \in Pods, SyncInv(p), boot[p]' = boot[p],
         refs' = refs, raced' = raced, Stored' = Stored,
         \A n \in Notes : Mentions(n)' = Mentions(n) /\ notes[n]'.at = notes[n].at
  PROVE  SyncInv(p)'
<1>1. \A n \in boot[p].read : n \in Notes
  BY DEF TypeOK, Boot
<1>2. \A n \in Stored : n \in Notes
  BY DEF Stored
<1>3. Tidy(p) => Tidy(p)'
  BY <1>1 DEF Tidy, Handled
<1>4. InStep(p) => InStep(p)'
  BY <1>2 DEF InStep, Handled
<1>. QED
  BY <1>3, <1>4 DEF SyncInv, Syncing

(* Rows that are all from n, among rows that are not: their targets.       *)
LEMMA RowsTargets ==
  ASSUME NEW S, NEW n, NEW T, NEW by, \A s \in S : s.source # n
  PROVE  Targets(S \cup Rows(n, T, by), n) = T
<1> DEFINE R == S \cup Rows(n, T, by)
<1>1. \A t \in T : /\ [source |-> n, target |-> t, by |-> by] \in Rows(n, T, by)
                   /\ [source |-> n, target |-> t, by |-> by].source = n
                   /\ [source |-> n, target |-> t, by |-> by].target = t
  BY DEF Rows
<1>2. \A r \in Rows(n, T, by) : r.source = n /\ r.target \in T
  BY DEF Rows
<1>3. \A t \in Targets(R, n) : t \in T
  BY <1>2 DEF Targets
<1>4. \A t \in T : t \in Targets(R, n)
  BY <1>1 DEF Targets
<1>. QED
  BY <1>3, <1>4

LEMMA CreateNoteRefs ==
  ASSUME TypeOK, OrphanInv, RefInv, NEW e \in Editors, NEW n \in Notes,
         NEW body \in Payloads, NEW links \in Payloads, CreateNote(e, n, body, links)
  PROVE  RefInv'
<1> DEFINE T == body \cup links
<1>1. /\ Stored' = Stored \cup {n} /\ n \notin Stored /\ Mentions(n)' = T
      /\ \A k \in Notes \ {n} : Mentions(k)' = Mentions(k)
  BY CreateNoteStored
<1>2. /\ refs' = refs \cup Rows(n, T, e) /\ T \subseteq Stored
      /\ boot' = boot /\ raced' = raced \ {n} /\ notes[n].at = "none"
  BY DEF CreateNote, Valid
<1>3. \A k \in Notes \ {n} : notes[k]' = notes[k]
  BY DEF CreateNote, TypeOK
<1>4. notes[n]'.at = "stored"
  BY DEF CreateNote, TypeOK
<1>5. Stored \subseteq Notes
  BY DEF Stored
<1>6. \A k \in Stored : n \notin Mentions(k)
  BY <1>2 DEF RefInv, Mentioned
<1> HIDE DEF T
<1>7. \A k \in Stored : Mentions(k) \subseteq Notes
  BY <1>5 DEF TypeOK, Note, Mentions
<1>8. Mentioned'
  <2>1. \A t \in Stored : notes[t]'.at # "none"
    BY <1>1, <1>3, <1>5 DEF Stored
  <2>2. \A k \in Stored : \A t \in Mentions(k) : notes[t]'.at # "none"
    BY <1>3, <1>4, <1>7 DEF RefInv, Mentioned
  <2>. QED
    BY <1>1, <1>2, <1>5, <2>1, <2>2 DEF Mentioned
<1>9. ReferencesFollowNotes'
  <2>1. \A r \in refs : r.source # n
    BY <1>1 DEF OrphanInv, NoOrphans
  <2>2. \A k \in Stored \ raced : LinkedNoteIds(k)' = LinkedNoteIds(k)
    BY <1>1, <1>2 DEF LinkedNoteIds, Rows
  <2>3. LinkedNoteIds(n)' = T
    <3>1. PICK S : S = refs
      OBVIOUS
    <3>2. Targets(S \cup Rows(n, T, e), n) = T
      BY <2>1, <3>1, RowsTargets
    <3>. QED
      BY <1>2, <3>1, <3>2 DEF LinkedNoteIds, Targets
  <2>4. \A k \in Stored : Mentions(k)' \cap Stored' = Mentions(k) \cap Stored
    BY <1>1, <1>5, <1>6
  <2>. QED
    BY <1>1, <1>2, <2>2, <2>3, <2>4 DEF RefInv, ReferencesFollowNotes
<1>10. ASSUME NEW p \in Pods, Syncing(p) PROVE Tidy(p)' /\ InStep(p)'
  <2>1. Tidy(p) /\ InStep(p) /\ boot[p]' = boot[p]
    BY <1>2, <1>10 DEF RefInv, SyncInv
  <2>2. n \notin boot[p].read
    BY <1>2, <2>1 DEF Tidy
  <2>3. boot[p].read \subseteq Notes
    BY DEF TypeOK, Boot
  <2>4. Tidy(p)'
    BY <1>3, <2>1, <2>2, <2>3 DEF Tidy, Handled
  <2>5. \A k \in Stored : Mentions(k)' = Mentions(k) /\ Mentions(k)' \cap Stored' = Mentions(k) \cap Stored
    BY <1>1, <1>5, <1>6
  <2>6. \A k \in Stored : \A r \in refs' : r.source = k => r \in refs
    BY <1>1, <1>2 DEF Rows
  <2>7. n \notin raced'
    BY <1>2
  <2>. QED
    BY <1>1, <1>2, <2>1, <2>2, <2>4, <2>5, <2>6, <2>7 DEF InStep, Handled
<1>. QED
  BY <1>2, <1>8, <1>9, <1>10 DEF RefInv, SyncInv, Syncing

LEMMA UpdateNoteRefs ==
  ASSUME TypeOK, RefInv, NEW e \in Editors, NEW body \in Payloads, NEW given \in Payloads,
         NEW keep \in BOOLEAN, UpdateNote(e, body, keep, given)
  PROVE  RefInv'
<1>1. PICK n \in Stored, T \in SUBSET Stored :
        /\ Stored' = Stored /\ Written(n) /\ refs' = Replaced(n, T, e) /\ Mentions(n)' = T
        /\ \A k \in Notes \ {n} : Mentions(k)' = Mentions(k)
  BY UpdateNoteStored
<1>2. Stored \subseteq Notes
  BY DEF Stored
<1>3. \A k \in Notes : notes[k]'.at = notes[k].at
  BY DEF UpdateNote, TypeOK, Note
<1>4. Mentioned'
  <2>1. \A t \in T : notes[t]'.at # "none"
    BY <1>2, <1>3 DEF Stored
  <2>2. \A k \in Stored \ {n} : \A t \in Mentions(k)' : notes[t]'.at # "none"
    <3>1. \A k \in Stored : Mentions(k) \subseteq Notes
      BY <1>2 DEF TypeOK, Note, Mentions
    <3>. QED
      BY <1>1, <1>2, <1>3, <3>1 DEF RefInv, Mentioned
  <2>. QED
    BY <1>1, <2>1, <2>2 DEF Mentioned
<1>5. ReferencesFollowNotes'
  <2>1. LinkedNoteIds(n)' = T
    <3>1. PICK S : S = {r \in refs : r.source # n}
      OBVIOUS
    <3>2. Targets(S \cup Rows(n, T, e), n) = T
      BY <3>1, RowsTargets
    <3>. QED
      BY <1>1, <3>1, <3>2 DEF LinkedNoteIds, Replaced, Targets
  <2>2. \A k \in Stored \ {n} : LinkedNoteIds(k)' = LinkedNoteIds(k)
    BY <1>1 DEF LinkedNoteIds, Replaced, Rows
  <2>3. \A k \in Stored \ {n} : k \notin raced' => k \notin raced
    BY <1>1 DEF Written
  <2>. QED
    BY <1>1, <1>2, <2>1, <2>2, <2>3 DEF RefInv, ReferencesFollowNotes
<1>6. ASSUME NEW p \in Pods, Syncing(p) PROVE Tidy(p)' /\ InStep(p)'
  <2>1. Tidy(p) /\ InStep(p)
    BY <1>6 DEF RefInv, SyncInv
  <2>2. boot[p]' = Behind(p, {n})
    BY <1>1 DEF Written
  <2>3. /\ boot[p]'.new = boot[p].new /\ boot[p]'.old = boot[p].old
        /\ boot[p]'.todo = boot[p].todo /\ boot[p]'.read = boot[p].read
        /\ boot[p]'.mentions = boot[p].mentions /\ boot[p]'.late = boot[p].late \cup {n}
    BY <1>6, <2>2, BehindKeepsRows
  <2>4. boot[p].read \subseteq Notes
    BY DEF TypeOK, Boot
  <2>5. Tidy(p)'
    BY <1>3, <2>1, <2>3, <2>4 DEF Tidy, Handled
  <2>6. \A k \in Stored \ {n} : \A r \in refs' : r.source = k => r \in refs
    BY <1>1 DEF Replaced, Rows
  <2>7. \A k \in Stored \ {n} : k \notin raced => k \notin raced'
    BY <1>1 DEF Written
  <2>8. InStep(p)'
    BY <1>1, <1>2, <2>1, <2>3, <2>6, <2>7 DEF InStep, Handled
  <2>. QED
    BY <2>5, <2>8
<1>7. \A p \in Pods : Syncing(p)' => Syncing(p)
  BY <1>1, BehindKeepsRows DEF Written, Syncing
<1>. QED
  BY <1>4, <1>5, <1>6, <1>7 DEF RefInv, SyncInv

LEMMA DeleteNoteRefs ==
  ASSUME TypeOK, OrphanInv, RefInv, NEW e \in Editors, DeleteNote(e)
  PROVE  RefInv'
<1>1. PICK n \in Notes : /\ Stored' = Stored \ {n}
                         /\ \A p \in Pods : n \notin KeyShared(p)
                         /\ refs' = {r \in refs : r.source # n /\ r.target # n}
                         /\ \A k \in Notes \ {n} : notes[k]' = notes[k]
  BY DeleteNoteStored
<1>2. boot' = boot /\ raced' = raced
  BY DEF DeleteNote
<1>3. Stored \subseteq Notes
  BY DEF Stored
<1>4. \A k \in Notes : notes[k].at # "none" => notes[k]'.at # "none"
  BY DEF DeleteNote, TypeOK, Empty
<1>5. \A k \in Stored \ {n} : Mentions(k)' = Mentions(k) /\ Mentions(k) \subseteq Notes
  BY <1>1, <1>3 DEF Mentions, TypeOK, Note
<1>6. Mentioned'
  BY <1>1, <1>4, <1>5 DEF RefInv, Mentioned
<1>7. ReferencesFollowNotes'
  <2>1. \A k \in Stored \ {n} : LinkedNoteIds(k)' = LinkedNoteIds(k) \ {n}
    BY <1>1 DEF LinkedNoteIds
  <2>. QED
    BY <1>1, <1>2, <1>5, <2>1 DEF RefInv, ReferencesFollowNotes
<1>8. ASSUME NEW p \in Pods, Syncing(p) PROVE Tidy(p)' /\ InStep(p)'
  <2>1. Tidy(p) /\ InStep(p) /\ boot[p]' = boot[p]
    BY <1>2, <1>8 DEF RefInv, SyncInv
  <2>2. boot[p].read \subseteq Notes
    BY DEF TypeOK, Boot
  <2>3. Tidy(p)'
    BY <1>4, <2>1, <2>2 DEF Tidy, Handled
  <2>4. \A k \in Stored : n \notin Targets(boot[p].new, k)
    BY <1>1 DEF KeyShared, Targets
  <2>5. ASSUME NEW k \in Stored \ {n}, k \notin boot[p].late, k \in Handled(p)
        PROVE  Targets(boot[p].new, k) = Mentions(k)' \cap Stored'
    <3>1. Targets(boot[p].new, k) = Mentions(k) \cap Stored
      BY <2>1, <2>5 DEF InStep
    <3>. QED
      BY <1>1, <1>5, <2>4, <3>1
  <2>6. refs' \subseteq refs
    BY <1>1
  <2>7. InStep(p)'
    <3> SUFFICES ASSUME NEW k \in Stored', k \notin boot[p].late
                 PROVE  /\ k \in boot[p].read => boot[p].mentions[k] = Mentions(k)'
                        /\ k \notin boot[p].read => k \notin raced'
                        /\ k \in Handled(p) =>
                             /\ Targets(boot[p].new, k) = Mentions(k)' \cap Stored'
                             /\ \A r \in refs' : r.source = k => r \in boot[p].old \/ r.target \in Mentions(k)'
      BY <2>1 DEF InStep, Handled
    <3>1. k \in Stored \ {n}
      BY <1>1
    <3>. QED
      BY <1>2, <1>5, <2>1, <2>5, <2>6, <3>1 DEF InStep
  <2>. QED
    BY <2>3, <2>7
<1>. QED
  BY <1>2, <1>6, <1>7, <1>8 DEF RefInv, SyncInv, Syncing

(* A sync that begins: it has read every note as it is.                    *)
LEMMA ReadAllNotesRefs ==
  ASSUME TypeOK, RefInv, NEW p \in Pods, ReadAllNotes(p)
  PROVE  RefInv'
<1>1. /\ notes' = notes /\ refs' = refs /\ raced' = raced
      /\ \A q \in Pods \ {p} : boot'[q] = boot[q]
  BY DEF ReadAllNotes, TypeOK
<1>2. boot'[p] = [Down("sync") EXCEPT
                    !.read = Stored, !.todo = Stored,
                    !.mentions = [n \in Notes |-> IF n \in Stored THEN Mentions(n) ELSE {}]]
  BY DEF ReadAllNotes, TypeOK
<1>3. /\ boot'[p].read = Stored /\ boot'[p].todo = Stored
      /\ boot'[p].old = {} /\ boot'[p].new = {} /\ boot'[p].late = {}
      /\ boot'[p].mentions = [n \in Notes |-> IF n \in Stored THEN Mentions(n) ELSE {}]
  BY <1>2 DEF Down
<1>4. Stored' = Stored /\ \A n \in Notes : Mentions(n)' = Mentions(n) /\ notes[n]'.at = notes[n].at
  BY <1>1 DEF Stored, Mentions
<1>5. Tidy(p)'
  BY <1>1, <1>3 DEF Tidy, Handled, Stored
<1>6. InStep(p)'
  BY <1>3, <1>4 DEF InStep, Handled, Stored
<1>7. \A q \in Pods \ {p} : SyncInv(q)'
  BY <1>1, <1>4, SyncFrame DEF RefInv
<1>8. \A q \in Pods : SyncInv(q)'
  BY <1>5, <1>6, <1>7 DEF SyncInv
<1>. QED
  BY <1>1, <1>4, <1>8, RefFrame

(* One that handles a note: it will insert what the note mentions of what  *)
(* is there, in place of what it saw.                                      *)
LEMMA SyncNoteRefs ==
  ASSUME TypeOK, RefInv, NEW p \in Pods, NEW n \in Notes, SyncNote(p, n)
  PROVE  RefInv'
<1> DEFINE T == SyncTargets(p, n)
<1>1. /\ notes' = notes /\ refs' = refs /\ raced' = raced /\ Syncing(p)
      /\ n \in boot[p].todo /\ \A q \in Pods \ {p} : boot'[q] = boot[q]
  BY DEF SyncNote, TypeOK
<1>2. boot'[p] = [boot[p] EXCEPT !.todo = @ \ {n},
                                 !.old = @ \cup {r \in refs : r.source = n},
                                 !.new = @ \cup Rows(n, T, p)]
  BY DEF SyncNote, TypeOK
<1> HIDE DEF T
<1>3. boot[p] \in Boot
  BY DEF TypeOK
<1>4. /\ boot'[p].read = boot[p].read /\ boot'[p].todo = boot[p].todo \ {n}
      /\ boot'[p].old = boot[p].old \cup {r \in refs : r.source = n}
      /\ boot'[p].new = boot[p].new \cup Rows(n, T, p)
      /\ boot'[p].late = boot[p].late /\ boot'[p].mentions = boot[p].mentions
  BY <1>2, <1>3 DEF Boot
<1>5. Stored' = Stored /\ \A k \in Notes : Mentions(k)' = Mentions(k) /\ notes[k]'.at = notes[k].at
  BY <1>1 DEF Stored, Mentions
<1>6. Tidy(p) /\ InStep(p)
  BY <1>1 DEF RefInv, SyncInv
<1>7. n \in boot[p].read /\ n \notin Handled(p) /\ Handled(p)' = Handled(p) \cup {n}
  BY <1>1, <1>4, <1>6 DEF Tidy, Handled
<1>8. \A r \in Rows(n, T, p) : r.source = n
  BY DEF Rows
<1>9. Tidy(p)'
  BY <1>1, <1>4, <1>6, <1>7, <1>8 DEF Tidy
<1>10. \A r \in boot[p].new : r.source # n
  BY <1>6, <1>7 DEF Tidy
<1>11. Targets(boot[p].new, n)' = T
  <2>1. PICK S : S = boot[p].new
    OBVIOUS
  <2>2. Targets(S \cup Rows(n, T, p), n) = T
    <3>1. PICK X : X = T
      OBVIOUS
    <3>. QED
      BY <1>10, <2>1, <3>1, RowsTargets
  <2>. QED
    BY <1>4, <2>1, <2>2 DEF Targets
<1>12. \A k \in Stored \ {n} : Targets(boot[p].new, k)' = Targets(boot[p].new, k)
  BY <1>4, <1>8 DEF Targets
<1>13. InStep(p)'
  <2>1. ASSUME n \in Stored, n \notin boot[p].late PROVE T = Mentions(n) \cap Stored
    BY <1>6, <1>7, <2>1 DEF InStep, T, SyncTargets
  <2>2. SUFFICES ASSUME NEW k \in Stored, k \notin boot[p].late
                 PROVE  /\ k \in boot[p].read => boot[p].mentions[k] = Mentions(k)
                        /\ k \notin boot[p].read => k \notin raced
                        /\ k \in Handled(p)' =>
                             /\ Targets(boot[p].new, k)' = Mentions(k) \cap Stored
                             /\ \A r \in refs : r.source = k =>
                                   r \in boot'[p].old \/ r.target \in Mentions(k)
    <3>1. Stored \subseteq Notes
      BY DEF Stored
    <3>. QED
      BY <1>1, <1>4, <1>5, <3>1 DEF InStep
  <2>3. CASE k = n
    BY <1>4, <1>6, <1>7, <1>11, <2>1, <2>2, <2>3 DEF InStep
  <2>4. CASE k # n
    BY <1>4, <1>6, <1>7, <1>12, <2>2, <2>4 DEF InStep
  <2>. QED
    BY <2>3, <2>4
<1>14. \A q \in Pods \ {p} : SyncInv(q)'
  BY <1>1, <1>5, SyncFrame DEF RefInv
<1>15. \A q \in Pods : SyncInv(q)'
  BY <1>9, <1>13, <1>14 DEF SyncInv
<1>. QED
  BY <1>1, <1>5, <1>15, RefFrame

(* A boot that is over, or down.                                           *)
LEMMA BootOverRefs ==
  ASSUME TypeOK, RefInv, NEW p \in Pods, NEW pc \in {"down", "up"},
         boot' = [boot EXCEPT ![p] = Down(pc)],
         notes' = notes, refs' = refs, raced' = raced
  PROVE  RefInv'
<1>1. ~Syncing(p)' /\ \A q \in Pods \ {p} : boot'[q] = boot[q]
  BY DEF TypeOK, Syncing, Down
<1>2. Stored' = Stored /\ \A k \in Notes : Mentions(k)' = Mentions(k) /\ notes[k]'.at = notes[k].at
  BY DEF Stored, Mentions
<1>3. \A q \in Pods \ {p} : SyncInv(q)'
  BY <1>1, <1>2, SyncFrame DEF RefInv
<1>4. \A q \in Pods : SyncInv(q)'
  BY <1>1, <1>3 DEF SyncInv
<1>. QED
  BY <1>2, <1>4, RefFrame

(* The COMMIT: the references of what nobody has written since are those   *)
(* of the notes as they are, and the rest is held against it.              *)
LEMMA SyncCommitsRefs ==
  ASSUME TypeOK, OrphanInv, RefInv, NEW p \in Pods, SyncCommits(p)
  PROVE  RefInv'
<1>1. /\ notes' = notes /\ Syncing(p) /\ boot[p].todo = {}
      /\ refs' = (refs \ boot[p].old) \cup boot[p].new /\ raced' = boot[p].late
      /\ boot'[p] = Down("up")
      /\ \A q \in Pods \ {p} : boot'[q] = Behind(q, boot[p].late)
  BY DEF SyncCommits
<1>2. Stored' = Stored /\ \A k \in Notes : Mentions(k)' = Mentions(k) /\ notes[k]'.at = notes[k].at
  BY <1>1 DEF Stored, Mentions
<1>3. Tidy(p) /\ InStep(p) /\ Handled(p) = boot[p].read
  BY <1>1 DEF RefInv, SyncInv, Handled
<1>4. Stored \subseteq Notes
  BY DEF Stored
<1>5. Mentioned'
  BY <1>2, <1>4 DEF RefInv, Mentioned, TypeOK, Note, Mentions
<1>6. \A r \in refs : r.target \in Stored
  BY DEF OrphanInv, NoOrphans
<1>7. ReferencesFollowNotes'
  <2> SUFFICES ASSUME NEW k \in Stored, k \notin boot[p].late
               PROVE  LinkedNoteIds(k)' = Mentions(k) \cap Stored
    BY <1>1, <1>2, <1>4 DEF ReferencesFollowNotes
  <2>1. CASE k \in boot[p].read
    <3>1. /\ Targets(boot[p].new, k) = Mentions(k) \cap Stored
          /\ \A r \in refs \ boot[p].old : r.source = k => r.target \in Mentions(k) \cap Stored
      BY <1>3, <1>6, <2>1 DEF InStep
    <3>. QED
      BY <1>1, <3>1 DEF LinkedNoteIds, Targets
  <2>2. CASE k \notin boot[p].read
    <3>1. k \notin raced
      BY <1>3, <2>2 DEF InStep
    <3>2. \A r \in boot[p].old \cup boot[p].new : r.source # k
      BY <1>3, <2>2 DEF Tidy
    <3>3. LinkedNoteIds(k)' = LinkedNoteIds(k)
      BY <1>1, <3>2 DEF LinkedNoteIds
    <3>. QED
      BY <3>1, <3>3 DEF RefInv, ReferencesFollowNotes
  <2>. QED
    BY <2>1, <2>2
<1>8. ASSUME NEW q \in Pods \ {p}, Syncing(q) PROVE Tidy(q)' /\ InStep(q)'
  <2>1. Tidy(q) /\ InStep(q)
    BY <1>8 DEF RefInv, SyncInv
  <2>2. PICK L : L = boot[p].late
    OBVIOUS
  <2>3. boot'[q] = Behind(q, L)
    BY <1>1, <2>2
  <2>4. /\ boot'[q].new = boot[q].new /\ boot'[q].old = boot[q].old
        /\ boot'[q].todo = boot[q].todo /\ boot'[q].read = boot[q].read
        /\ boot'[q].mentions = boot[q].mentions
        /\ boot'[q].late = boot[q].late \cup boot[p].late
    BY <1>8, <2>2, <2>3, BehindKeepsRows
  <2>5. Tidy(q)'
    BY <1>1, <2>1, <2>4 DEF Tidy, Handled
  <2>6. ASSUME NEW k \in Stored, k \notin boot[p].late, NEW r \in refs', r.source = k
        PROVE  r \in refs \/ r.target \in Mentions(k)
    <3>1. CASE r \in boot[p].new
      <4>1. k \in Handled(p)
        BY <1>3, <2>6, <3>1 DEF Tidy
      <4>2. r.target \in Targets(boot[p].new, k)
        BY <2>6, <3>1 DEF Targets
      <4>. QED
        BY <1>3, <2>6, <4>1, <4>2 DEF InStep
    <3>. QED
      BY <1>1, <3>1
  <2>7. InStep(q)'
    <3> SUFFICES ASSUME NEW k \in Stored, k \notin boot[q].late, k \notin boot[p].late
                 PROVE  /\ k \in boot[q].read => boot[q].mentions[k] = Mentions(k)
                        /\ k \notin boot[q].read => k \notin raced'
                        /\ k \in Handled(q) =>
                             /\ Targets(boot[q].new, k) = Mentions(k) \cap Stored
                             /\ \A r \in refs' : r.source = k =>
                                   r \in boot[q].old \/ r.target \in Mentions(k)
      BY <1>2, <1>4, <2>4 DEF InStep, Handled
    <3>. QED
      BY <1>1, <2>1, <2>6 DEF InStep
  <2>. QED
    BY <2>5, <2>7
<1>9. \A q \in Pods \ {p} : Syncing(q)' => Syncing(q)
  <2>1. PICK L : L = boot[p].late
    OBVIOUS
  <2>. QED
    BY <1>1, <2>1, BehindKeepsRows DEF Syncing
<1>10. ~Syncing(p)'
  BY <1>1 DEF Syncing, Down
<1>. QED
  BY <1>5, <1>7, <1>8, <1>9, <1>10 DEF RefInv, SyncInv

LEMMA StepRefs == TypeOK /\ OrphanInv /\ RefInv /\ [Next]_vars => RefInv'
<1> SUFFICES ASSUME TypeOK, OrphanInv, RefInv, [Next]_vars PROVE RefInv'
  OBVIOUS
<1>1. ASSUME UNCHANGED <<notes, refs, boot, raced>> PROVE RefInv'
  <2>1. Stored' = Stored /\ \A k \in Notes : Mentions(k)' = Mentions(k) /\ notes[k]'.at = notes[k].at
    BY <1>1 DEF Stored, Mentions
  <2>2. \A p \in Pods : SyncInv(p)'
    BY <1>1, <2>1, SyncFrame DEF RefInv
  <2>. QED
    BY <1>1, <2>1, <2>2, RefFrame
<1>2. ASSUME NEW e \in Editors, EditStep(e) PROVE RefInv'
  <2>1. ASSUME NEW op, NEW n, NEW m, Open(e, op, n, m) PROVE RefInv'
    BY <1>1, <2>1 DEF Open
  <2>2. CASE UpdateNothing(e) \/ RequestFails(e)
    BY <1>1, <2>2 DEF UpdateNothing, RequestFails
  <2>3. CASE DeleteNote(e)
    BY <2>3, DeleteNoteRefs
  <2>. QED
    BY <1>2, <2>1, <2>2, <2>3, CreateNoteRefs, UpdateNoteRefs DEF EditStep
<1>3. ASSUME NEW c \in Merges, MergeStep(c) PROVE RefInv'
  <2>1. CASE Reassign(c)
    <3>1. /\ Stored' = Stored
          /\ \A k \in Notes : Mentions(k)' = Mentions(k) /\ notes[k]'.at = notes[k].at
      BY <2>1, ReassignStored
    <3>2. refs' = refs /\ raced' = raced /\ boot' = boot
      BY <2>1 DEF Reassign
    <3>3. \A p \in Pods : SyncInv(p)'
      BY <3>1, <3>2, SyncFrame DEF RefInv
    <3>. QED
      BY <3>1, <3>2, <3>3, RefFrame
  <2>. QED
    BY <1>1, <1>3, <2>1 DEF MergeStep, Consolidate, ConsolidateFails
<1>4. ASSUME NEW p \in Pods, SyncStep(p) \/ BootInterrupted(p) PROVE RefInv'
  <2>1. ASSUME NEW n \in Notes, SyncNoteThrows(p, n) PROVE RefInv'
    BY <2>1, BootOverRefs DEF SyncNoteThrows
  <2>2. CASE BootInterrupted(p)
    BY <2>2, BootOverRefs DEF BootInterrupted
  <2>. QED
    BY <1>4, <2>1, <2>2, ReadAllNotesRefs, SyncNoteRefs, SyncCommitsRefs DEF SyncStep
<1>. QED
  BY <1>1, <1>2, <1>3, <1>4 DEF Next, vars

LEMMA RefInit == Init => RefInv
<1> SUFFICES ASSUME Init PROVE RefInv
  OBVIOUS
<1>1. /\ \A n \in Notes : notes[n].links = {} /\ \A t \in notes[n].body : notes[t].at # "none"
      /\ refs = UNION {Rows(n, notes[n].body \cap Stored, Earlier) : n \in Stored}
      /\ \A p \in Pods : ~Syncing(p)
  BY DEF Init, Syncing, Down
<1>2. Stored \subseteq Notes
  BY DEF Stored
<1>3. Mentioned
  BY <1>1, <1>2 DEF Mentioned, Mentions
<1>4. ReferencesFollowNotes
  <2> SUFFICES ASSUME NEW k \in Stored PROVE LinkedNoteIds(k) = Mentions(k) \cap Stored
    BY DEF ReferencesFollowNotes
  <2>1. Mentions(k) = notes[k].body
    BY <1>1, <1>2 DEF Mentions
  <2>2. \A r \in refs : r.source = k => r.target \in notes[k].body \cap Stored
    BY <1>1 DEF Rows
  <2>3. \A t \in notes[k].body \cap Stored :
          /\ [source |-> k, target |-> t, by |-> Earlier] \in refs
          /\ [source |-> k, target |-> t, by |-> Earlier].source = k
          /\ [source |-> k, target |-> t, by |-> Earlier].target = t
    BY <1>1 DEF Rows
  <2>. QED
    BY <2>1, <2>2, <2>3 DEF LinkedNoteIds
<1>. QED
  BY <1>1, <1>3, <1>4 DEF RefInv, SyncInv

(* What a note links to is what its body and links mention of the notes    *)
(* that exist, unless a booting pod read it before it was last written.    *)
THEOREM ReferencesAreTheNotes == Spec => []ReferencesFollowNotes
<1>1. TypeOK /\ OrphanInv /\ RefInv /\ [Next]_vars => (TypeOK /\ OrphanInv /\ RefInv)'
  BY StepType, StepOrphans, StepRefs
<1>2. Init => TypeOK /\ OrphanInv /\ RefInv
  BY InitType, OrphanInit, RefInit
<1>3. RefInv => ReferencesFollowNotes
  BY DEF RefInv
<1>. QED
  BY <1>1, <1>2, <1>3, PTL DEF Spec
=============================================================================
