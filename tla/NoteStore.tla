------------------------------ MODULE NoteStore ------------------------------
(***************************************************************************)
(* The notes of a tenant and the references between them: the transactions *)
(* of note-store.ts that create, change and delete a note, the one that    *)
(* moves the attribution of notes from a membership to another             *)
(* (note-store-memberships.ts), and the one that rewrites every reference  *)
(* when a pod boots.  The old pods of a rolling update serve requests      *)
(* while a new one boots.                                                  *)
(*                                                                         *)
(* The database runs at READ COMMITTED.  A transaction's reads are steps   *)
(* of their own; from its first write on it holds the row's lock, so that  *)
(* its writes and its COMMIT are one step on what is committed then, made  *)
(* with what it read before.  The boot's transaction writes rows whose     *)
(* note it has not locked: it is taken note by note, its deletes and       *)
(* inserts are seen by others at its COMMIT.  A foreign key makes an       *)
(* insert lock the notes it names against deletion until the COMMIT.       *)
(***************************************************************************)
EXTENDS Naturals

CONSTANTS
    Notes, Members,
    Payloads,       \* the sets of notes a body, or linkedNoteIds, may name
    Editors,        \* requests that write a note
    Merges,         \* requests that consolidate two memberships
    Pods,           \* booting pods
    Earlier,        \* whoever wrote before
    MaxFaults       \* bound: boots interrupted by a crash or a failed statement

Writers == Editors \cup Pods \cup {Earlier}

ASSUME MaxFaultsAssumption == MaxFaults \in Nat
ASSUME ActorsAssumption    == Editors \cap Pods = {} /\ Earlier \notin Editors \cup Pods
ASSUME NonEmptyAssumption  == Notes # {} /\ Members # {}
ASSUME PayloadsAssumption  == Payloads \subseteq SUBSET Notes

VARIABLES
    notes,      \* notes[n]: the row of notes
    refs,       \* the rows of note_references
    request,    \* request[e]: the locals of an editor's request
    merge,      \* merge[c]: the locals of a consolidation
    boot,       \* boot[p]: the locals of a pod's boot
    faults,
    raced,      \* history: the notes written while a boot's sync was under way
    merged      \* history: <<n, m>> where a consolidation moved n away from m

vars == <<notes, refs, request, merge, boot, faults, raced, merged>>

(* body: the notes ![[...]] in the body names; links: linked_notes_json.   *)
Note == [at: {"none", "stored", "deleted"}, body: SUBSET Notes, links: SUBSET Notes,
         createdBy: Members, lastEditedBy: Members]

(* by: the transaction that inserted the row; its random id, in effect.    *)
Reference == [source: Notes, target: Notes, by: Writers]

(* links, createdBy: of the row as the transaction read it.                *)
Request == [pc: {"idle", "write", "ended"}, op: {"create", "update", "delete"},
            note: Notes, member: Members, links: SUBSET Notes, createdBy: Members]

(* seen: the rows the UPDATE has in its snapshot.                          *)
Merge == [pc: {"idle", "reassign", "ended"}, source: Members,
          target: Members, seen: SUBSET Notes]

(* read: the rows noteRows has, todo: those the loop has yet to reach;     *)
(* old, new: the references deleted and inserted, not yet committed; late: *)
(* history: the notes whose references others wrote since.                 *)
Boot == [pc: {"down", "sync", "up"}, read: SUBSET Notes, todo: SUBSET Notes,
         mentions: [Notes -> SUBSET Notes],
         old: SUBSET Reference, new: SUBSET Reference, late: SUBSET Notes]

AnyNote   == CHOOSE n \in Notes : TRUE
AnyMember == CHOOSE m \in Members : TRUE

Empty(at) == [at |-> at, body |-> {}, links |-> {}, createdBy |-> AnyMember,
              lastEditedBy |-> AnyMember]

Stored == {n \in Notes : notes[n].at = "stored"}

Rows(n, targets, by) == {[source |-> n, target |-> t, by |-> by] : t \in targets}

Idle(pc) == [pc |-> pc, op |-> "create", note |-> AnyNote, member |-> AnyMember,
             links |-> {}, createdBy |-> AnyMember]

NoMerge(pc) == [pc |-> pc, source |-> AnyMember, target |-> AnyMember, seen |-> {}]

Down(pc) == [pc |-> pc, read |-> {}, todo |-> {}, mentions |-> [n \in Notes |-> {}],
             old |-> {}, new |-> {}, late |-> {}]

(* Any store, less the linkedNoteIds: a body names notes that exist or did.*)
Init ==
    /\ notes \in [Notes -> [at: {"none", "stored", "deleted"}, body: Payloads \cup {{}},
                            links: {{}}, createdBy: {AnyMember}, lastEditedBy: {AnyMember}]]
    /\ \A n \in Notes :
         /\ \A t \in notes[n].body : notes[t].at # "none"
         /\ notes[n].at # "stored" => notes[n] = Empty(notes[n].at)
    /\ refs = UNION {Rows(n, notes[n].body \cap Stored, Earlier) : n \in Stored}
    /\ request = [e \in Editors |-> Idle("idle")]
    /\ merge = [c \in Merges |-> NoMerge("idle")]
    /\ boot = [p \in Pods |-> Down("down")]
    /\ faults = 0
    /\ raced = {}
    /\ merged = {}

Syncing(p) == boot[p].pc = "sync"

(* The notes a boot's inserts hold locked against deletion.                *)
KeyShared(p) == {r.source : r \in boot[p].new} \cup {r.target : r \in boot[p].new}

Behind(p, S) == IF Syncing(p) THEN [boot[p] EXCEPT !.late = @ \cup S] ELSE boot[p]

(* A note is written: every sync under way has read it too early.          *)
Written(n) ==
    /\ boot' = [p \in Pods |-> Behind(p, {n})]
    /\ raced' = IF \E p \in Pods : Syncing(p) THEN raced \cup {n} ELSE raced \ {n}

(* The locals go out of scope.                                             *)
Ended(e) == request' = [request EXCEPT ![e] = Idle("ended")]

-----------------------------------------------------------------------------
(* Requests that write one note: POST, PUT and DELETE /api/notes and their *)
(* shared forms.                                                           *)

(* The route's getNote, then selectNoteById of updateNoteTransaction: one  *)
(* that finds no note ends the request.                                    *)
Open(e, op, n, m) ==
    /\ request[e].pc = "idle"
    /\ IF op = "create" THEN n = AnyNote ELSE n \in Stored
    /\ request' = [request EXCEPT ![e] =
          [pc |-> "write", op |-> op, note |-> n, member |-> m,
           links     |-> IF op = "update" THEN notes[n].links ELSE {},
           createdBy |-> IF op = "update" THEN notes[n].createdBy ELSE AnyMember]]
    /\ UNCHANGED <<notes, refs, merge, boot, faults, raced, merged>>

(* buildPendingReferences with allowInvalidReferences false, and the       *)
(* foreign keys: every target is there.                                    *)
Valid(targets) == targets \subseteq Stored

(* Variant: nothing to insert, nothing done.                               *)
ReplacedIfAny(n, targets, by) ==
    IF targets = {} THEN refs ELSE {r \in refs : r.source # n} \cup Rows(n, targets, by)

(* replaceNoteReferences: DELETE by source, then an INSERT each.           *)
Replaced(n, targets, by) == {r \in refs : r.source # n} \cup Rows(n, targets, by)

CreateNote(e, n, body, links) ==
    /\ request[e].pc = "write" /\ request[e].op = "create" /\ notes[n].at = "none"
    /\ Valid(body \cup links)
    /\ notes' = [notes EXCEPT ![n] = [at |-> "stored", body |-> body, links |-> links,
                                      createdBy |-> request[e].member,
                                      lastEditedBy |-> request[e].member]]
    /\ refs' = refs \cup Rows(n, body \cup links, e)
    /\ Ended(e)
    /\ raced' = raced \ {n}
    /\ UNCHANGED <<merge, boot, faults, merged>>

(* Variant: the UPDATE writes the whole row as it was read.                *)
UpdateWholeNote(e, body, keep, given) ==
    LET n     == request[e].note
        links == IF keep THEN request[e].links ELSE given
    IN /\ request[e].pc = "write" /\ request[e].op = "update"
       /\ n \in Stored
       /\ Valid(body \cup links)
       /\ notes' = [notes EXCEPT ![n].body = body, ![n].links = links,
                                 ![n].lastEditedBy = request[e].member,
                                 ![n].createdBy = request[e].createdBy]
       /\ refs' = Replaced(n, body \cup links, e)
       /\ Ended(e)
       /\ Written(n)
       /\ UNCHANGED <<merge, faults, merged>>

(* keep: the payload has no linkedNoteIds, what was read is written back.  *)
UpdateNote(e, body, keep, given) ==
    LET n     == request[e].note
        links == IF keep THEN request[e].links ELSE given
    IN /\ request[e].pc = "write" /\ request[e].op = "update"
       /\ n \in Stored
       /\ Valid(body \cup links)
       /\ notes' = [notes EXCEPT ![n].body = body, ![n].links = links,
                                 ![n].lastEditedBy = request[e].member]
       /\ refs' = Replaced(n, body \cup links, e)
       /\ Ended(e)
       /\ Written(n)
       /\ UNCHANGED <<merge, faults, merged>>

(* The note went after it was read: the UPDATE finds no row, which nobody  *)
(* checks, and without references nothing fails: the answer is 200.        *)
UpdateNothing(e) ==
    /\ request[e].pc = "write" /\ request[e].op = "update"
    /\ request[e].note \notin Stored
    /\ Ended(e)
    /\ UNCHANGED <<notes, refs, merge, boot, faults, raced, merged>>

(* Variant: the DELETE waits for nobody.                                   *)
DeleteNoteAtOnce(e) ==
    LET n == request[e].note
    IN /\ request[e].pc = "write" /\ request[e].op = "delete"
       /\ notes' = [notes EXCEPT ![n] = IF @.at = "stored" THEN Empty("deleted") ELSE @]
       /\ refs' = {r \in refs : r.source # n /\ r.target # n}
       /\ Ended(e)
       /\ UNCHANGED <<merge, boot, faults, raced, merged>>

(* ON DELETE CASCADE takes the references from and to the note along.  The *)
(* DELETE waits for a boot that holds a key of it.                         *)
DeleteNote(e) ==
    LET n == request[e].note
    IN /\ request[e].pc = "write" /\ request[e].op = "delete"
       /\ \A p \in Pods : n \notin KeyShared(p)
       /\ notes' = [notes EXCEPT ![n] = IF @.at = "stored" THEN Empty("deleted") ELSE @]
       /\ refs' = {r \in refs : r.source # n /\ r.target # n}
       /\ Ended(e)
       /\ UNCHANGED <<merge, boot, faults, raced, merged>>

(* A reference that is not valid, a failed statement, the process's death: *)
(* ROLLBACK.                                                               *)
RequestFails(e) ==
    /\ request[e].pc = "write"
    /\ Ended(e)
    /\ UNCHANGED <<notes, refs, merge, boot, faults, raced, merged>>

-----------------------------------------------------------------------------
(* consolidateMemberships                                                  *)

(* The counts of the preview are read; then the UPDATE takes its snapshot. *)
Consolidate(c, source, target) ==
    /\ merge[c].pc = "idle" /\ source # target
    /\ merge' = [merge EXCEPT ![c] = [pc |-> "reassign", source |-> source,
                                      target |-> target, seen |-> Stored]]
    /\ UNCHANGED <<notes, refs, request, boot, faults, raced, merged>>

MergeEnded(c) == merge' = [merge EXCEPT ![c] = NoMerge("ended")]

(* It waits for the rows others hold and looks at each again.              *)
Moved(m, c) == IF m = merge[c].source THEN merge[c].target ELSE m

Reassigned(n, c) == [notes[n] EXCEPT !.createdBy = Moved(@, c), !.lastEditedBy = Moved(@, c)]

Reassign(c) ==
    /\ merge[c].pc = "reassign"
    /\ notes' = [n \in Notes |-> IF n \in merge[c].seen \cap Stored THEN Reassigned(n, c)
                                                                   ELSE notes[n]]
    /\ merged' = (merged \ (merge[c].seen \X {merge[c].target}))
                     \cup ((merge[c].seen \cap Stored) \X {merge[c].source})
    /\ MergeEnded(c)
    /\ UNCHANGED <<refs, request, boot, faults, raced>>

ConsolidateFails(c) ==
    /\ merge[c].pc = "reassign"
    /\ MergeEnded(c)
    /\ UNCHANGED <<notes, refs, request, boot, faults, raced, merged>>

-----------------------------------------------------------------------------
(* syncNoteReferencesTransaction, in createNoteStore, before a pod serves. *)

Mentions(n) == notes[n].body \cup notes[n].links

(* All rows are read at once.                                              *)
ReadAllNotes(p) ==
    /\ boot[p].pc = "down"
    /\ boot' = [boot EXCEPT ![p] = [Down("sync") EXCEPT
                    !.read = Stored, !.todo = Stored,
                    !.mentions = [n \in Notes |-> IF n \in Stored THEN Mentions(n) ELSE {}]]]
    /\ UNCHANGED <<notes, refs, request, merge, faults, raced, merged>>

(* allowInvalidReferences: a target that is gone is left out.              *)
SyncTargets(p, n) == boot[p].mentions[n] \cap Stored

(* Variant: the boot is as strict as an edit.                              *)
SyncThrowsOnInvalid(p, n) == ~(boot[p].mentions[n] \subseteq Stored)

(* The note itself has gone: the first INSERT breaks its foreign key.      *)
SyncThrows(p, n) == SyncTargets(p, n) # {} /\ n \notin Stored

SyncNote(p, n) ==
    /\ Syncing(p) /\ n \in boot[p].todo
    /\ ~SyncThrows(p, n)
    /\ boot' = [boot EXCEPT ![p].todo = @ \ {n},
                            ![p].old = @ \cup {r \in refs : r.source = n},
                            ![p].new = @ \cup Rows(n, SyncTargets(p, n), p)]
    /\ UNCHANGED <<notes, refs, request, merge, faults, raced, merged>>

(* The whole transaction is rolled back, createNoteStore throws, and the   *)
(* pod's container is started again.                                       *)
SyncNoteThrows(p, n) ==
    /\ Syncing(p) /\ n \in boot[p].todo
    /\ SyncThrows(p, n)
    /\ boot' = [boot EXCEPT ![p] = Down("down")]
    /\ UNCHANGED <<notes, refs, request, merge, faults, raced, merged>>

SyncCommits(p) ==
    /\ Syncing(p) /\ boot[p].todo = {}
    /\ refs' = (refs \ boot[p].old) \cup boot[p].new
    /\ raced' = boot[p].late
    /\ boot' = [q \in Pods |-> IF q = p THEN Down("up") ELSE Behind(q, boot[p].late)]
    /\ UNCHANGED <<notes, request, merge, faults, merged>>

(* A crash or a failed statement; a pod that serves may be started anew.   *)
BootInterrupted(p) ==
    /\ boot[p].pc \in {"sync", "up"} /\ faults < MaxFaults
    /\ boot' = [boot EXCEPT ![p] = Down("down")]
    /\ faults' = faults + 1
    /\ UNCHANGED <<notes, refs, request, merge, raced, merged>>

-----------------------------------------------------------------------------
EditStep(e) ==
    \/ \E op \in {"create", "update", "delete"}, n \in Notes, m \in Members : Open(e, op, n, m)
    \/ \E n \in Notes, body, links \in Payloads : CreateNote(e, n, body, links)
    \/ \E body, given \in Payloads, keep \in BOOLEAN : UpdateNote(e, body, keep, given)
    \/ UpdateNothing(e)
    \/ DeleteNote(e)
    \/ RequestFails(e)

MergeStep(c) ==
    \/ \E source, target \in Members : Consolidate(c, source, target)
    \/ Reassign(c)
    \/ ConsolidateFails(c)

SyncStep(p) ==
    \/ ReadAllNotes(p)
    \/ \E n \in Notes : SyncNote(p, n) \/ SyncNoteThrows(p, n)
    \/ SyncCommits(p)

Next ==
    \/ \E e \in Editors : EditStep(e)
    \/ \E c \in Merges : MergeStep(c)
    \/ \E p \in Pods : SyncStep(p) \/ BootInterrupted(p)

Spec == Init /\ [][Next]_vars

(* A boot goes on, and is begun again when it failed.                      *)
FairSpec == Spec /\ \A p \in Pods : WF_vars(SyncStep(p))

-----------------------------------------------------------------------------
(* Every variable keeps its type.                                          *)
TypeOK ==
    /\ notes \in [Notes -> Note]
    /\ refs \subseteq Reference
    /\ request \in [Editors -> Request]
    /\ merge \in [Merges -> Merge]
    /\ boot \in [Pods -> Boot]
    /\ faults \in 0 .. MaxFaults
    /\ raced \subseteq Notes
    /\ merged \subseteq Notes \X Members

(* A reference leads from a note that exists to one that exists, whichever *)
(* delete overlapped the edit or the boot that inserted it.                *)
NoOrphans == \A r \in refs : r.source \in Stored /\ r.target \in Stored

(* composeNote: what a note is said to link to.                            *)
LinkedNoteIds(n) == {r.target : r \in {s \in refs : s.source = n}}

(* The references of a note are those its body and its links make, less    *)
(* the notes that have gone; except for a note written while a booting pod *)
(* had read it already and had not committed.                              *)
ReferencesFollowNotes == \A n \in Stored \ raced : LinkedNoteIds(n) = Mentions(n) \cap Stored

(* A consolidation is not undone: no edit that had read a note before it   *)
(* gives the note's authorship back.                                       *)
AuthorsStayMerged == \A n \in Stored, m \in Members : <<n, m>> \in merged => notes[n].createdBy # m

(* A pod gets to serve, whatever was deleted while it read.                *)
BootsEnd == \A p \in Pods : <>[](boot[p].pc = "up")
=============================================================================
