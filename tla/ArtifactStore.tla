---------------------------- MODULE ArtifactStore ----------------------------
(***************************************************************************)
(* The content-addressed store of report evidence (artifact_store.py): a    *)
(* file per content, a row per content in the table of assets, and the      *)
(* references by which owners (observations, faults, cells) keep a content. *)
(* Owners store and replace their evidence, lose it to expiry, release or   *)
(* deletion, and a daily collector removes what nobody has referenced for   *)
(* a grace period (retention_service.py).  Files and rows are not one        *)
(* transaction: a row may say one thing while the file says another.         *)
(*                                                                         *)
(* SQLite has one write lock, taken at the first UPDATE, INSERT or DELETE of *)
(* a session (writer); a SELECT before it is a step of its own.  SQLAlchemy   *)
(* writes a column only if it differs from the value the session has loaded, *)
(* so a status that was loaded as ACTIVE is not written again.               *)
(***************************************************************************)
EXTENDS Naturals, FiniteSets

CONSTANTS Contents,     \* what can be stored; a content is its own row and file
          Owners,       \* who refers to contents, one role each
          Evidence,     \* per owner: what it may store
          Pinned,       \* the owners whose references do not expire
          Grace,        \* hours without a reference before a content is removed
          Lifetime,     \* time until a reference expires (if it is not pinned)
          MaxTime       \* bound on time

ASSUME StoreAssumption ==
    /\ Grace \in Nat \ {0} /\ Lifetime \in Nat \ {0} /\ MaxTime \in Nat \ {0}
    /\ Evidence \in [Owners -> SUBSET Contents] /\ Pinned \subseteq Owners

VARIABLES
  time,
  row,      \* per content: status, orphaned_at (0: NULL) and created_at
  file,     \* the contents whose file exists
  ref,      \* per owner: its reference
  alive,    \* the owners whose own row exists
  store,    \* per owner: where storing its evidence stands
  gc,       \* where the collector stands
  reader,   \* a request that reads a content
  writer,   \* TRUE while the collector's session holds the write lock
  until     \* history: per content, the last time it had a live reference

vars == <<time, row, file, ref, alive, store, gc, reader, writer, until>>

Times == 0 .. MaxTime
Statuses == {"none", "ACTIVE", "MISSING", "DELETED"}
\* A reference is live until it is released; expires = 0 stands for a pinned one.
References == [asset : Contents, expires : 0 .. MaxTime + Lifetime, live : BOOLEAN,
               graceUntil : 0 .. MaxTime + Grace]
NoReference == [live |-> FALSE]
HasReference(o) == ref[o] # NoReference

Live(a) == \E o \in Owners : ref[o].live /\ ref[o].asset = a
Usable(a) == row[a].status = "ACTIVE" /\ a \in file

Idle == [pc |-> "idle"]
\* looked: the row was read and its file checked; written: the file is in place.  active
\* and marked: what the row said; reuse: the file was there.
Stores == [pc : {"looked", "written"}, asset : Contents, active : BOOLEAN,
           marked : BOOLEAN, reuse : BOOLEAN]
\* scan: the candidates are loaded; unlink: one of them (next) has passed the checks.
\* dirty: file deleted, DELETED not yet committed; expired: references to be released.
Scans == [pc : {"scan", "unlink"}, now : Times, todo : SUBSET Contents,
          next : SUBSET Contents, orphaned : [Contents -> Times],
          dirty : SUBSET Contents, expired : SUBSET Owners]

Init ==
    /\ time = 1
    /\ row = [a \in Contents |-> [status |-> "none", orphaned |-> 0, created |-> 0]]
    /\ file = {} /\ alive = Owners /\ writer = FALSE
    /\ ref = [o \in Owners |-> NoReference]
    /\ store = [o \in Owners |-> Idle]
    /\ gc = Idle /\ reader = Idle
    /\ until = [a \in Contents |-> 0]

\* A reference that the collector is about to release ends when the collector started.
InUse(a) == \E o \in Owners : ref[o].live /\ ref[o].asset = a /\ (gc # Idle => o \notin gc.expired)
\* The history, kept beside every step.
History == until' = [a \in Contents |-> IF InUse(a) THEN time
                                        ELSE IF row[a].status = "ACTIVE" THEN until[a] ELSE 0]

-----------------------------------------------------------------------------
(* Storing evidence: a content and the reference of its owner.              *)

\* _store_encoded: an active row whose file is there is used again.
Look(o, a) ==
    /\ store[o] = Idle /\ o \in alive /\ a \in Evidence[o]
    /\ store' = [store EXCEPT ![o] =
                   [pc |-> IF Usable(a) THEN "written" ELSE "looked", asset |-> a,
                    active |-> row[a].status = "ACTIVE", marked |-> row[a].orphaned # 0,
                    reuse |-> Usable(a)]]
    /\ UNCHANGED <<time, row, file, ref, alive, gc, reader, writer>>
    /\ History

\* _write_blob: published under its name at once; a file that is there already is kept.
WriteBlob(o) ==
    /\ store[o].pc = "looked"
    /\ file' = file \cup {store[o].asset}
    /\ store' = [store EXCEPT ![o].pc = "written"]
    /\ UNCHANGED <<time, row, ref, alive, gc, reader, writer>>
    /\ History

\* The row after the commit.  What was loaded as ACTIVE is not written again, nor is an
\* orphaned_at that was loaded as NULL.
StoredRow(o) ==
    LET a == store[o].asset
    IN CASE store[o].reuse ->
              [row[a] EXCEPT !.orphaned = IF store[o].marked THEN 0 ELSE @]
         [] ~store[o].reuse /\ store[o].active -> [row[a] EXCEPT !.orphaned = 0]
         [] ~store[o].reuse /\ row[a].status = "none" ->
              [status |-> "ACTIVE", orphaned |-> 0, created |-> time]
         [] OTHER -> [row[a] EXCEPT !.status = "ACTIVE", !.orphaned = 0]

\* A slip: a content counts as an orphan since it was created.
OrphanedAtCreation(rows, lost, refs) ==
    [a \in Contents |->
        IF /\ a \in lost /\ rows[a].status = "ACTIVE"
           /\ ~\E o \in Owners : refs[o].live /\ refs[o].asset = a
        THEN [rows[a] EXCEPT !.orphaned = rows[a].created] ELSE rows[a]]

\* _mark_assets_orphaned_if_unreferenced, for contents that were referenced before.
Orphaned(rows, lost, refs) ==
    [a \in Contents |->
        IF /\ a \in lost /\ rows[a].status = "ACTIVE"
           /\ ~\E o \in Owners : refs[o].live /\ refs[o].asset = a
        THEN [rows[a] EXCEPT !.orphaned = time] ELSE rows[a]]

\* What a released reference would have expired at is of no interest any more.
Released(r, now) == [r EXCEPT !.live = FALSE, !.graceUntil = now + Grace, !.expires = 0]

\* upsert_reference and the commit of the session: the reference of the owner moves to
\* the content, and what it referred to before may be an orphan now.
Attach(o) ==
    LET a == store[o].asset
        before == IF HasReference(o) THEN {ref[o].asset} \ {a} ELSE {}
        refs == [ref EXCEPT ![o] = [asset |-> a, live |-> TRUE, graceUntil |-> 0,
                                    expires |-> IF o \in Pinned THEN 0 ELSE time + Lifetime]]
    IN /\ store[o].pc = "written" /\ ~writer
       /\ ref' = refs
       /\ row' = Orphaned([row EXCEPT ![a] = StoredRow(o)], before, refs)
       /\ store' = [store EXCEPT ![o] = Idle]
       /\ UNCHANGED <<time, file, alive, gc, reader, writer>>
       /\ History

\* The mirror of a report file logs a failure and goes on: a written file stays.
StoreFails(o) ==
    /\ store[o] # Idle
    /\ store' = [store EXCEPT ![o] = Idle]
    /\ UNCHANGED <<time, row, file, ref, alive, gc, reader, writer>>
    /\ History

-----------------------------------------------------------------------------
(* Owners that no longer need their evidence.                               *)

ReleaseOf(o) ==
    LET refs == IF ref[o].live THEN [ref EXCEPT ![o] = Released(ref[o], time)] ELSE ref
    IN /\ ref' = refs
       /\ row' = IF ref[o].live THEN Orphaned(row, {ref[o].asset}, refs) ELSE row

\* transition_warm_observations_to_cold: old evidence of an owner that stays.
Release(o) ==
    /\ o \in alive /\ ref[o].live /\ ~writer
    /\ ReleaseOf(o)
    /\ UNCHANGED <<time, file, alive, store, gc, reader, writer>>
    /\ History

\* The retention job deletes an old run together with what it owns.
DeleteOwner(o) ==
    /\ o \in alive /\ ~writer
    /\ alive' = alive \ {o}
    /\ ReleaseOf(o)
    /\ UNCHANGED <<time, file, store, gc, reader, writer>>
    /\ History

\* An owner is deleted by code that does not know of references.
DropOwner(o) ==
    /\ o \in alive /\ ~writer
    /\ alive' = alive \ {o}
    /\ UNCHANGED <<time, row, file, ref, store, gc, reader, writer>>
    /\ History

-----------------------------------------------------------------------------
(* The collector.                                                           *)

\* remove_stale_references and the expired ones.
Ended(now) ==
    {o \in Owners : ref[o].live /\ (o \notin alive \/ (ref[o].expires # 0 /\ ref[o].expires <= now))}

\* gc_assets: to release references takes the write lock until the end.  What was
\* released just now is still in its grace period, so it is not looked at again.
StartGc ==
    /\ gc = Idle
    /\ LET ended == Ended(time)
       IN /\ gc' = [pc |-> "scan", now |-> time, next |-> {}, dirty |-> {}, expired |-> ended,
                    todo |-> {a \in Contents : row[a].status = "ACTIVE"}
                                \ {ref[o].asset : o \in ended},
                    orphaned |-> [a \in Contents |-> IF row[a].status = "ACTIVE" THEN row[a].orphaned ELSE 0]]
          /\ writer' = (ended # {})
    /\ UNCHANGED <<time, row, file, ref, alive, store, reader>>
    /\ History

OrphanedSince(a) == IF gc.orphaned[a] # 0 THEN gc.orphaned[a] ELSE row[a].created

\* A slip: a referenced content is protected by its grace period only.
CollectableByTime(a) ==
    /\ \A o \in Owners : HasReference(o) /\ ref[o].asset = a => ref[o].graceUntil <= gc.now
    /\ OrphanedSince(a) + Grace <= gc.now

\* _has_references, _grace_until_for_asset and the cutoff.
Collectable(a) ==
    /\ ~Live(a)
    /\ \A o \in Owners : HasReference(o) /\ ref[o].asset = a => ref[o].graceUntil <= gc.now
    /\ OrphanedSince(a) + Grace <= gc.now

\* The query for references first writes what the session has changed: from the second
\* deletion on the collector holds the write lock.
Check(a) ==
    /\ gc.pc = "scan" /\ a \in gc.todo
    /\ \A b \in gc.todo : row[a].created <= row[b].created
    /\ writer' = (writer \/ gc.dirty # {})
    /\ gc' = IF Collectable(a)
             THEN [gc EXCEPT !.pc = "unlink", !.next = {a}, !.todo = @ \ {a}]
             ELSE [gc EXCEPT !.todo = @ \ {a}]
    /\ UNCHANGED <<time, row, file, ref, alive, store, reader>>
    /\ History

\* _delete_asset_blob: the file goes now, the status with the commit.
Unlink ==
    /\ gc.pc = "unlink"
    /\ file' = file \ gc.next
    /\ gc' = [gc EXCEPT !.pc = "scan", !.next = {}, !.dirty = @ \cup gc.next]
    /\ UNCHANGED <<time, row, ref, alive, store, reader, writer>>
    /\ History

Deleted(rows) ==
    [a \in Contents |-> IF a \in gc.dirty THEN [rows[a] EXCEPT !.status = "DELETED"] ELSE rows[a]]

Committed == gc' = Idle /\ writer' = FALSE

CommitGc ==
    /\ gc.pc = "scan" /\ gc.todo = {}
    /\ LET refs == [o \in Owners |-> IF o \in gc.expired
                                     THEN Released(ref[o], gc.now)
                                     ELSE ref[o]]
           marked == [a \in Contents |->
                        IF /\ \E o \in gc.expired : ref[o].asset = a
                           /\ row[a].status = "ACTIVE"
                           /\ ~\E o \in Owners : refs[o].live /\ refs[o].asset = a
                        THEN [row[a] EXCEPT !.orphaned = gc.now] ELSE row[a]]
       IN ref' = refs /\ row' = Deleted(marked)
    /\ Committed
    /\ UNCHANGED <<time, file, alive, store, reader>>
    /\ History

-----------------------------------------------------------------------------
\* read_asset: the row is active, but the file is not there.
FindMissing(a) ==
    /\ reader = Idle /\ row[a].status = "ACTIVE" /\ a \notin file
    /\ reader' = [pc |-> "mark", asset |-> a]
    /\ UNCHANGED <<time, row, file, ref, alive, store, gc, writer>>
    /\ History

MarkMissing ==
    /\ reader # Idle /\ ~writer
    /\ row' = [row EXCEPT ![reader.asset].status = "MISSING"]
    /\ reader' = Idle
    /\ UNCHANGED <<time, file, ref, alive, store, gc, writer>>
    /\ History

\* The server stops: files stay as they are, open transactions are rolled back.
Crash ==
    /\ store' = [o \in Owners |-> Idle]
    /\ gc' = Idle /\ reader' = Idle /\ writer' = FALSE
    /\ UNCHANGED <<time, row, file, ref, alive>>
    /\ History

Tick ==
    /\ time < MaxTime /\ time' = time + 1
    /\ UNCHANGED <<row, file, ref, alive, store, gc, reader, writer>>
    /\ History

Next ==
    \/ \E o \in Owners, a \in Contents : Look(o, a)
    \/ \E o \in Owners : WriteBlob(o) \/ StoreFails(o) \/ Attach(o) \/ Release(o) \/ DeleteOwner(o) \/ DropOwner(o)
    \/ StartGc \/ Unlink \/ CommitGc \/ MarkMissing \/ Crash \/ Tick
    \/ \E a \in Contents : Check(a) \/ FindMissing(a)

Spec == Init /\ [][Next]_vars

-----------------------------------------------------------------------------
(* Rows, references and the states of the processes have their types, and    *)
(* the collector keeps the write lock no longer than it runs.                 *)
TypeOK ==
    /\ time \in Times
    /\ row \in [Contents -> [status : Statuses, orphaned : Times, created : Times]]
    /\ file \subseteq Contents /\ alive \subseteq Owners
    /\ ref \in [Owners -> References \cup {NoReference}]
    /\ store \in [Owners -> Stores \cup {Idle}]
    /\ gc \in Scans \cup {Idle}
    /\ reader \in [pc : {"mark"}, asset : Contents] \cup {Idle}
    /\ writer \in BOOLEAN /\ (writer => gc # Idle)
    /\ until \in [Contents -> Times]

(* Evidence that somebody refers to can be read: its row is active and its   *)
(* file exists, whatever was released, expired, moved, stored again or lost   *)
(* in a crash: the collector "never breaks a live reference" (gc_assets).      *)
EvidenceReadable == \A o \in Owners : ref[o].live => Usable(ref[o].asset)

(* Nothing is collected before the grace period since its last live          *)
(* reference is over ("always measured from the final reference release").    *)
GraceKept == gc # Idle => \A a \in gc.dirty : until[a] + Grace <= gc.now

(* Nothing is collected before its grace period is over, and every variable   *)
(* has its type.                                                              *)
GraceInOrder == TypeOK /\ GraceKept

(* What the code does not exclude: a store that runs while its content, or     *)
(* the one its owner gives up, is looked at by the collector or by a reader.   *)
Concerned(o) == {store[o].asset} \cup (IF HasReference(o) THEN {ref[o].asset} ELSE {})
NoOverlap ==
    \A o \in Owners : store[o] # Idle =>
        /\ gc # Idle => Concerned(o) \cap (gc.todo \cup gc.next \cup gc.dirty) = {}
        /\ reader # Idle => store[o].asset # reader.asset

=============================================================================
