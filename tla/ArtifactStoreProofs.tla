------------------------- MODULE ArtifactStoreProofs -------------------------
(***************************************************************************)
(* Proofs about ArtifactStore: while no store runs beside the collector or  *)
(* a reader on the same content, evidence that is referred to can be read,  *)
(* and nothing is collected before its grace period is over, for any number *)
(* of contents and owners.                                                  *)
(***************************************************************************)
EXTENDS ArtifactStore, TLAPS

-----------------------------------------------------------------------------
(* The inductive invariant.                                                *)

\* The clock has started, and nothing is from the future.
Clock ==
    /\ time # 0
    /\ \A a \in Contents : until[a] <= time
    /\ gc # Idle => gc.now # 0 /\ gc.now <= time

\* What an owner's store knows of its content is still so.
Storing ==
    \A o \in Owners : store[o] # Idle =>
        /\ store[o].pc = "written" => store[o].asset \in file
        /\ store[o].active => row[store[o].asset].status = "ACTIVE"
        /\ store[o].reuse => store[o].active

\* What the collector removes and what a reader marks as missing is not in use.
Doomed ==
    /\ gc # Idle => \A a \in gc.next \cup gc.dirty : ~Live(a) /\ until[a] + Grace <= gc.now
    /\ reader # Idle => ~Live(reader.asset)

\* The row of a content without a live reference says since when.
OrphansKnown ==
    \A a \in Contents :
        row[a].status = "ACTIVE" /\ ~Live(a) => row[a].orphaned # 0 /\ until[a] <= row[a].orphaned

\* A reference to a that ended after the collector started.
GracedBy(a) == {o \in Owners : HasReference(o) /\ ref[o].asset = a /\ ref[o].graceUntil > gc.now}

\* What the collector has loaded of a candidate is enough to judge it.
ScanKnows ==
    gc # Idle => \A a \in gc.todo :
        \/ Live(a)
        \/ GracedBy(a) # {}
        \/ gc.orphaned[a] # 0 /\ until[a] <= gc.orphaned[a]

\* The references that the collector will release ended when it started.
Releasing ==
    gc # Idle /\ gc.expired # {} =>
        /\ writer
        /\ \A o \in gc.expired : ref[o].live
        /\ \A a \in Contents : InUse(a) \/ until[a] <= gc.now

IInv ==
    /\ TypeOK /\ Clock /\ EvidenceReadable /\ Storing /\ Doomed
    /\ OrphansKnown /\ ScanKnows /\ Releasing

-----------------------------------------------------------------------------
(* Types.                                                                  *)

\* The type of each variable, where a proof needs it.
LEMMA TypesOf ==
    ASSUME TypeOK
    PROVE  /\ time \in Nat /\ time <= MaxTime /\ MaxTime \in Nat /\ Grace \in Nat \ {0}
           /\ Lifetime \in Nat \ {0}
           /\ \A a \in Contents : /\ row[a] \in [status : Statuses, orphaned : Times, created : Times]
                                  /\ row[a].orphaned \in Nat /\ until[a] \in Nat
           /\ \A o \in Owners : /\ store[o] # Idle => store[o] \in Stores
                                /\ HasReference(o) => ref[o] \in References
                                /\ ref[o].live => HasReference(o)
           /\ gc # Idle => gc \in Scans /\ gc.now \in Nat
<1>1. /\ time \in Nat /\ time <= MaxTime /\ MaxTime \in Nat /\ Grace \in Nat \ {0}
      /\ Lifetime \in Nat \ {0}
  BY StoreAssumption DEF TypeOK, Times
<1>2. ASSUME NEW a \in Contents
      PROVE  /\ row[a] \in [status : Statuses, orphaned : Times, created : Times]
             /\ row[a].orphaned \in Nat /\ until[a] \in Nat
  BY DEF TypeOK, Times
<1>3. ASSUME NEW o \in Owners
      PROVE  /\ store[o] # Idle => store[o] \in Stores
             /\ HasReference(o) => ref[o] \in References
             /\ ref[o].live => HasReference(o)
  BY DEF TypeOK, HasReference, NoReference
<1>4. gc # Idle => gc \in Scans /\ gc.now \in Nat
  BY DEF TypeOK, Scans, Times
<1> QED
  BY <1>1, <1>2, <1>3, <1>4

\* The history is about times.
LEMMA HistoryType ==
    ASSUME TypeOK, History
    PROVE  until' \in [Contents -> Times]
<1>1. \A a \in Contents : until[a] \in Times /\ time \in Times /\ 0 \in Times
  BY TypesOf DEF TypeOK, Times
<1> QED
  BY <1>1 DEF History

\* Rows stay rows when contents are marked as orphans ...
LEMMA OrphanedType ==
    ASSUME TypeOK, NEW refs, NEW before,
           NEW rows \in [Contents -> [status : Statuses, orphaned : Times, created : Times]]
    PROVE  Orphaned(rows, before, refs) \in [Contents -> [status : Statuses, orphaned : Times, created : Times]]
BY DEF Orphaned, TypeOK

\* ... and references when they are released.
LEMMA ReleasedType ==
    ASSUME TypeOK, NEW r \in References, NEW now \in Times
    PROVE  Released(r, now) \in References
<1>1. /\ MaxTime \in Nat /\ Grace \in Nat /\ Lifetime \in Nat /\ now \in 0 .. MaxTime
  BY TypesOf DEF Times
<1>2. now + Grace \in 0 .. MaxTime + Grace /\ 0 \in 0 .. MaxTime + Lifetime
  BY <1>1
<1> QED
  BY <1>2 DEF Released, References

LEMMA ReleaseType ==
    ASSUME TypeOK, NEW o \in Owners, ReleaseOf(o)
    PROVE  /\ ref' \in [Owners -> References \cup {NoReference}]
           /\ row' \in [Contents -> [status : Statuses, orphaned : Times, created : Times]]
<1>1. time \in Times
  BY DEF TypeOK
<1>2. CASE ref[o].live
  <2>1. Released(ref[o], time) \in References
    BY <1>1, <1>2, TypesOf, ReleasedType
  <2> QED
    BY <1>2, <2>1, OrphanedType DEF ReleaseOf, TypeOK
<1>3. CASE ~ref[o].live
  BY <1>3 DEF ReleaseOf, TypeOK
<1> QED
  BY <1>2, <1>3

\* What a store writes into the row of its content.
LEMMA StoredType ==
    ASSUME TypeOK, NEW o \in Owners, store[o] # Idle
    PROVE  StoredRow(o) \in [status : Statuses, orphaned : Times, created : Times]
<1>1. store[o].asset \in Contents /\ 0 \in Times /\ time \in Times
  BY TypesOf DEF Stores, TypeOK, Times
<1>2. row[store[o].asset] \in [status : Statuses, orphaned : Times, created : Times]
  BY <1>1, TypesOf
<1> DEFINE r == row[store[o].asset]
<1>3. \A n \in Times : [r EXCEPT !.orphaned = n] \in [status : Statuses, orphaned : Times, created : Times]
  BY <1>2
<1>4. [r EXCEPT !.status = "ACTIVE", !.orphaned = 0] \in [status : Statuses, orphaned : Times, created : Times]
  BY <1>1, <1>2 DEF Statuses
<1>5. [status |-> "ACTIVE", orphaned |-> 0, created |-> time]
         \in [status : Statuses, orphaned : Times, created : Times]
  BY <1>1 DEF Statuses
<1>6. \/ StoredRow(o) = [r EXCEPT !.orphaned = IF store[o].marked THEN 0 ELSE @]
      \/ StoredRow(o) = [r EXCEPT !.orphaned = 0]
      \/ StoredRow(o) = [status |-> "ACTIVE", orphaned |-> 0, created |-> time]
      \/ StoredRow(o) = [r EXCEPT !.status = "ACTIVE", !.orphaned = 0]
  BY DEF StoredRow
<1>7. r.orphaned \in Times
  BY <1>2
<1> HIDE DEF r
<1> QED
  BY <1>1, <1>3, <1>4, <1>5, <1>6, <1>7

\* The reference that a store makes.
LEMMA AttachedType ==
    ASSUME TypeOK, NEW o \in Owners, NEW a \in Contents
    PROVE  [asset |-> a, live |-> TRUE, graceUntil |-> 0,
            expires |-> IF o \in Pinned THEN 0 ELSE time + Lifetime] \in References
<1>1. time + Lifetime \in 0 .. MaxTime + Lifetime /\ 0 \in 0 .. MaxTime + Lifetime
      /\ 0 \in 0 .. MaxTime + Grace
  BY TypesOf
<1> QED
  BY <1>1 DEF References

\* What the collector loads when it starts.
LEMMA StartType ==
    ASSUME TypeOK, StartGc
    PROVE  gc' \in Scans
<1>1. /\ Ended(time) \in SUBSET Owners /\ time \in Times
      /\ {a \in Contents : row[a].status = "ACTIVE"} \ {ref[o].asset : o \in Ended(time)}
            \in SUBSET Contents
      /\ [a \in Contents |-> IF row[a].status = "ACTIVE" THEN row[a].orphaned ELSE 0]
            \in [Contents -> Times]
  BY TypesOf DEF Ended, TypeOK, Times
<1> QED
  BY <1>1 DEF StartGc, Scans

LEMMA TypeStep ==
    ASSUME TypeOK, Releasing, [Next]_vars
    PROVE  TypeOK'
<1> DEFINE AllRows == [status : Statuses, orphaned : Times, created : Times]
<1>1. ASSUME NEW o \in Owners, NEW a \in Contents, Look(o, a)
      PROVE  TypeOK'
  <2>1. [pc |-> IF Usable(a) THEN "written" ELSE "looked", asset |-> a,
         active |-> row[a].status = "ACTIVE", marked |-> row[a].orphaned # 0,
         reuse |-> Usable(a)] \in Stores
    BY DEF Stores, Usable
  <2> QED
    BY <1>1, <2>1, HistoryType DEF Look, TypeOK
<1>2. ASSUME NEW o \in Owners, WriteBlob(o)
      PROVE  TypeOK'
  <2>1. store[o] \in Stores
    BY <1>2, TypesOf DEF WriteBlob, Idle
  <2>2. [store[o] EXCEPT !.pc = "written"] \in Stores /\ store[o].asset \in Contents
    BY <2>1 DEF Stores
  <2> QED
    BY <1>2, <2>2, HistoryType DEF WriteBlob, TypeOK
<1>3. ASSUME NEW o \in Owners, StoreFails(o)
      PROVE  TypeOK'
  BY <1>3, HistoryType DEF StoreFails, TypeOK
<1>4. ASSUME NEW o \in Owners, Attach(o)
      PROVE  TypeOK'
  <2> DEFINE a == store[o].asset
  <2>1. store[o] # Idle /\ a \in Contents
    BY <1>4, TypesOf DEF Attach, Idle, Stores
  <2>2. StoredRow(o) \in AllRows
    BY <2>1, StoredType
  <2>3. [row EXCEPT ![a] = StoredRow(o)] \in [Contents -> AllRows]
    BY <2>1, <2>2 DEF TypeOK
  <2>4. row' \in [Contents -> AllRows]
    BY <1>4, <2>3, OrphanedType DEF Attach
  <2>5. ref' \in [Owners -> References \cup {NoReference}]
    BY <1>4, <2>1, AttachedType DEF Attach, TypeOK
  <2> QED
    BY <1>4, <2>4, <2>5, HistoryType DEF Attach, TypeOK
<1>5. ASSUME NEW o \in Owners, Release(o)
      PROVE  TypeOK'
  BY <1>5, ReleaseType, HistoryType DEF Release, TypeOK
<1>6. ASSUME NEW o \in Owners, DeleteOwner(o)
      PROVE  TypeOK'
  BY <1>6, ReleaseType, HistoryType DEF DeleteOwner, TypeOK
<1>7. ASSUME NEW o \in Owners, DropOwner(o)
      PROVE  TypeOK'
  BY <1>7, HistoryType DEF DropOwner, TypeOK
<1>8. CASE StartGc
  <2>1. gc' \in Scans /\ gc'.pc = "scan" /\ writer' \in BOOLEAN
    BY <1>8, StartType DEF StartGc
  <2> QED
    BY <1>8, <2>1, HistoryType DEF StartGc, TypeOK, Idle
<1>9. ASSUME NEW a \in Contents, Check(a)
      PROVE  TypeOK'
  <2>1. gc \in Scans /\ gc # Idle
    BY <1>9, TypesOf DEF Check, Idle
  <2>2. [gc EXCEPT !.pc = "unlink", !.next = {a}, !.todo = @ \ {a}] \in Scans
    BY <2>1 DEF Scans
  <2>3. [gc EXCEPT !.todo = @ \ {a}] \in Scans
    BY <2>1 DEF Scans
  <2>4. gc' \in Scans /\ gc' # Idle
    <3>1. gc'.pc \in {"scan", "unlink"}
      BY <1>9, <2>1, <2>2, <2>3 DEF Check, Scans
    <3> QED
      BY <1>9, <2>2, <2>3, <3>1 DEF Check, Idle
  <2>5. writer' \in BOOLEAN
    BY <1>9 DEF Check, TypeOK
  <2> QED
    BY <1>9, <2>4, <2>5, HistoryType DEF Check, TypeOK
<1>10. CASE Unlink
  <2>1. gc \in Scans
    BY <1>10, TypesOf DEF Unlink, Idle
  <2>2. [gc EXCEPT !.pc = "scan", !.next = {}, !.dirty = @ \cup gc.next] \in Scans
    BY <2>1 DEF Scans
  <2>3. gc' \in Scans /\ gc'.pc = "scan"
    BY <1>10, <2>1, <2>2 DEF Unlink, Scans
  <2> QED
    BY <1>10, <2>3, HistoryType DEF Unlink, TypeOK, Idle
<1>11. CASE CommitGc
  <2>1. gc \in Scans /\ gc.now \in Times
    BY <1>11, TypesOf DEF CommitGc, Idle, Scans
  <2>2. \A o \in gc.expired : o \in Owners /\ ref[o] \in References
    BY <1>11, <2>1, TypesOf DEF Scans, Releasing, CommitGc, Idle
  <2>3. ref' \in [Owners -> References \cup {NoReference}]
    <3>1. \A o \in Owners : /\ o \in gc.expired => Released(ref[o], gc.now) \in References
                            /\ ref[o] \in References \cup {NoReference}
      BY <2>1, <2>2, ReleasedType DEF TypeOK
    <3>2. ref' = [o \in Owners |-> IF o \in gc.expired THEN Released(ref[o], gc.now) ELSE ref[o]]
      BY <1>11 DEF CommitGc
    <3> QED
      BY <3>1, <3>2
  <2>4. row' \in [Contents -> AllRows]
    <3>1. \A a \in Contents : [row[a] EXCEPT !.orphaned = gc.now] \in AllRows
      BY <2>1, TypesOf
    <3>2. \E marked \in [Contents -> AllRows] : row' = Deleted(marked)
      BY <1>11, <3>1, TypesOf DEF CommitGc
    <3>3. ASSUME NEW marked \in [Contents -> AllRows]
          PROVE  Deleted(marked) \in [Contents -> AllRows]
      BY DEF Deleted, Statuses
    <3> QED
      BY <3>2, <3>3
  <2> QED
    BY <1>11, <2>3, <2>4, HistoryType DEF CommitGc, Committed, TypeOK
<1>12. ASSUME NEW a \in Contents, FindMissing(a)
      PROVE  TypeOK'
  BY <1>12, HistoryType DEF FindMissing, TypeOK
<1>13. CASE MarkMissing
  <2>1. reader.asset \in Contents
    BY <1>13 DEF MarkMissing, TypeOK
  <2>2. [row[reader.asset] EXCEPT !.status = "MISSING"] \in AllRows
    BY <2>1, TypesOf DEF Statuses
  <2>3. row' \in [Contents -> AllRows]
    BY <1>13, <2>1, <2>2 DEF MarkMissing, TypeOK
  <2> QED
    BY <1>13, <2>3, HistoryType DEF MarkMissing, TypeOK
<1>14. CASE Crash
  BY <1>14, HistoryType DEF Crash, TypeOK
<1>15. CASE Tick
  <2>1. time' \in Times
    BY <1>15, TypesOf DEF Tick, Times
  <2> QED
    BY <1>15, <2>1, HistoryType DEF Tick, TypeOK
<1>16. CASE UNCHANGED vars
  BY <1>16 DEF vars, TypeOK
<1> QED
  BY <1>1, <1>2, <1>3, <1>4, <1>5, <1>6, <1>7, <1>8, <1>9, <1>10, <1>11, <1>12, <1>13, <1>14,
     <1>15, <1>16 DEF Next

-----------------------------------------------------------------------------
(* Steps.                                                                  *)

\* What is not in use was used last at the time the history says.
LEMMA HistoryOf ==
    ASSUME TypeOK, Clock, History, NEW a \in Contents
    PROVE  /\ until'[a] \in Nat /\ until'[a] <= time
           /\ ~InUse(a) => until'[a] <= until[a]
           /\ InUse(a) => Live(a)
<1>1. until'[a] = IF InUse(a) THEN time ELSE IF row[a].status = "ACTIVE" THEN until[a] ELSE 0
  BY DEF History
<1>2. until[a] \in Nat /\ until[a] <= time /\ time \in Nat
  BY TypesOf DEF Clock
<1>3. InUse(a) => Live(a)
  BY DEF InUse, Live
<1> QED
  BY <1>1, <1>2, <1>3

\* A reference is not the absence of one.
LEMMA ReferencesExist ==
    ASSUME NEW r \in References
    PROVE  r # NoReference
BY DEF References, NoReference

\* A step that leaves the rows, the references and the collector alone.
LEMMA QuietStep ==
    ASSUME IInv, TypeOK', Storing', UNCHANGED <<row, ref, gc, reader, writer>>,
           file \subseteq file', time' = time \/ time' = time + 1, History
    PROVE  IInv'
<1>1. time \in Nat /\ \A a \in Contents : until[a] \in Nat
  BY TypesOf DEF IInv
<1>2. \A a \in Contents : (Live(a)' <=> Live(a)) /\ (InUse(a)' <=> InUse(a)) /\ GracedBy(a)' = GracedBy(a)
  BY DEF Live, InUse, GracedBy, HasReference
<1>3. \A a \in Contents : /\ until'[a] \in Nat /\ until'[a] <= time
                          /\ ~InUse(a) => until'[a] <= until[a]
                          /\ InUse(a) => Live(a)
  BY HistoryOf DEF IInv
<1>4. Grace \in Nat /\ (gc # Idle => gc.now \in Nat)
  BY TypesOf DEF IInv
<1>5. Clock'
  BY <1>1, <1>3, <1>4 DEF IInv, Clock
<1>6. EvidenceReadable'
  BY DEF IInv, EvidenceReadable, Usable
<1>7. Doomed'
  <2>1. ASSUME gc # Idle, NEW a \in gc.next \cup gc.dirty
        PROVE  ~Live(a)' /\ until'[a] + Grace <= gc.now
    <3>1. a \in Contents
      BY <2>1, TypesOf DEF IInv, Scans
    <3>2. ~Live(a) /\ until[a] + Grace <= gc.now
      BY <2>1 DEF IInv, Doomed
    <3> QED
      BY <1>1, <1>2, <1>3, <1>4, <2>1, <3>1, <3>2
  <2>2. reader # Idle => ~Live(reader.asset)'
    BY <1>2 DEF IInv, Doomed, TypeOK
  <2> QED
    BY <2>1, <2>2 DEF Doomed
<1>8. OrphansKnown'
  <2>1. \A a \in Contents : row[a].orphaned \in Nat
    BY TypesOf DEF IInv
  <2> QED
    BY <1>1, <1>2, <1>3, <2>1 DEF IInv, OrphansKnown
<1>9. ScanKnows'
  <2>1. ASSUME gc # Idle, NEW a \in gc.todo
        PROVE  \/ Live(a)'
               \/ GracedBy(a)' # {}
               \/ gc.orphaned[a] # 0 /\ until'[a] <= gc.orphaned[a]
    <3>1. a \in Contents /\ gc.orphaned[a] \in Nat
      BY <2>1, TypesOf DEF IInv, Scans, Times
    <3> QED
      BY <1>1, <1>2, <1>3, <2>1, <3>1 DEF IInv, ScanKnows
  <2> QED
    BY <2>1 DEF ScanKnows
<1>10. Releasing'
  BY <1>1, <1>2, <1>3, <1>4 DEF IInv, Releasing
<1> QED
  BY <1>5, <1>6, <1>7, <1>8, <1>9, <1>10 DEF IInv

LEMMA LookStep ==
    ASSUME IInv, TypeOK', NEW o \in Owners, NEW a \in Contents, Look(o, a)
    PROVE  IInv'
<1>1. Storing'
  <2>1. ASSUME NEW p \in Owners, store'[p] # Idle
        PROVE  /\ store'[p].pc = "written" => store'[p].asset \in file
               /\ store'[p].active => row[store'[p].asset].status = "ACTIVE"
               /\ store'[p].reuse => store'[p].active
    <3>1. CASE p = o
      <4>1. store'[o] = [pc |-> IF Usable(a) THEN "written" ELSE "looked", asset |-> a,
                         active |-> row[a].status = "ACTIVE", marked |-> row[a].orphaned # 0,
                         reuse |-> Usable(a)]
        BY DEF Look, IInv, TypeOK
      <4>2. /\ store'[o].pc = "written" => Usable(a)
            /\ store'[o].asset = a
            /\ store'[o].active => row[a].status = "ACTIVE"
            /\ store'[o].reuse => Usable(a)
            /\ row[a].status = "ACTIVE" => store'[o].active
        <5> DEFINE u == Usable(a)
                   e == row[a].status = "ACTIVE"
                   m == row[a].orphaned # 0
        <5>1. u \in BOOLEAN /\ e \in BOOLEAN /\ m \in BOOLEAN
          BY DEF Usable
        <5>2. store'[o] = [pc |-> IF u THEN "written" ELSE "looked", asset |-> a, active |-> e,
                           marked |-> m, reuse |-> u]
          BY <4>1
        <5> HIDE DEF u, e, m
        <5>3. /\ store'[o].pc = "written" => u
              /\ store'[o].asset = a /\ store'[o].active = e /\ store'[o].reuse = u
          BY <5>1, <5>2
        <5> QED
          BY <5>3 DEF u, e
      <4> QED
        BY <3>1, <4>2 DEF Usable
    <3>2. CASE p # o
      BY <2>1, <3>2 DEF Look, IInv, Storing, TypeOK
    <3> QED
      BY <3>1, <3>2
  <2> QED
    BY <2>1 DEF Look, Storing
<1> QED
  BY <1>1, QuietStep DEF Look

LEMMA WriteBlobStep ==
    ASSUME IInv, TypeOK', NEW o \in Owners, WriteBlob(o)
    PROVE  IInv'
<1>1. store[o] # Idle /\ store[o] \in Stores
  BY TypesOf DEF WriteBlob, Idle, IInv
<1>2. store' = [store EXCEPT ![o] = [store[o] EXCEPT !.pc = "written"]]
  BY DEF WriteBlob, IInv, TypeOK
<1>3. /\ store'[o].asset = store[o].asset /\ store'[o].active = store[o].active
      /\ store'[o].reuse = store[o].reuse
      /\ \A p \in Owners : p # o => store'[p] = store[p]
  BY <1>1, <1>2 DEF Stores, IInv, TypeOK
<1>4. Storing'
  BY <1>1, <1>3 DEF WriteBlob, IInv, Storing
<1> QED
  BY <1>4, QuietStep DEF WriteBlob

\* A store that fails, an owner that vanishes, time that goes by.
LEMMA IdleStep ==
    ASSUME IInv, TypeOK', (\E o \in Owners : StoreFails(o) \/ DropOwner(o)) \/ Tick
    PROVE  IInv'
<1>1. \A o \in Owners : store'[o] = store[o] \/ store'[o] = Idle
  BY DEF StoreFails, DropOwner, Tick, IInv, TypeOK
<1>2. UNCHANGED <<row, file, ref, gc, reader, writer>> /\ History
  BY DEF StoreFails, DropOwner, Tick
<1>3. Storing'
  BY <1>1, <1>2 DEF IInv, Storing
<1>4. time' = time \/ time' = time + 1
  BY DEF StoreFails, DropOwner, Tick
<1> QED
  BY <1>2, <1>3, <1>4, QuietStep

LEMMA ReleaseStep ==
    ASSUME IInv, TypeOK', NEW o \in Owners, ReleaseOf(o), ~writer,
           UNCHANGED <<time, file, store, gc, reader, writer>>, History
    PROVE  IInv'
<1>1. CASE ~ref[o].live
  <2>1. UNCHANGED <<row, ref>>
    BY <1>1 DEF ReleaseOf
  <2>2. Storing'
    BY <2>1 DEF IInv, Storing
  <2> QED
    BY <2>1, <2>2, QuietStep
<1>2. CASE ref[o].live
  <2>1. ref[o] \in References /\ ref[o].asset \in Contents /\ ref[o] # NoReference
    BY <1>2, TypesOf, ReferencesExist DEF IInv, References
  <2>b. PICK b \in Contents : b = ref[o].asset
    BY <2>1
  <2>2. PICK refs : /\ refs = [ref EXCEPT ![o] = Released(ref[o], time)]
                    /\ ref' = refs /\ row' = Orphaned(row, {b}, refs)
    BY <1>2, <2>b DEF ReleaseOf
  <2>3. ref'[o] = Released(ref[o], time) /\ \A p \in Owners : p # o => ref'[p] = ref[p]
    BY <2>2 DEF IInv, TypeOK
  <2>4. /\ ~ref'[o].live /\ ref'[o].asset = b /\ ref'[o].graceUntil = time + Grace
        /\ ref'[o] # NoReference
    <3>1. Released(ref[o], time) \in References
      BY <2>1, ReleasedType DEF IInv, TypeOK
    <3> QED
      BY <2>1, <2>b, <2>3, <3>1, ReferencesExist DEF Released, References
  <2>5. \A a \in Contents : /\ row'[a].status = row[a].status
                            /\ a # b => row'[a] = row[a]
                            /\ row[b].status = "ACTIVE" /\ ~Live(b)' => row'[b].orphaned = time
    <3>1. row \in [Contents -> [status : Statuses, orphaned : Times, created : Times]]
      BY DEF IInv, TypeOK
    <3>2. ~Live(b)' => \A p \in Owners : ref'[p].live => ref'[p].asset # b
      BY DEF Live
    <3>3. ASSUME NEW a \in Contents
          PROVE  /\ Orphaned(row, {b}, refs)[a].status = row[a].status
                 /\ a \in {b} /\ row[a].status = "ACTIVE"
                      /\ (\A p \in Owners : refs[p].live => refs[p].asset # a) =>
                        Orphaned(row, {b}, refs)[a].orphaned = time
                 /\ a \notin {b} => Orphaned(row, {b}, refs)[a] = row[a]
      BY <3>1 DEF Orphaned
    <3> QED
      BY <2>2, <3>2, <3>3
  <2>6. \A a \in Contents : /\ Live(a)' => Live(a)
                            /\ Live(a) => Live(a)' \/ a = b
    BY <2>b, <2>3, <2>4 DEF Live
  <2>7. \A a \in Contents : /\ until'[a] \in Nat /\ until'[a] <= time
                            /\ ~InUse(a) => until'[a] <= until[a]
                            /\ InUse(a) => Live(a)
    BY HistoryOf DEF IInv
  <2>8. /\ time \in Nat /\ Grace \in Nat \ {0} /\ (gc # Idle => gc.now \in Nat)
        /\ \A a \in Contents : until[a] \in Nat /\ row[a].orphaned \in Nat
    BY TypesOf DEF IInv
  <2>9. Clock'
    BY <2>7, <2>8 DEF IInv, Clock
  <2>10. EvidenceReadable'
    <3>1. \A p \in Owners : ref'[p].live => ref[p].live /\ ref'[p].asset = ref[p].asset
                                            /\ ref[p].asset \in Contents
      BY <2>b, <2>3, <2>4, TypesOf DEF IInv, References
    <3> QED
      BY <2>5, <3>1 DEF IInv, EvidenceReadable, Usable
  <2>11. Storing'
    <3>1. \A p \in Owners : store[p] # Idle => store[p].asset \in Contents
      BY TypesOf DEF IInv, Stores
    <3> QED
      BY <2>5, <3>1 DEF IInv, Storing
  <2>12. Doomed'
    <3>1. ASSUME gc # Idle, NEW a \in gc.next \cup gc.dirty
          PROVE  ~Live(a)' /\ until'[a] + Grace <= gc.now
      <4>1. a \in Contents /\ ~Live(a) /\ until[a] + Grace <= gc.now
        BY <3>1, TypesOf DEF IInv, Scans, Doomed
      <4> QED
        BY <2>6, <2>7, <2>8, <3>1, <4>1
    <3>2. reader # Idle => reader.asset \in Contents /\ ~Live(reader.asset)
      BY DEF IInv, TypeOK, Doomed
    <3> QED
      BY <2>6, <3>1, <3>2 DEF Doomed
  <2>13. OrphansKnown'
    <3>1. ASSUME NEW a \in Contents, row'[a].status = "ACTIVE", ~Live(a)'
          PROVE  row'[a].orphaned # 0 /\ until'[a] <= row'[a].orphaned
      <4>1. CASE a = b
        BY <2>5, <2>7, <2>8, <3>1, <4>1 DEF IInv, Clock
      <4>2. CASE a # b
        BY <2>5, <2>6, <2>7, <2>8, <3>1, <4>2 DEF IInv, OrphansKnown
      <4> QED
        BY <4>1, <4>2
    <3> QED
      BY <3>1 DEF OrphansKnown
  <2>14. ScanKnows'
    <3>1. ASSUME gc # Idle, NEW a \in gc.todo
          PROVE  \/ Live(a)'
                 \/ GracedBy(a)' # {}
                 \/ gc.orphaned[a] # 0 /\ until'[a] <= gc.orphaned[a]
      <4>1. a \in Contents /\ gc.orphaned[a] \in Nat
        BY <3>1, TypesOf DEF IInv, Scans, Times
      <4>2. CASE Live(a)
        <5>1. a = b => o \in GracedBy(a)'
          BY <2>4, <2>8, <3>1 DEF GracedBy, HasReference, IInv, Clock
        <5> QED
          BY <2>6, <4>1, <4>2, <5>1
      <4>3. CASE ~Live(a)
        <5>1. o \notin GracedBy(a) /\ GracedBy(a) \subseteq GracedBy(a)'
          BY <1>2, <2>b, <2>3, <4>3 DEF GracedBy, HasReference, Live
        <5> QED
          BY <2>7, <2>8, <3>1, <4>1, <4>3, <5>1 DEF IInv, ScanKnows
      <4> QED
        BY <4>2, <4>3
    <3> QED
      BY <3>1 DEF ScanKnows
  <2>15. Releasing'
    BY DEF IInv, Releasing
  <2> QED
    BY <2>9, <2>10, <2>11, <2>12, <2>13, <2>14, <2>15 DEF IInv
<1> QED
  BY <1>1, <1>2

\* Whatever the store has seen, the row it writes is active.
LEMMA StoredActive ==
    ASSUME TypeOK, NEW o \in Owners, store[o] # Idle,
           store[o].active => row[store[o].asset].status = "ACTIVE",
           store[o].reuse => store[o].active
    PROVE  StoredRow(o).status = "ACTIVE"
<1>1. /\ store[o].asset \in Contents
      /\ store[o].active \in BOOLEAN /\ store[o].marked \in BOOLEAN /\ store[o].reuse \in BOOLEAN
  BY TypesOf DEF Stores
<1>2. PICK r \in [status : Statuses, orphaned : Times, created : Times] : r = row[store[o].asset]
  BY <1>1, TypesOf
<1>3. StoredRow(o) =
        CASE store[o].reuse -> [r EXCEPT !.orphaned = IF store[o].marked THEN 0 ELSE @]
          [] ~store[o].reuse /\ store[o].active -> [r EXCEPT !.orphaned = 0]
          [] ~store[o].reuse /\ r.status = "none" ->
               [status |-> "ACTIVE", orphaned |-> 0, created |-> time]
          [] OTHER -> [r EXCEPT !.status = "ACTIVE", !.orphaned = 0]
  BY <1>2, Zenon DEF StoredRow
<1>4. CASE store[o].reuse
  <2>1. r.status = "ACTIVE"
    BY <1>2, <1>4
  <2>2. StoredRow(o) = [r EXCEPT !.orphaned = IF store[o].marked THEN 0 ELSE @]
    BY <1>3, <1>4
  <2> QED
    BY <2>1, <2>2
<1>5. CASE ~store[o].reuse /\ store[o].active
  <2>1. r.status = "ACTIVE"
    BY <1>2, <1>5
  <2>2. StoredRow(o) = [r EXCEPT !.orphaned = 0]
    BY <1>3, <1>5, <2>1
  <2> QED
    BY <2>1, <2>2
<1>6. CASE ~store[o].reuse /\ ~store[o].active
  <2>1. CASE r.status = "none"
    <3>1. StoredRow(o) = [status |-> "ACTIVE", orphaned |-> 0, created |-> time]
      BY <1>3, <1>6, <2>1
    <3> QED
      BY <3>1
  <2>2. CASE r.status # "none"
    <3>1. StoredRow(o) = [r EXCEPT !.status = "ACTIVE", !.orphaned = 0]
      BY <1>3, <1>6, <2>2
    <3> QED
      BY <1>2, <3>1
  <2> QED
    BY <2>1, <2>2
<1> QED
  BY <1>4, <1>5, <1>6

\* A store makes its content active again, and marks what its owner gives up.
LEMMA AttachStep ==
    ASSUME IInv, TypeOK', NoOverlap, NEW o \in Owners, Attach(o)
    PROVE  IInv'
<1>1. /\ store[o].pc = "written" /\ store[o] # Idle /\ store[o] \in Stores /\ ~writer
      /\ UNCHANGED <<time, file, gc, reader, writer>> /\ History
  BY TypesOf DEF Attach, Idle, IInv
<1>2. PICK a \in Contents : a = store[o].asset
  BY <1>1 DEF Stores
<1>3. PICK before : /\ before = IF HasReference(o) THEN {ref[o].asset} \ {a} ELSE {}
  OBVIOUS
<1>4. PICK refs, rows :
         /\ refs = [ref EXCEPT ![o] = [asset |-> a, live |-> TRUE, graceUntil |-> 0,
                                       expires |-> IF o \in Pinned THEN 0 ELSE time + Lifetime]]
         /\ rows = [row EXCEPT ![a] = StoredRow(o)]
         /\ ref' = refs /\ row' = Orphaned(rows, before, refs)
         /\ store' = [store EXCEPT ![o] = Idle]
  BY <1>2, <1>3 DEF Attach
<1>5. /\ ref'[o].live /\ ref'[o].asset = a
      /\ \A p \in Owners : p # o => ref'[p] = ref[p] /\ store'[p] = store[p]
      /\ store'[o] = Idle
  BY <1>4 DEF IInv, TypeOK
<1>6. StoredRow(o).status = "ACTIVE"
  BY <1>1, StoredActive DEF IInv, Storing
<1>7. /\ row'[a].status = "ACTIVE"
      /\ \A x \in Contents : x # a => row'[x].status = row[x].status
      /\ \A x \in Contents : x # a /\ x \notin before => row'[x] = row[x]
      /\ \A x \in Contents : x \in before /\ row[x].status = "ACTIVE"
             /\ (\A p \in Owners : refs[p].live => refs[p].asset # x) => row'[x].orphaned = time
  <2>1. \A x \in Contents : rows[x] = IF x = a THEN StoredRow(o) ELSE row[x]
    BY <1>4 DEF IInv, TypeOK
  <2>2. a \notin before
    BY <1>3
  <2>3. ASSUME NEW x \in Contents
        PROVE  row'[x] = IF /\ x \in before /\ rows[x].status = "ACTIVE"
                            /\ ~\E p \in Owners : refs[p].live /\ refs[p].asset = x
                         THEN [rows[x] EXCEPT !.orphaned = time] ELSE rows[x]
    BY <1>4 DEF Orphaned
  <2>4. \A x \in Contents : row[x] \in [status : Statuses, orphaned : Times, created : Times]
    BY TypesOf DEF IInv
  <2>5. row'[a] = StoredRow(o)
    BY <2>1, <2>2, <2>3
  <2>6. ASSUME NEW x \in Contents, x # a
        PROVE  /\ row'[x].status = row[x].status
               /\ x \notin before => row'[x] = row[x]
               /\ x \in before /\ row[x].status = "ACTIVE"
                     /\ (\A p \in Owners : refs[p].live => refs[p].asset # x) =>
                       row'[x].orphaned = time
    <3>1. rows[x] = row[x]
      BY <2>1, <2>6
    <3>2. /\ [row[x] EXCEPT !.orphaned = time].status = row[x].status
          /\ [row[x] EXCEPT !.orphaned = time].orphaned = time
      BY <2>4
    <3> QED
      BY <2>3, <3>1, <3>2
  <2> QED
    BY <1>6, <2>2, <2>5, <2>6
<1>8. /\ Live(a)'
      /\ \A x \in Contents : /\ Live(x)' => Live(x) \/ x = a
                             /\ Live(x) => Live(x)' \/ x \in before
                             /\ ~Live(x)' => \A p \in Owners : refs[p].live => refs[p].asset # x
  <2>1. \A p \in Owners : ref[p].live => HasReference(p)
    BY TypesOf DEF IInv
  <2> QED
    BY <1>3, <1>4, <1>5, <2>1 DEF Live
<1>9. /\ gc # Idle => a \notin gc.todo \cup gc.next \cup gc.dirty
      /\ gc # Idle => before \cap (gc.todo \cup gc.next \cup gc.dirty) = {}
      /\ gc # Idle /\ HasReference(o) => ref[o].asset \notin gc.todo \cup gc.next \cup gc.dirty
      /\ reader # Idle => reader.asset # a
  BY <1>1, <1>2, <1>3 DEF NoOverlap, Concerned
<1>10. \A x \in Contents : /\ until'[x] \in Nat /\ until'[x] <= time
                           /\ ~InUse(x) => until'[x] <= until[x]
                           /\ InUse(x) => Live(x)
  BY <1>1, HistoryOf DEF IInv
<1>11. /\ time \in Nat /\ Grace \in Nat \ {0} /\ (gc # Idle => gc.now \in Nat)
       /\ \A x \in Contents : until[x] \in Nat /\ row[x].orphaned \in Nat
  BY TypesOf DEF IInv
<1>12. Clock'
  BY <1>1, <1>10, <1>11 DEF IInv, Clock
<1>13. EvidenceReadable'
  <2>1. a \in file
    BY <1>1, <1>2 DEF IInv, Storing
  <2>2. \A p \in Owners : ref[p].live => ref[p].asset \in Contents
    BY TypesOf DEF IInv, References
  <2> QED
    BY <1>1, <1>5, <1>7, <2>1, <2>2 DEF IInv, EvidenceReadable, Usable
<1>14. Storing'
  <2>1. \A p \in Owners : store[p] # Idle => store[p].asset \in Contents
    BY TypesOf DEF IInv, Stores
  <2> QED
    BY <1>1, <1>5, <1>7, <2>1 DEF IInv, Storing
<1>15. Doomed'
  <2>1. ASSUME gc # Idle, NEW x \in gc.next \cup gc.dirty
        PROVE  ~Live(x)' /\ until'[x] + Grace <= gc.now
    <3>1. x \in Contents /\ ~Live(x) /\ until[x] + Grace <= gc.now
      BY <2>1, TypesOf DEF IInv, Scans, Doomed
    <3> QED
      BY <1>8, <1>9, <1>10, <1>11, <2>1, <3>1
  <2>2. reader # Idle => reader.asset \in Contents /\ ~Live(reader.asset)
    BY DEF IInv, TypeOK, Doomed
  <2> QED
    BY <1>1, <1>8, <1>9, <2>1, <2>2 DEF Doomed
<1>16. OrphansKnown'
  <2>1. ASSUME NEW x \in Contents, row'[x].status = "ACTIVE", ~Live(x)'
        PROVE  row'[x].orphaned # 0 /\ until'[x] <= row'[x].orphaned
    <3>1. x # a
      BY <1>8, <2>1
    <3>2. CASE x \in before
      <4>1. row'[x].orphaned = time /\ time # 0
        BY <1>7, <1>8, <2>1, <3>1, <3>2 DEF IInv, Clock
      <4> QED
        BY <1>10, <4>1
    <3>3. CASE x \notin before
      BY <1>7, <1>8, <1>10, <1>11, <2>1, <3>1, <3>3 DEF IInv, OrphansKnown
    <3> QED
      BY <3>2, <3>3
  <2> QED
    BY <2>1 DEF OrphansKnown
<1>17. ScanKnows'
  <2>1. ASSUME gc # Idle, NEW x \in gc.todo
        PROVE  \/ Live(x)'
               \/ GracedBy(x)' # {}
               \/ gc.orphaned[x] # 0 /\ until'[x] <= gc.orphaned[x]
    <3>1. x \in Contents /\ gc.orphaned[x] \in Nat
      BY <2>1, TypesOf DEF IInv, Scans, Times
    <3>2. Live(x) => Live(x)'
      BY <1>8, <1>9, <2>1, <3>1
    <3>3. GracedBy(x) \subseteq GracedBy(x)'
      BY <1>1, <1>5, <1>9, <2>1 DEF GracedBy, HasReference
    <3> QED
      BY <1>10, <1>11, <2>1, <3>1, <3>2, <3>3 DEF IInv, ScanKnows
  <2> QED
    BY <1>1, <2>1 DEF ScanKnows
<1>18. Releasing'
  BY <1>1 DEF IInv, Releasing
<1> QED
  BY <1>12, <1>13, <1>14, <1>15, <1>16, <1>17, <1>18 DEF IInv

\* A step of the collector or of a reader that leaves the rows and the references alone.
LEMMA RowsKept ==
    ASSUME IInv, TypeOK', UNCHANGED <<time, row, ref>>, History,
           gc' # Idle => gc'.now # 0 /\ gc'.now <= time
    PROVE  /\ Clock' /\ OrphansKnown'
           /\ \A a \in Contents : /\ Live(a)' <=> Live(a)
                                  /\ until'[a] \in Nat /\ until'[a] <= time
                                  /\ until[a] \in Nat
                                  /\ ~Live(a) => until'[a] <= until[a]
           /\ time \in Nat /\ Grace \in Nat \ {0}
<1>1. \A a \in Contents : /\ until'[a] \in Nat /\ until'[a] <= time
                          /\ ~InUse(a) => until'[a] <= until[a]
                          /\ InUse(a) => Live(a)
  BY HistoryOf DEF IInv
<1>2. /\ time \in Nat /\ Grace \in Nat \ {0}
      /\ \A a \in Contents : until[a] \in Nat /\ row[a].orphaned \in Nat
  BY TypesOf DEF IInv
<1>3. \A a \in Contents : Live(a)' <=> Live(a)
  BY DEF Live
<1>4. Clock'
  BY <1>1, <1>2 DEF IInv, Clock
<1>5. OrphansKnown'
  BY <1>1, <1>2, <1>3 DEF IInv, OrphansKnown
<1> QED
  BY <1>1, <1>2, <1>3, <1>4, <1>5

LEMMA StartGcStep ==
    ASSUME IInv, TypeOK', StartGc
    PROVE  IInv'
<1>1. /\ gc = Idle /\ UNCHANGED <<time, row, file, ref, alive, store, reader>> /\ History
      /\ gc' = [pc |-> "scan", now |-> time, next |-> {}, dirty |-> {}, expired |-> Ended(time),
                todo |-> {a \in Contents : row[a].status = "ACTIVE"}
                            \ {ref[o].asset : o \in Ended(time)},
                orphaned |-> [a \in Contents |-> IF row[a].status = "ACTIVE" THEN row[a].orphaned ELSE 0]]
      /\ writer' = (Ended(time) # {})
  BY DEF StartGc
<1>2. /\ gc'.now = time /\ gc'.next = {} /\ gc'.dirty = {} /\ gc'.expired = Ended(time)
      /\ \A a \in gc'.todo : /\ a \in Contents /\ row[a].status = "ACTIVE"
                             /\ gc'.orphaned[a] = row[a].orphaned
  BY <1>1
<1>3. gc' # Idle => gc'.now # 0 /\ gc'.now <= time
  BY <1>2, TypesOf DEF IInv, Clock
<1>4. /\ Clock' /\ OrphansKnown'
      /\ \A a \in Contents : /\ Live(a)' <=> Live(a)
                             /\ until'[a] \in Nat /\ until'[a] <= time
                             /\ until[a] \in Nat
                             /\ ~Live(a) => until'[a] <= until[a]
  BY <1>1, <1>3, RowsKept
<1>5. EvidenceReadable' /\ Storing'
  BY <1>1 DEF IInv, EvidenceReadable, Usable, Storing
<1>6. Doomed'
  <2>1. reader # Idle => reader.asset \in Contents /\ ~Live(reader.asset)
    BY DEF IInv, TypeOK, Doomed
  <2> QED
    BY <1>1, <1>2, <1>4, <2>1 DEF Doomed
<1>7. ScanKnows'
  <2>1. ASSUME NEW a \in gc'.todo
        PROVE  Live(a)' \/ (gc'.orphaned[a] # 0 /\ until'[a] <= gc'.orphaned[a])
    <3>1. row[a].orphaned \in Nat
      BY <1>2, <2>1, TypesOf DEF IInv
    <3> QED
      BY <1>2, <1>4, <2>1, <3>1 DEF IInv, OrphansKnown
  <2> QED
    BY <2>1 DEF ScanKnows
<1>8. Releasing'
  <2>1. \A o \in Ended(time) : ref[o].live
    BY DEF Ended
  <2> QED
    BY <1>1, <1>2, <1>4, <2>1 DEF Releasing
<1> QED
  BY <1>4, <1>5, <1>6, <1>7, <1>8 DEF IInv

\* What the collector knows of its candidates stays true from one to the next.
LEMMA ScanGoesOn ==
    ASSUME IInv, TypeOK', UNCHANGED <<time, row, ref>>, History, gc # Idle, gc' # Idle,
           gc'.now = gc.now, gc'.expired = gc.expired, gc'.orphaned = gc.orphaned,
           gc'.todo \subseteq gc.todo, writer => writer'
    PROVE  ScanKnows' /\ Releasing'
<1>1. gc \in Scans /\ (gc' # Idle => gc'.now # 0 /\ gc'.now <= time)
  BY TypesOf DEF IInv, Clock
<1>2. \A x \in Contents : /\ Live(x)' <=> Live(x)
                          /\ until'[x] \in Nat /\ until[x] \in Nat
                          /\ ~Live(x) => until'[x] <= until[x]
  BY <1>1, RowsKept
<1>3. ScanKnows'
  <2>1. ASSUME NEW x \in gc'.todo
        PROVE  \/ Live(x)'
               \/ GracedBy(x)' # {}
               \/ gc'.orphaned[x] # 0 /\ until'[x] <= gc'.orphaned[x]
    <3>1. x \in Contents /\ x \in gc.todo /\ gc.orphaned[x] \in Nat
      BY <1>1, <2>1 DEF Scans, Times
    <3>2. GracedBy(x)' = GracedBy(x)
      BY DEF GracedBy, HasReference
    <3> QED
      BY <1>2, <3>1, <3>2 DEF IInv, ScanKnows
  <2> QED
    BY <2>1 DEF ScanKnows
<1>4. Releasing'
  <2>1. ASSUME gc.expired # {}
        PROVE  /\ writer' /\ (\A o \in gc.expired : ref[o].live)
               /\ \A x \in Contents : InUse(x)' \/ until'[x] <= gc.now
    <3>1. /\ writer /\ \A o \in gc.expired : ref[o].live
          /\ \A x \in Contents : InUse(x) \/ until[x] <= gc.now
      BY <2>1 DEF IInv, Releasing
    <3>2. \A x \in Contents : InUse(x) => InUse(x)'
      BY DEF InUse
    <3>3. gc.now \in Nat
      BY <1>1 DEF Scans, Times
    <3>4. \A x \in Contents : ~InUse(x) => until'[x] <= until[x]
      BY HistoryOf DEF IInv
    <3> QED
      BY <1>2, <3>1, <3>2, <3>3, <3>4
  <2> QED
    BY <2>1 DEF Releasing
<1> QED
  BY <1>3, <1>4

LEMMA CheckStep ==
    ASSUME IInv, TypeOK', NEW a \in Contents, Check(a)
    PROVE  IInv'
<1>1. /\ gc.pc = "scan" /\ gc # Idle /\ gc \in Scans /\ a \in gc.todo
      /\ UNCHANGED <<time, row, file, ref, alive, store, reader>> /\ History
      /\ writer' = (writer \/ gc.dirty # {})
  BY TypesOf DEF Check, Idle, IInv
<1>2. /\ gc'.now = gc.now /\ gc'.dirty = gc.dirty /\ gc'.expired = gc.expired
      /\ gc'.orphaned = gc.orphaned /\ gc'.todo = gc.todo \ {a}
      /\ gc'.next \subseteq gc.next \cup {a}
      /\ a \in gc'.next => Collectable(a) \/ a \in gc.next
  <2>1. CASE Collectable(a)
    <3>1. gc' = [gc EXCEPT !.pc = "unlink", !.next = {a}, !.todo = gc.todo \ {a}]
      BY <2>1 DEF Check
    <3> QED
      BY <1>1, <2>1, <3>1 DEF Scans
  <2>2. CASE ~Collectable(a)
    <3>1. gc' = [gc EXCEPT !.todo = gc.todo \ {a}]
      BY <2>2 DEF Check
    <3> QED
      BY <1>1, <3>1 DEF Scans
  <2> QED
    BY <2>1, <2>2
<1>3. gc' # Idle => gc'.now # 0 /\ gc'.now <= time
  BY <1>1, <1>2 DEF IInv, Clock
<1>4. /\ Clock' /\ OrphansKnown'
      /\ \A x \in Contents : /\ Live(x)' <=> Live(x)
                             /\ until'[x] \in Nat /\ until'[x] <= time
                             /\ until[x] \in Nat
                             /\ ~Live(x) => until'[x] <= until[x]
      /\ Grace \in Nat \ {0}
  BY <1>1, <1>3, RowsKept
<1>5. EvidenceReadable' /\ Storing'
  BY <1>1 DEF IInv, EvidenceReadable, Usable, Storing
<1>6. Collectable(a) => ~Live(a) /\ until[a] + Grace <= gc.now
  <2>1. ASSUME Collectable(a)
        PROVE  ~Live(a) /\ until[a] + Grace <= gc.now
    <3>1. GracedBy(a) = {}
      <4>1. \A o \in Owners : HasReference(o) => ref[o].graceUntil \in Nat
        BY TypesOf DEF IInv, References
      <4> QED
        BY <1>1, <2>1, <4>1, TypesOf DEF Collectable, GracedBy, IInv
    <3>2. ~Live(a)
      BY <2>1 DEF Collectable
    <3>3. gc.orphaned[a] # 0 /\ until[a] <= gc.orphaned[a]
      BY <1>1, <3>1, <3>2 DEF IInv, ScanKnows
    <3>4. gc.orphaned[a] \in Nat /\ gc.now \in Nat
      BY <1>1 DEF Scans, Times
    <3>5. gc.orphaned[a] + Grace <= gc.now
      BY <2>1, <3>3 DEF Collectable, OrphanedSince
    <3> QED
      BY <1>4, <3>2, <3>3, <3>4, <3>5
  <2> QED
    BY <2>1
<1>7. Doomed'
  <2>1. ASSUME NEW x \in gc'.next \cup gc'.dirty
        PROVE  ~Live(x)' /\ until'[x] + Grace <= gc.now
    <3>1. x \in Contents /\ gc.now \in Nat
      BY <1>1, <1>2, <2>1 DEF Scans, Times
    <3>2. ~Live(x) /\ until[x] + Grace <= gc.now
      BY <1>1, <1>2, <1>6, <2>1 DEF IInv, Doomed
    <3> QED
      BY <1>4, <3>1, <3>2
  <2>2. reader # Idle => reader.asset \in Contents /\ ~Live(reader.asset)
    BY DEF IInv, TypeOK, Doomed
  <2> QED
    BY <1>1, <1>2, <1>4, <2>1, <2>2 DEF Doomed
<1>8. ScanKnows' /\ Releasing'
  <2>1. gc' # Idle
    <3>1. gc'.pc \in {"scan", "unlink"}
      BY <1>1 DEF Check, Scans
    <3> QED
      BY <3>1 DEF Idle
  <2> QED
    BY <1>1, <1>2, <2>1, ScanGoesOn
<1> QED
  BY <1>4, <1>5, <1>7, <1>8 DEF IInv

\* The file that goes is nobody's, and no store counts on it.
LEMMA UnlinkStep ==
    ASSUME IInv, TypeOK', NoOverlap, Unlink
    PROVE  IInv'
<1>1. /\ gc.pc = "unlink" /\ gc # Idle /\ gc \in Scans
      /\ file' = file \ gc.next
      /\ UNCHANGED <<time, row, ref, alive, store, reader, writer>> /\ History
  BY TypesOf DEF Unlink, Idle, IInv
<1>2. /\ gc'.now = gc.now /\ gc'.dirty = gc.dirty \cup gc.next /\ gc'.expired = gc.expired
      /\ gc'.orphaned = gc.orphaned /\ gc'.todo = gc.todo /\ gc'.next = {}
  <2>1. gc' = [gc EXCEPT !.pc = "scan", !.next = {}, !.dirty = gc.dirty \cup gc.next]
    BY DEF Unlink
  <2> QED
    BY <1>1, <2>1 DEF Scans
<1>3. gc' # Idle => gc'.now # 0 /\ gc'.now <= time
  BY <1>1, <1>2 DEF IInv, Clock
<1>4. /\ Clock' /\ OrphansKnown'
      /\ \A x \in Contents : /\ Live(x)' <=> Live(x)
                             /\ until'[x] \in Nat /\ until'[x] <= time
                             /\ until[x] \in Nat
                             /\ ~Live(x) => until'[x] <= until[x]
      /\ Grace \in Nat \ {0}
  BY <1>1, <1>3, RowsKept
<1>5. EvidenceReadable'
  <2>1. \A o \in Owners : ref[o].live => ref[o].asset \in Contents /\ Live(ref[o].asset)
    BY TypesOf DEF IInv, References, Live
  <2>2. \A a \in gc.next : ~Live(a)
    BY <1>1 DEF IInv, Doomed
  <2> QED
    BY <1>1, <2>1, <2>2 DEF IInv, EvidenceReadable, Usable
<1>6. Storing'
  <2>1. \A o \in Owners : store[o] # Idle => store[o].asset \notin gc.next
    BY <1>1 DEF NoOverlap, Concerned
  <2> QED
    BY <1>1, <2>1 DEF IInv, Storing
<1>7. Doomed'
  <2>1. ASSUME NEW x \in gc'.next \cup gc'.dirty
        PROVE  ~Live(x)' /\ until'[x] + Grace <= gc.now
    <3>1. x \in Contents /\ gc.now \in Nat
      BY <1>1, <1>2, <2>1 DEF Scans, Times
    <3>2. ~Live(x) /\ until[x] + Grace <= gc.now
      BY <1>1, <1>2, <2>1 DEF IInv, Doomed
    <3> QED
      BY <1>4, <3>1, <3>2
  <2>2. reader # Idle => reader.asset \in Contents /\ ~Live(reader.asset)
    BY DEF IInv, TypeOK, Doomed
  <2> QED
    BY <1>1, <1>2, <1>4, <2>1, <2>2 DEF Doomed
<1>8. ScanKnows' /\ Releasing'
  <2>1. gc' # Idle
    BY <1>1, <1>2 DEF Unlink, Scans, Idle
  <2> QED
    BY <1>1, <1>2, <2>1, ScanGoesOn
<1> QED
  BY <1>4, <1>5, <1>6, <1>7, <1>8 DEF IInv

\* What was deleted is not in use, and what was released is an orphan since the start.
LEMMA CommitGcStep ==
    ASSUME IInv, TypeOK', NoOverlap, CommitGc
    PROVE  IInv'
<1>1. /\ gc.pc = "scan" /\ gc # Idle /\ gc \in Scans /\ gc.now \in Nat /\ gc' = Idle
      /\ UNCHANGED <<time, file, alive, store, reader>> /\ History
  BY TypesOf DEF CommitGc, Committed, Idle, IInv
<1>2. \A o \in gc.expired : o \in Owners /\ ref[o].live /\ ref[o] \in References
  BY <1>1, TypesOf DEF IInv, Releasing, Scans
<1>3. PICK refs, marked :
         /\ refs = [o \in Owners |-> IF o \in gc.expired THEN Released(ref[o], gc.now) ELSE ref[o]]
         /\ marked = [a \in Contents |->
                        IF /\ \E o \in gc.expired : ref[o].asset = a
                           /\ row[a].status = "ACTIVE"
                           /\ ~\E o \in Owners : refs[o].live /\ refs[o].asset = a
                        THEN [row[a] EXCEPT !.orphaned = gc.now] ELSE row[a]]
         /\ ref' = refs /\ row' = Deleted(marked)
  BY DEF CommitGc
<1>4. \A o \in Owners : /\ o \in gc.expired => ~ref'[o].live
                        /\ o \notin gc.expired => ref'[o] = ref[o]
  BY <1>2, <1>3 DEF Released, References
<1>5. \A a \in Contents : /\ Live(a)' => Live(a)
                          /\ Live(a) /\ ~Live(a)' => \E o \in gc.expired : ref[o].asset = a
                          /\ ~Live(a)' => ~InUse(a)
  <2>1. ASSUME NEW a \in Contents
        PROVE  /\ Live(a)' => Live(a)
               /\ Live(a) /\ ~Live(a)' => \E o \in gc.expired : ref[o].asset = a
    BY <1>4 DEF Live
  <2>2. ASSUME NEW a \in Contents, ~Live(a)'
        PROVE  ~InUse(a)
    BY <1>1, <1>4, <2>2 DEF Live, InUse
  <2> QED
    BY <2>1, <2>2
<1>6. ASSUME NEW a \in Contents
      PROVE  /\ row'[a].status = IF a \in gc.dirty THEN "DELETED" ELSE row[a].status
             /\ row'[a].orphaned =
                  IF /\ \E o \in gc.expired : ref[o].asset = a
                     /\ row[a].status = "ACTIVE" /\ ~Live(a)'
                  THEN gc.now ELSE row[a].orphaned
  <2>1. row[a] \in [status : Statuses, orphaned : Times, created : Times]
    BY TypesOf DEF IInv
  <2>2. gc.now \in Times
    BY <1>1 DEF Scans
  <2>3. marked[a] = IF /\ \E o \in gc.expired : ref[o].asset = a
                       /\ row[a].status = "ACTIVE" /\ ~Live(a)'
                    THEN [row[a] EXCEPT !.orphaned = gc.now] ELSE row[a]
    BY <1>3 DEF Live
  <2>4. /\ marked[a] \in [status : Statuses, orphaned : Times, created : Times]
        /\ marked[a].status = row[a].status
        /\ marked[a].orphaned =
                  IF /\ \E o \in gc.expired : ref[o].asset = a
                     /\ row[a].status = "ACTIVE" /\ ~Live(a)'
                  THEN gc.now ELSE row[a].orphaned
    BY <2>1, <2>2, <2>3
  <2>5. row'[a] = IF a \in gc.dirty THEN [marked[a] EXCEPT !.status = "DELETED"] ELSE marked[a]
    BY <1>3 DEF Deleted
  <2> QED
    BY <2>4, <2>5
<1>7. \A a \in Contents : /\ until'[a] \in Nat /\ until'[a] <= time
                          /\ ~InUse(a) => until'[a] <= until[a]
  BY <1>1, HistoryOf DEF IInv
<1>8. /\ time \in Nat
      /\ \A a \in Contents : until[a] \in Nat /\ row[a].orphaned \in Nat
  BY TypesOf DEF IInv
<1>9. Clock'
  BY <1>1, <1>7, <1>8 DEF IInv, Clock
<1>10. EvidenceReadable'
  <2>1. ASSUME NEW o \in Owners, ref'[o].live
        PROVE  row'[ref'[o].asset].status = "ACTIVE" /\ ref'[o].asset \in file'
    <3>1. ref'[o] = ref[o] /\ ref[o].live /\ ref[o].asset \in Contents /\ Live(ref[o].asset)
      BY <1>4, <2>1, TypesOf DEF IInv, References, Live
    <3>2. ref[o].asset \notin gc.dirty
      BY <1>1, <3>1 DEF IInv, Doomed
    <3>3. Usable(ref[o].asset)
      BY <3>1 DEF IInv, EvidenceReadable
    <3> QED
      BY <1>1, <1>6, <3>1, <3>2, <3>3 DEF Usable
  <2> QED
    BY <2>1 DEF EvidenceReadable, Usable
<1>11. Storing'
  <2>1. \A o \in Owners : store[o] # Idle => store[o].asset \in Contents /\ store[o].asset \notin gc.dirty
    BY <1>1, TypesOf DEF NoOverlap, Concerned, IInv, Stores
  <2> QED
    BY <1>1, <1>6, <2>1 DEF IInv, Storing
<1>12. Doomed'
  BY <1>1, <1>5 DEF IInv, Doomed, TypeOK
<1>13. OrphansKnown'
  <2>1. ASSUME NEW a \in Contents, row'[a].status = "ACTIVE", ~Live(a)'
        PROVE  row'[a].orphaned # 0 /\ until'[a] <= row'[a].orphaned
    <3>1. row[a].status = "ACTIVE" /\ until'[a] <= until[a]
      BY <1>5, <1>6, <1>7, <2>1
    <3>2. CASE \E o \in gc.expired : ref[o].asset = a
      <4>1. until[a] <= gc.now
        BY <1>1, <1>5, <2>1, <3>2 DEF IInv, Releasing
      <4>2. row'[a].orphaned = gc.now /\ gc.now # 0
        BY <1>1, <1>6, <2>1, <3>1, <3>2 DEF IInv, Clock
      <4> QED
        BY <1>1, <1>7, <1>8, <3>1, <4>1, <4>2
    <3>3. CASE ~\E o \in gc.expired : ref[o].asset = a
      <4>1. ~Live(a) /\ row'[a].orphaned = row[a].orphaned
        BY <1>5, <1>6, <2>1, <3>3
      <4> QED
        BY <1>7, <1>8, <3>1, <4>1 DEF IInv, OrphansKnown
    <3> QED
      BY <3>2, <3>3
  <2> QED
    BY <2>1 DEF OrphansKnown
<1>14. ScanKnows' /\ Releasing'
  BY <1>1 DEF ScanKnows, Releasing
<1> QED
  BY <1>9, <1>10, <1>11, <1>12, <1>13, <1>14 DEF IInv

\* A reader finds no file: nobody refers to the content.
LEMMA FindMissingStep ==
    ASSUME IInv, TypeOK', NEW a \in Contents, FindMissing(a)
    PROVE  IInv'
<1>1. /\ a \notin file /\ reader' = [pc |-> "mark", asset |-> a]
      /\ UNCHANGED <<time, row, file, ref, alive, store, gc, writer>> /\ History
  BY DEF FindMissing
<1>2. gc' # Idle => gc'.now # 0 /\ gc'.now <= time
  BY <1>1 DEF IInv, Clock
<1>3. /\ Clock' /\ OrphansKnown'
      /\ \A x \in Contents : /\ Live(x)' <=> Live(x)
                             /\ until'[x] \in Nat /\ until[x] \in Nat
                             /\ ~Live(x) => until'[x] <= until[x]
      /\ Grace \in Nat \ {0}
  BY <1>1, <1>2, RowsKept
<1>4. EvidenceReadable' /\ Storing'
  BY <1>1 DEF IInv, EvidenceReadable, Usable, Storing
<1>5. Doomed'
  <2>1. ~Live(a) /\ reader'.asset = a
    BY <1>1 DEF IInv, EvidenceReadable, Usable, Live
  <2>2. ASSUME gc # Idle, NEW x \in gc.next \cup gc.dirty
        PROVE  ~Live(x)' /\ until'[x] + Grace <= gc.now
    <3>1. x \in Contents /\ gc.now \in Nat /\ ~Live(x) /\ until[x] + Grace <= gc.now
      BY <2>2, TypesOf DEF IInv, Scans, Doomed
    <3> QED
      BY <1>3, <3>1
  <2> QED
    BY <1>1, <1>3, <2>1, <2>2 DEF Doomed
<1>6. ScanKnows' /\ Releasing'
  <2>1. CASE gc = Idle
    BY <1>1, <2>1 DEF ScanKnows, Releasing
  <2>2. CASE gc # Idle
    BY <1>1, <2>2, ScanGoesOn
  <2> QED
    BY <2>1, <2>2
<1> QED
  BY <1>3, <1>4, <1>5, <1>6 DEF IInv

\* What is marked as missing is nobody's, and no store has counted on it.
LEMMA MarkMissingStep ==
    ASSUME IInv, TypeOK', NoOverlap, MarkMissing
    PROVE  IInv'
<1>1. /\ reader # Idle /\ ~writer /\ reader' = Idle
      /\ UNCHANGED <<time, file, ref, alive, store, gc, writer>> /\ History
  BY DEF MarkMissing
<1>2. PICK b \in Contents : b = reader.asset
  BY <1>1 DEF IInv, TypeOK
<1>3. /\ row'[b].status = "MISSING"
      /\ \A x \in Contents : x # b => row'[x] = row[x]
  <2>1. row' = [row EXCEPT ![b] = [row[b] EXCEPT !.status = "MISSING"]]
    BY <1>2 DEF MarkMissing, IInv, TypeOK
  <2>2. row[b] \in [status : Statuses, orphaned : Times, created : Times]
    BY TypesOf DEF IInv
  <2> QED
    BY <2>1, <2>2 DEF IInv, TypeOK
<1>4. ~Live(b)
  BY <1>1, <1>2 DEF IInv, Doomed
<1>5. \A x \in Contents : /\ until'[x] \in Nat /\ until'[x] <= time
                          /\ ~InUse(x) => until'[x] <= until[x]
                          /\ InUse(x) => Live(x)
                          /\ Live(x)' <=> Live(x)
  BY <1>1, HistoryOf DEF IInv, Live
<1>6. /\ time \in Nat /\ Grace \in Nat \ {0} /\ (gc # Idle => gc.now \in Nat)
      /\ \A x \in Contents : until[x] \in Nat /\ row[x].orphaned \in Nat
  BY TypesOf DEF IInv
<1>7. Clock'
  BY <1>1, <1>5, <1>6 DEF IInv, Clock
<1>8. EvidenceReadable'
  <2>1. \A o \in Owners : ref[o].live => ref[o].asset \in Contents /\ ref[o].asset # b
    BY <1>4, TypesOf DEF IInv, References, Live
  <2> QED
    BY <1>1, <1>3, <2>1 DEF IInv, EvidenceReadable, Usable
<1>9. Storing'
  <2>1. \A o \in Owners : store[o] # Idle => store[o].asset \in Contents /\ store[o].asset # b
    BY <1>1, <1>2, TypesOf DEF NoOverlap, IInv, Stores
  <2> QED
    BY <1>1, <1>3, <2>1 DEF IInv, Storing
<1>10. Doomed'
  <2>1. ASSUME gc # Idle, NEW x \in gc.next \cup gc.dirty
        PROVE  ~Live(x)' /\ until'[x] + Grace <= gc.now
    <3>1. x \in Contents /\ gc.now \in Nat /\ ~Live(x) /\ until[x] + Grace <= gc.now
      BY <2>1, TypesOf DEF IInv, Scans, Doomed
    <3> QED
      BY <1>5, <1>6, <3>1
  <2> QED
    BY <1>1, <2>1 DEF Doomed
<1>11. OrphansKnown'
  <2>1. ASSUME NEW x \in Contents, row'[x].status = "ACTIVE", ~Live(x)'
        PROVE  row'[x].orphaned # 0 /\ until'[x] <= row'[x].orphaned
    BY <1>3, <1>5, <1>6, <2>1 DEF IInv, OrphansKnown
  <2> QED
    BY <2>1 DEF OrphansKnown
<1>12. ScanKnows'
  <2>1. ASSUME gc # Idle, NEW x \in gc.todo
        PROVE  \/ Live(x)'
               \/ GracedBy(x)' # {}
               \/ gc.orphaned[x] # 0 /\ until'[x] <= gc.orphaned[x]
    <3>1. x \in Contents /\ gc.orphaned[x] \in Nat
      BY <2>1, TypesOf DEF IInv, Scans, Times
    <3>2. GracedBy(x)' = GracedBy(x)
      BY <1>1 DEF GracedBy, HasReference
    <3> QED
      BY <1>5, <1>6, <2>1, <3>1, <3>2 DEF IInv, ScanKnows
  <2> QED
    BY <1>1, <2>1 DEF ScanKnows
<1>13. Releasing'
  BY <1>1 DEF IInv, Releasing
<1> QED
  BY <1>7, <1>8, <1>9, <1>10, <1>11, <1>12, <1>13 DEF IInv

\* After a crash the files and the rows are as they were.
LEMMA CrashStep ==
    ASSUME IInv, TypeOK', Crash
    PROVE  IInv'
<1>1. /\ gc' = Idle /\ reader' = Idle /\ \A o \in Owners : store'[o] = Idle
      /\ UNCHANGED <<time, row, file, ref, alive>> /\ History
  BY DEF Crash
<1>2. Clock' /\ OrphansKnown'
  BY <1>1, RowsKept
<1> QED
  BY <1>1, <1>2 DEF IInv, EvidenceReadable, Usable, Storing, Doomed, ScanKnows, Releasing

-----------------------------------------------------------------------------
(* The invariant holds at the start, and every step of a behaviour without  *)
(* overlap keeps it.                                                        *)

LEMMA InitIInv ==
    ASSUME Init
    PROVE  IInv
<1>1. /\ time = 1 /\ file = {} /\ alive = Owners /\ writer = FALSE /\ gc = Idle /\ reader = Idle
      /\ row = [a \in Contents |-> [status |-> "none", orphaned |-> 0, created |-> 0]]
      /\ ref = [o \in Owners |-> NoReference]
      /\ store = [o \in Owners |-> Idle]
      /\ until = [a \in Contents |-> 0]
  BY DEF Init
<1>2. \A o \in Owners : ~ref[o].live
  BY <1>1 DEF NoReference
<1>3. \A a \in Contents : row[a].status # "ACTIVE" /\ until[a] = 0
  BY <1>1
<1>4. TypeOK
  <2>1. 0 \in Times /\ 1 \in Times
    BY StoreAssumption DEF Times
  <2>2. row \in [Contents -> [status : Statuses, orphaned : Times, created : Times]]
    BY <1>1, <2>1 DEF Statuses
  <2> QED
    BY <1>1, <2>1, <2>2 DEF TypeOK
<1> QED
  BY <1>1, <1>2, <1>3, <1>4 DEF IInv, Clock, EvidenceReadable, Storing, Doomed, OrphansKnown,
     ScanKnows, Releasing

LEMMA NextIInv ==
    ASSUME IInv, NoOverlap, [Next]_vars
    PROVE  IInv'
<1>1. TypeOK'
  BY TypeStep DEF IInv
<1>2. CASE UNCHANGED vars
  <2>1. \A a \in Contents : /\ Live(a)' <=> Live(a)
                            /\ InUse(a)' <=> InUse(a)
                            /\ GracedBy(a)' = GracedBy(a)
    BY <1>2 DEF vars, Live, InUse, GracedBy, HasReference
  <2>2. Clock' /\ EvidenceReadable' /\ Storing'
    BY <1>2 DEF vars, IInv, Clock, EvidenceReadable, Usable, Storing
  <2>3. Doomed'
    BY <1>2, <2>1, TypesOf DEF vars, IInv, Doomed, Scans, TypeOK
  <2>4. OrphansKnown' /\ Releasing'
    BY <1>2, <2>1 DEF vars, IInv, OrphansKnown, Releasing
  <2>5. ScanKnows'
    BY <1>2, <2>1, TypesOf DEF vars, IInv, ScanKnows, Scans
  <2> QED
    BY <1>1, <2>2, <2>3, <2>4, <2>5 DEF IInv
<1>3. CASE Next
  <2>1. ASSUME NEW o \in Owners, Release(o) \/ DeleteOwner(o)
        PROVE  IInv'
    BY <1>1, <2>1, ReleaseStep DEF Release, DeleteOwner
  <2> QED
    BY <1>1, <1>3, <2>1, LookStep, WriteBlobStep, IdleStep, AttachStep, StartGcStep, CheckStep,
       UnlinkStep, CommitGcStep, FindMissingStep, MarkMissingStep, CrashStep DEF Next
<1> QED
  BY <1>2, <1>3

-----------------------------------------------------------------------------
(* What follows.                                                           *)

(* In every behaviour without overlapping stores the collector, the readers *)
(* and the owners know of every content what they act on                    *)
(* (artifact_store.py, retention_service.py).                               *)
THEOREM Invariance == Spec /\ []NoOverlap => []IInv
<1>1. Init => IInv
  BY InitIInv
<1>2. IInv /\ NoOverlap /\ [Next]_vars => IInv'
  BY NextIInv
<1> QED
  BY <1>1, <1>2, PTL DEF Spec

(* Evidence that somebody refers to can be read, as long as no store runs    *)
(* while the collector or a reader is at its content (gc_assets).            *)
THEOREM EvidenceStaysReadable == Spec /\ []NoOverlap => []EvidenceReadable
<1>1. IInv => EvidenceReadable
  BY DEF IInv
<1> QED
  BY <1>1, Invariance, PTL

(* Nothing is removed before the grace period since its last reference is    *)
(* over, under the same condition, and every variable has its type.          *)
THEOREM GraceIsKept == Spec /\ []NoOverlap => []GraceInOrder
<1>1. IInv => GraceInOrder
  <2>1. ASSUME IInv, gc # Idle, NEW a \in gc.dirty
        PROVE  until[a] + Grace <= gc.now
    BY <2>1 DEF IInv, Doomed
  <2> QED
    BY <2>1 DEF IInv, GraceInOrder, GraceKept
<1> QED
  BY <1>1, Invariance, PTL

=============================================================================
